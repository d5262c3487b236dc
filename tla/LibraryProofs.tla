----------------------------- MODULE LibraryProofs -----------------------------
(***************************************************************************)
(* The library and its scans, for any number of folders, files, scans and  *)
(* changes.                                                                *)
(***************************************************************************)
EXTENDS LibraryScanner, SequenceTheorems, FiniteSetTheorems, TLAPS

Path == Seq(Name)
ScanPC == {"idle", "snapshot", "walk", "compare", "update", "match",
           "discover", "newAuthor", "title", "newBook", "insert"}
AtFile == {"compare", "update", "match", "discover", "newAuthor", "title", "newBook", "insert"}
Named  == {"newAuthor", "title", "newBook"}
Job == [pc : ScanPC, root : Path, existing : SUBSET Place, dirs : SUBSET Path,
        todo : SUBSET Place, found : SUBSET Place, at : Place \cup {NoPlace}, size : Nat,
        info : Info, author : Nat, book : Nat, missed : SUBSET Place]

JobOk(r) ==
    /\ r \in Job
    /\ r.pc \in AtFile => r.at \in Place
    /\ r.pc \in Named => r.info.author \in Name /\ r.info.title \in Name

(***************************************************************************)
(* The tables, with what the schema's keys say of them.                    *)
(***************************************************************************)
Counters == lastId \in [root : Nat, author : Nat, book : Nat]
RootRows == root \in SUBSET [id : 1..lastId.root, path : Path \ {<<>>}]
AuthorRows ==
    /\ author \in SUBSET [id : 1..lastId.author, name : Name, path : Path]
    /\ \A a, b \in author : a.id = b.id => a = b
BookRows ==
    /\ book \in SUBSET [id : 1..lastId.book, author : {a.id : a \in author}, title : Name]
    /\ \A b, c \in book : b.id = c.id => b = c
FileRows ==
    /\ file \in SUBSET [place : Place, book : {b.id : b \in book}, size : Nat]
    /\ IsFiniteSet(file)
    /\ \A f, g \in file : f.place = g.place => f = g

Tables == Counters /\ RootRows /\ AuthorRows /\ BookRows /\ FileRows

Jobs == scan \in [Scan -> Job] /\ \A s \in Scan : JobOk(scan[s])
Disk == disk \in [Place -> Content \cup {Cut, Absent}]

Types == Tables /\ Jobs /\ Disk /\ deleting \in Nat /\ stale \subseteq Running

-----------------------------------------------------------------------------
(* What the operators return. *)

LEMMA PlaceFields ==
    ASSUME NEW p \in Place
    PROVE  p.dir \in Path /\ p.base \in Name /\ Full(p) \in Path
  BY ConstantsOK DEF Full, Path

LEMMA Longest ==
    ASSUME NEW parts \in Path, parts # <<>>, Len(parts) # 1
    PROVE  parts[1] \in Name /\ parts[2] \in Name
<1>1. Len(parts) \in Nat /\ Len(parts) # 0
  BY EmptySeq, LenProperties DEF Path
<1>2. 1 \in 1..Len(parts) /\ 2 \in 1..Len(parts)
  BY <1>1
<1> QED BY <1>2, ElementOfSeq DEF Path

LEMMA Saying ==
    ASSUME NEW dir \in Path, NEW p \in Place
    PROVE  parsePathForBookInfo(dir, p) \in Info
<1>1. Within(dir, p) \in Path
  BY PlaceFields, SubSeqProperties DEF Within, Path
<1>2. p.base \in Name /\ (p.base \in DOMAIN Dashed => Dashed[p.base] \in Info)
  BY ConstantsOK
<1>3. Within(dir, p) # <<>> => Within(dir, p)[1] \in Name
  BY <1>1 DEF Path
<1>4. Within(dir, p) # <<>> /\ Len(Within(dir, p)) # 1 => Within(dir, p)[2] \in Name
  BY <1>1, Longest
<1> QED BY <1>2, <1>3, <1>4 DEF parsePathForBookInfo, Info

LEMMA Discovery ==
    ASSUME Disk, NEW dir \in Path, NEW p \in Place
    PROVE  Discovered(dir, p) \in [author : Name, title : Name]
<1>1. (IF disk[p] = Absent THEN NoInfo ELSE Meta[disk[p]]) \in Info
  BY ConstantsOK DEF Disk, NoInfo, Info
<1>2. parsePathForBookInfo(dir, p) \in Info
  BY Saying
<1>3. p.base \in Name /\ Unknown \in Name
  BY ConstantsOK
<1> QED BY <1>1, <1>2, <1>3 DEF Discovered, Info


-----------------------------------------------------------------------------
(* Types *)

LEMMA JobSet ==
    ASSUME Types, NEW s \in Scan, NEW r, JobOk(r), Become(s, r)
    PROVE  Jobs'
<1>1. scan' \in [Scan -> Job]
  BY DEF Types, Jobs, JobOk, Become
<1>2. ASSUME NEW t \in Scan PROVE JobOk(scan'[t])
  BY DEF Types, Jobs, Become
<1>3. (\A t \in Scan : JobOk(scan[t]))'
  BY <1>2 DEF JobOk
<1> QED BY <1>1, <1>3 DEF Jobs

LEMMA StaleKept ==
    ASSUME Types, NEW s \in Scan, NEW r, r.pc # "idle", Become(s, r), stale' = stale
    PROVE  (stale \subseteq Running)'
  BY DEF Types, Jobs, Become, Running

LEMMA ReadsTypes ==
    ASSUME Types, NEW s \in Scan, NEW r, JobOk(r), r.pc # "idle", Reads(s, r)
    PROVE  Types'
<1>1. Jobs' /\ (stale \subseteq Running)'
  BY JobSet, StaleKept DEF Reads, history
<1>2. Tables'
  BY DEF Reads, Types, Tables, tables, Counters, RootRows, AuthorRows, BookRows, FileRows
<1> QED BY <1>1, <1>2 DEF Types, Disk, Reads

LEMMA BackToWalkJob ==
    ASSUME NEW r, JobOk(r), NEW q, q = BackToWalk(r)
    PROVE  /\ JobOk(q) /\ q.pc = "walk"
           /\ q.root = r.root /\ q.existing = r.existing /\ q.dirs = r.dirs
           /\ q.todo = r.todo /\ q.found = r.found /\ q.missed = r.missed
  BY DEF JobOk, Job, BackToWalk, NoInfo, Info, AtFile, Named, ScanPC

LEMMA IdleJob == JobOk(Idle)
  BY EmptySeq DEF Idle, JobOk, Job, NoInfo, Info, AtFile, Named, ScanPC, Path

LEMMA TheJob == ASSUME Types, NEW s \in Scan PROVE JobOk(scan[s])
  BY DEF Types, Jobs

LEMMA PathsAreHere == ASSUME Types PROVE Paths \subseteq Place
  BY DEF Types, Tables, FileRows, Paths

\* A scan that only reads.
LEMMA SnapshotTypes ==
    ASSUME Types, NEW s \in Scan, Snapshot(s)
    PROVE  Types'
<1> DEFINE old == {p \in Paths : Like(scan[s].root, Full(p))}
           ds  == {p.dir : p \in {q \in Place : Walkable(scan[s].root, q)}}
           ms  == {p \in old : ~OnDisk(p)}
           r   == [scan[s] EXCEPT !.pc = "walk", !.existing = old, !.dirs = ds, !.missed = ms]
<1>1. old \subseteq Place /\ ms \subseteq Place /\ ds \subseteq Path
  BY PathsAreHere, PlaceFields
<1>2. Reads(s, r)
  BY DEF Snapshot
<1> HIDE DEF old, ds, ms
<1>3. JobOk(r) /\ r.pc = "walk"
  BY <1>1, TheJob DEF JobOk, Job, AtFile, Named, ScanPC
<1> QED BY <1>2, <1>3, ReadsTypes

LEMMA WalkTypes ==
    ASSUME Types, NEW s \in Scan,
           \/ \E dir \in scan[s].dirs : ReadDir(s, dir)
           \/ \E p \in scan[s].todo : Visit(s, p)
           \/ Compare(s)
    PROVE  Types'
<1>1. JobOk(scan[s])
  BY TheJob
<1>2. ASSUME NEW dir \in scan[s].dirs, ReadDir(s, dir) PROVE Types'
  <2> DEFINE r == [scan[s] EXCEPT !.dirs = @ \ {dir},
                       !.todo = @ \cup {p \in Place : p.dir = dir /\ OnDisk(p)}]
  <2>1. JobOk(r) /\ r.pc = "walk"
    BY <1>1, <1>2 DEF ReadDir, JobOk, Job, AtFile, Named
  <2>2. Reads(s, r)
    BY <1>2 DEF ReadDir
  <2> QED BY <2>1, <2>2, ReadsTypes
<1>3. ASSUME NEW p \in scan[s].todo, Visit(s, p) PROVE Types'
  <2> DEFINE q == [scan[s] EXCEPT !.todo = @ \ {p}, !.found = @ \cup {p}]
             pc == IF p \in scan[s].existing THEN "compare" ELSE "match"
             r == [q EXCEPT !.at = p, !.size = Size[disk[p]], !.pc = pc]
  <2>1. p \in Place
    BY <1>1 DEF JobOk, Job
  <2>2. JobOk(q) /\ q.pc = "walk"
    BY <1>1, <1>3, <2>1 DEF Visit, JobOk, Job, AtFile, Named
  <2>3. ASSUME OnDisk(p) PROVE Size[disk[p]] \in Nat
    BY <2>1, <2>3, ConstantsOK DEF OnDisk, Types, Disk
  <2>4. pc \in {"compare", "match"}
    OBVIOUS
  <2> HIDE DEF q, pc
  <2>5. ASSUME OnDisk(p) PROVE JobOk(r) /\ r.pc = pc
    BY <2>1, <2>2, <2>3, <2>4, <2>5 DEF JobOk, Job, ScanPC, AtFile, Named
  <2>6. CASE OnDisk(p)
    <3>1. Reads(s, r)
      BY <1>3, <2>6 DEF Visit, q, pc
    <3> QED BY <2>4, <2>5, <2>6, <3>1, ReadsTypes
  <2>7. CASE ~OnDisk(p)
    <3>1. Reads(s, q)
      BY <1>3, <2>7 DEF Visit, q
    <3> QED BY <2>2, <3>1, ReadsTypes
  <2> QED BY <2>6, <2>7
<1>4. ASSUME Compare(s) PROVE Types'
  <2> DEFINE r == [scan[s] EXCEPT !.pc = "update"]
  <2>1. JobOk(r) /\ r.pc = "update"
    BY <1>1, <1>4 DEF Compare, JobOk, Job, ScanPC, AtFile, Named
  <2>2. JobOk(BackToWalk(scan[s])) /\ BackToWalk(scan[s]).pc = "walk"
    BY <1>1, BackToWalkJob
  <2>3. Reads(s, r) \/ Reads(s, BackToWalk(scan[s]))
    BY <1>4 DEF Compare
  <2> HIDE DEF r
  <2> QED BY <2>1, <2>2, <2>3, ReadsTypes
<1> QED BY <1>2, <1>3, <1>4

LEMMA SearchTypes ==
    ASSUME Types, NEW s \in Scan, Match(s) \/ Discover(s) \/ FindBook(s)
    PROVE  Types'
<1>1. JobOk(scan[s])
  BY TheJob
<1>2. (\A b \in book : b.id \in Nat) /\ (\A a \in author : a.id \in Nat)
  BY DEF Types, Tables, BookRows, AuthorRows, Counters
<1>3. ASSUME Match(s) PROVE Types'
  <2>1. scan[s].pc = "match"
    BY <1>3 DEF Match
  <2>2. Matches(scan[s].at) \subseteq book
    BY DEF Matches, BooksIn
  <2>3. ASSUME NEW b \in book PROVE JobOk([scan[s] EXCEPT !.pc = "insert", !.book = b.id])
    BY <1>1, <1>2, <2>1 DEF JobOk, Job, ScanPC, AtFile, Named
  <2>4. JobOk([scan[s] EXCEPT !.pc = "discover"])
    BY <1>1, <2>1 DEF JobOk, Job, ScanPC, AtFile, Named
  <2>5. \A b \in book : [scan[s] EXCEPT !.pc = "insert", !.book = b.id].pc # "idle"
    BY <1>1 DEF JobOk, Job
  <2>6. [scan[s] EXCEPT !.pc = "discover"].pc # "idle"
    BY <1>1 DEF JobOk, Job
  <2>7. \/ \E b \in book : Reads(s, [scan[s] EXCEPT !.pc = "insert", !.book = b.id])
        \/ Reads(s, [scan[s] EXCEPT !.pc = "discover"])
    BY <1>3, <2>2 DEF Match
  <2> QED BY <2>3, <2>4, <2>5, <2>6, <2>7, ReadsTypes
<1>4. ASSUME Discover(s) PROVE Types'
  <2> DEFINE info == Discovered(scan[s].root, scan[s].at)
             new == [scan[s] EXCEPT !.pc = "newAuthor", !.info = info]
             had(a) == [scan[s] EXCEPT !.pc = "title", !.info = info, !.author = a.id]
  <2>1. scan[s].pc = "discover" /\ scan[s].at \in Place /\ scan[s].root \in Path
    BY <1>1, <1>4 DEF Discover, JobOk, Job, AtFile
  <2>2. info \in [author : Name, title : Name] /\ info \in Info
    BY <2>1, Discovery DEF Types, Info
  <2>3. AuthorsNamed(info.author) \subseteq author
    BY DEF AuthorsNamed
  <2>4. \/ \E a \in author : Reads(s, had(a))
        \/ Reads(s, new)
    BY <1>4, <2>3 DEF Discover
  <2> HIDE DEF info
  <2>5. ASSUME NEW a \in author PROVE JobOk(had(a)) /\ had(a).pc = "title"
    BY <1>1, <1>2, <2>1, <2>2 DEF JobOk, Job, ScanPC, AtFile, Named
  <2>6. JobOk(new) /\ new.pc = "newAuthor"
    BY <1>1, <2>1, <2>2 DEF JobOk, Job, ScanPC, AtFile, Named
  <2> HIDE DEF had, new
  <2> QED BY <2>4, <2>5, <2>6, ReadsTypes
<1>5. ASSUME FindBook(s) PROVE Types'
  <2> DEFINE new == [scan[s] EXCEPT !.pc = "newBook"]
             had(b) == [scan[s] EXCEPT !.pc = "insert", !.book = b.id, !.author = 0,
                                       !.info = NoInfo]
  <2>1. scan[s].pc = "title"
    BY <1>5 DEF FindBook
  <2>2. BooksTitled(scan[s].author, scan[s].info.title) \subseteq book
    BY DEF BooksTitled
  <2>3. \/ \E b \in book : Reads(s, had(b))
        \/ Reads(s, new)
    BY <1>5, <2>2 DEF FindBook
  <2>4. ASSUME NEW b \in book PROVE JobOk(had(b)) /\ had(b).pc = "insert"
    BY <1>1, <1>2, <2>1 DEF JobOk, Job, ScanPC, AtFile, Named, NoInfo, Info
  <2>5. JobOk(new) /\ new.pc = "newBook"
    BY <1>1, <2>1 DEF JobOk, Job, ScanPC, AtFile, Named
  <2> HIDE DEF had, new
  <2> QED BY <2>3, <2>4, <2>5, ReadsTypes
<1> QED BY <1>3, <1>4, <1>5

LEMMA FiniteImage ==
    ASSUME NEW S, IsFiniteSet(S), NEW g, DOMAIN g = S, g = [x \in S |-> g[x]]
    PROVE  LET T == {g[x] : x \in S} IN
           /\ IsFiniteSet(T)
           /\ Cardinality(T) = Cardinality(S)
                <=> (\A x, y \in S : g[x] = g[y] => x = y)
<1> DEFINE T == {g[x] : x \in S}
<1>1. g \in Surjection(S, T)
  BY DEF Surjection
<1>2. g \in Injection(S, T) <=> (\A x, y \in S : g[x] = g[y] => x = y)
  BY DEF Injection, IsInjective
<1> QED BY <1>1, <1>2, FS_Surjection

\* UNIQUE, as the schema and as a count say it.
LEMMA UniquePlaces ==
    ASSUME IsFiniteSet(file)
    PROVE  Cardinality(Paths) = Cardinality(file)
             <=> (\A f, g \in file : f.place = g.place => f = g)
<1> DEFINE at == [f \in file |-> f.place]
<1>1. Paths = {at[f] : f \in file}
  BY DEF Paths
<1>2. DOMAIN at = file /\ at = [f \in file |-> at[f]]
  OBVIOUS
<1>3. \A f \in file : at[f] = f.place
  OBVIOUS
<1> HIDE DEF at
<1>4. Cardinality(Paths) = Cardinality(file) <=> (\A f, g \in file : at[f] = at[g] => f = g)
  BY <1>1, <1>2, FiniteImage
<1> QED BY <1>3, <1>4

\* A scan that writes.
LEMMA UpdateFileTypes ==
    ASSUME Types, NEW s \in Scan, UpdateFile(s)
    PROVE  Types' /\ Paths' = Paths
<1>1. JobOk(scan[s])
  BY TheJob
<1>2. JobOk(BackToWalk(scan[s])) /\ BackToWalk(scan[s]).pc = "walk"
  BY <1>1, BackToWalkJob
<1>3. Jobs' /\ (stale \subseteq Running)'
  BY <1>2, JobSet, StaleKept DEF UpdateFile, history
<1> DEFINE new(f) == IF f.place = scan[s].at THEN [f EXCEPT !.size = scan[s].size] ELSE f
<1>4. file' = {new(f) : f \in file}
  BY DEF UpdateFile
<1>5. scan[s].size \in Nat
  BY <1>1 DEF JobOk, Job
<1>6. ASSUME NEW f \in file
      PROVE  /\ new(f) \in [place : Place, book : {b.id : b \in book}, size : Nat]
             /\ new(f).place = f.place
  BY <1>5, <1>6 DEF Types, Tables, FileRows
<1> HIDE DEF new
<1>7. IsFiniteSet(file')
  <2> DEFINE g == [f \in file |-> new(f)]
  <2>1. file' = {g[f] : f \in file}
    BY <1>4
  <2>2. DOMAIN g = file /\ g = [f \in file |-> g[f]]
    OBVIOUS
  <2> HIDE DEF g
  <2> QED BY <2>1, <2>2, FiniteImage DEF Types, Tables, FileRows
<1>8. FileRows'
  BY <1>4, <1>6, <1>7 DEF Types, Tables, FileRows, UpdateFile
<1>9. Tables'
  BY <1>8 DEF UpdateFile, Types, Tables, Counters, RootRows, AuthorRows, BookRows
<1>10. Paths' = Paths
  BY <1>4, <1>6 DEF Paths
<1> QED BY <1>3, <1>9, <1>10 DEF UpdateFile, Types, Disk

LEMMA CreateAuthorTypes ==
    ASSUME Types, NEW s \in Scan, CreateAuthor(s)
    PROVE  Types'
<1> DEFINE r == scan[s]
           id == lastId.author + 1
           a  == [id |-> id, name |-> r.info.author, path |-> Append(r.root, r.info.author)]
           q  == [r EXCEPT !.pc = "title", !.author = id]
<1>1. JobOk(r) /\ r.pc = "newAuthor" /\ lastId.author \in Nat
  BY TheJob DEF CreateAuthor, Types, Tables, Counters
<1>2. r.info.author \in Name /\ r.info.title \in Name /\ r.root \in Path
  BY <1>1 DEF JobOk, Job, Named
<1>3. author' = author \cup {a} /\ lastId' = [lastId EXCEPT !.author = id] /\ Become(s, q)
  BY DEF CreateAuthor
<1>4. Append(r.root, r.info.author) \in Path
  BY <1>2 DEF Path
<1>5. a \in [id : 1..id, name : Name, path : Path]
  BY <1>1, <1>2, <1>4
<1>6. JobOk(q) /\ q.pc = "title"
  <2>1. id \in Nat
    BY <1>1
  <2> HIDE DEF id, r
  <2> QED BY <1>1, <1>2, <2>1 DEF JobOk, Job, ScanPC, AtFile, Named
<1> HIDE DEF r, q
<1>7. Jobs' /\ (stale \subseteq Running)'
  BY <1>3, <1>6, JobSet, StaleKept DEF CreateAuthor, history
<1>8. Counters' /\ lastId'.author = id /\ lastId'.root = lastId.root /\ lastId'.book = lastId.book
  BY <1>1, <1>3 DEF Types, Tables, Counters
<1>9. \A b \in author : b.id \in 1..lastId.author
  BY DEF Types, Tables, AuthorRows
<1> HIDE DEF a, id
<1>10. a.id = id /\ id = lastId.author + 1
  BY DEF a, id
<1>11. AuthorRows'
  <2>1. author' \in SUBSET [id : 1..lastId'.author, name : Name, path : Path]
    BY <1>1, <1>3, <1>5, <1>8, <1>10 DEF Types, Tables, AuthorRows
  <2>2. \A b \in author : b.id # a.id
    BY <1>1, <1>9, <1>10
  <2>3. \A b, c \in author' : b.id = c.id => b = c
    BY <1>3, <2>2 DEF Types, Tables, AuthorRows
  <2> QED BY <2>1, <2>3 DEF AuthorRows
<1>12. BookRows' /\ FileRows' /\ RootRows'
  BY <1>3, <1>8 DEF CreateAuthor, Types, Tables, BookRows, FileRows, RootRows
<1> QED BY <1>7, <1>8, <1>11, <1>12 DEF CreateAuthor, Types, Tables, Disk

LEMMA CreateBookTypes ==
    ASSUME Types, NEW s \in Scan, CreateBook(s)
    PROVE  Types'
<1> DEFINE r == scan[s]
           id == lastId.book + 1
           b  == [id |-> id, author |-> r.author, title |-> r.info.title]
           q  == [r EXCEPT !.pc = "insert", !.book = id, !.author = 0, !.info = NoInfo]
<1>1. JobOk(r) /\ r.pc = "newBook" /\ lastId.book \in Nat
  BY TheJob DEF CreateBook, Types, Tables, Counters
<1>2. JobOk(BackToWalk(r)) /\ BackToWalk(r).pc = "walk"
  BY <1>1, BackToWalkJob
<1>3. r.info.title \in Name
  BY <1>1 DEF JobOk, Job, Named
<1>4. JobOk(q) /\ q.pc = "insert"
  <2>1. id \in Nat
    BY <1>1
  <2> HIDE DEF id, r
  <2> QED BY <1>1, <2>1 DEF JobOk, Job, ScanPC, AtFile, Named, NoInfo, Info
<1> HIDE DEF q
<1>5. Become(s, q) \/ Become(s, BackToWalk(r))
  BY DEF CreateBook, q
<1>6. Jobs' /\ (stale \subseteq Running)'
  BY <1>2, <1>4, <1>5, JobSet, StaleKept DEF CreateBook, history
<1>7. CASE \E a \in author : a.id = r.author
  <2>1. book' = book \cup {b} /\ lastId' = [lastId EXCEPT !.book = id]
    BY <1>7 DEF CreateBook
  <2>2. r.author \in {a.id : a \in author}
    BY <1>7
  <2>3. b \in [id : 1..id, author : {a.id : a \in author}, title : Name]
    BY <1>1, <1>3, <2>2
  <2>4. Counters' /\ lastId'.book = id /\ lastId'.root = lastId.root /\ lastId'.author = lastId.author
    BY <1>1, <2>1 DEF Types, Tables, Counters
  <2>5. \A c \in book : c.id \in 1..lastId.book
    BY DEF Types, Tables, BookRows
  <2> HIDE DEF b, id
  <2>6. b.id = id /\ id = lastId.book + 1
    BY DEF b, id
  <2>7. BookRows'
    <3>1. book' \in SUBSET [id : 1..lastId'.book, author : {a.id : a \in author}, title : Name]
      BY <1>1, <2>1, <2>3, <2>4, <2>6 DEF Types, Tables, BookRows
    <3>2. \A c \in book : c.id # b.id
      BY <1>1, <2>5, <2>6
    <3>3. \A c, d \in book' : c.id = d.id => c = d
      BY <2>1, <3>2 DEF Types, Tables, BookRows
    <3> QED BY <3>1, <3>3 DEF BookRows, CreateBook
  <2>8. AuthorRows' /\ RootRows'
    BY <2>4 DEF CreateBook, Types, Tables, AuthorRows, RootRows
  <2>9. FileRows'
    BY <2>1 DEF CreateBook, Types, Tables, FileRows
  <2> QED BY <1>6, <2>4, <2>7, <2>8, <2>9 DEF CreateBook, Types, Tables, Disk
<1>8. CASE ~\E a \in author : a.id = r.author
  <2>1. UNCHANGED tables
    BY <1>8 DEF CreateBook, tables
  <2>2. Tables'
    BY <2>1 DEF Types, Tables, tables, Counters, RootRows, AuthorRows, BookRows, FileRows
  <2> QED BY <1>6, <2>2 DEF CreateBook, Types, Disk
<1> QED BY <1>7, <1>8

LEMMA AddFileTypes ==
    ASSUME Types, NEW s \in Scan, AddFile(s)
    PROVE  Types'
<1> DEFINE r == scan[s]
           f == [place |-> r.at, book |-> r.book, size |-> r.size]
<1>1. JobOk(r) /\ r.pc = "insert" /\ r.at \in Place /\ r.size \in Nat
  BY TheJob DEF AddFile, JobOk, Job, AtFile
<1>2. JobOk(BackToWalk(r)) /\ BackToWalk(r).pc = "walk"
  BY <1>1, BackToWalkJob
<1>3. Jobs' /\ (stale \subseteq Running)'
  BY <1>2, JobSet, StaleKept DEF AddFile, history
<1>4. CASE r.at \notin Paths /\ \E b \in book : b.id = r.book
  <2>1. file' = file \cup {f}
    BY <1>4 DEF AddFile
  <2>2. r.book \in {b.id : b \in book}
    BY <1>4
  <2>3. f \in [place : Place, book : {b.id : b \in book}, size : Nat] /\ f.place = r.at
    BY <1>1, <2>2
  <2>4. \A g \in file : g.place # r.at
    BY <1>4 DEF Paths
  <2> HIDE DEF f, r
  <2>5. IsFiniteSet(file')
    BY <2>1, FS_AddElement DEF Types, Tables, FileRows
  <2>6. FileRows'
    BY <2>1, <2>3, <2>4, <2>5 DEF Types, Tables, FileRows, AddFile
  <2> QED BY <1>3, <2>6 DEF AddFile, Types, Tables, Disk, Counters, RootRows, AuthorRows, BookRows
<1>5. CASE ~(r.at \notin Paths /\ \E b \in book : b.id = r.book)
  <2>1. file' = file
    BY <1>5 DEF AddFile
  <2> QED BY <1>3, <2>1 DEF AddFile, Types, Tables, Disk, Counters, RootRows, AuthorRows,
                             BookRows, FileRows
<1> QED BY <1>4, <1>5

LEMMA FewerFiles ==
    ASSUME Types, file' \subseteq file, UNCHANGED <<root, author, book, lastId>>
    PROVE  Tables'
<1>1. IsFiniteSet(file')
  BY FS_Subset DEF Types, Tables, FileRows
<1>2. FileRows'
  BY <1>1 DEF Types, Tables, FileRows
<1> QED BY <1>2 DEF Types, Tables, Counters, RootRows, AuthorRows, BookRows

LEMMA RemoveRowTypes ==
    ASSUME Types, NEW s \in Scan, NEW p \in scan[s].existing, RemoveRow(s, p)
    PROVE  Types'
<1> DEFINE q == [scan[s] EXCEPT !.existing = @ \ {p}]
<1>1. JobOk(q) /\ q.pc = "walk"
  BY TheJob DEF RemoveRow, JobOk, Job
<1>2. Become(s, q)
  BY DEF RemoveRow
<1> HIDE DEF q
<1>3. Jobs' /\ (stale \subseteq Running)'
  BY <1>1, <1>2, JobSet, StaleKept DEF RemoveRow, history
<1>4. Tables'
  BY FewerFiles DEF RemoveRow
<1> QED BY <1>3, <1>4 DEF RemoveRow, Types, Disk

\* A scan begins, or ends, in its own time or not.
LEMMA ScanBeginTypes ==
    ASSUME Types, NEW s \in Scan, NEW dir \in Path, ScanBegin(s, dir)
    PROVE  Types'
<1> DEFINE q == [Idle EXCEPT !.pc = "snapshot", !.root = dir]
<1>1. JobOk(q) /\ q.pc = "snapshot"
  BY IdleJob DEF JobOk, Job, ScanPC, AtFile, Named
<1>2. Become(s, q)
  BY DEF ScanBegin
<1> HIDE DEF q
<1>3. Jobs' /\ (stale \subseteq Running)'
  BY <1>1, <1>2, JobSet, StaleKept DEF ScanBegin
<1> QED BY <1>3 DEF ScanBegin, Types, Tables, tables, Disk, Counters, RootRows, AuthorRows, BookRows,
                    FileRows

LEMMA TablesStay == ASSUME Types, UNCHANGED tables PROVE Tables'
  BY DEF Types, Tables, tables, Counters, RootRows, AuthorRows, BookRows, FileRows

LEMMA ScanStops ==
    ASSUME Types, NEW s \in Scan, ScanEnd(s) \/ ScanAborted(s)
    PROVE  Types'
<1>1. Become(s, Idle) /\ UNCHANGED <<tables, disk, deleting>>
  BY DEF ScanEnd, ScanAborted
<1>2. Jobs'
  BY <1>1, IdleJob, JobSet
<1>3. \/ stale' = Running'
      \/ stale' = stale /\ s \notin stale
  BY DEF ScanEnd, ScanAborted, Disturbed
<1>4. (stale \subseteq Running)'
  BY <1>1, <1>3 DEF Become, Types, Jobs, Running
<1> QED BY <1>1, <1>2, <1>4, TablesStay DEF Types, Disk

\* What is left of the walk of a scan that could not read a directory.
LEMMA ReadDirFailsJob ==
    ASSUME Types, NEW s \in Scan, NEW dir \in scan[s].dirs, ReadDirFails(s, dir)
    PROVE  \E q : /\ Become(s, q) /\ JobOk(q)
                  /\ scan[s].pc = "walk" /\ q.pc = scan[s].pc /\ q.root = scan[s].root
                  /\ q.at = scan[s].at /\ q.size = scan[s].size /\ q.info = scan[s].info
                  /\ q.author = scan[s].author /\ q.book = scan[s].book
                  /\ q.existing = scan[s].existing /\ q.found = scan[s].found
                  /\ q.missed = scan[s].missed \cup {p \in scan[s].existing : Under(dir, p)}
                  /\ q.dirs \subseteq scan[s].dirs
                  /\ \A d \in scan[s].dirs \ q.dirs : IsPrefix(dir, d)
                  /\ scan[s].todo \subseteq q.todo
                  /\ \A p \in q.todo : p \in scan[s].todo \/ p.dir = dir
<1> DEFINE r == scan[s]
           gone == {p \in r.existing : Under(dir, p)}
           q(listed, lost) == [r EXCEPT !.dirs = @ \ lost, !.todo = @ \cup listed,
                                        !.missed = @ \cup gone]
<1>1. r \in Job /\ r.pc = "walk" /\ gone \subseteq Place
  BY TheJob DEF JobOk, Job, ReadDirFails
<1>2. PICK listed \in SUBSET {p \in Place : p.dir = dir /\ OnDisk(p)},
           lost \in SUBSET {d \in r.dirs : IsPrefix(dir, d)} : Become(s, q(listed, lost))
  BY DEF ReadDirFails
<1> DEFINE n == q(listed, lost)
<1> HIDE DEF gone
<1>3. /\ n.pc = "walk" /\ n.root = r.root /\ n.at = r.at /\ n.size = r.size /\ n.info = r.info
      /\ n.author = r.author /\ n.book = r.book /\ n.existing = r.existing /\ n.found = r.found
      /\ n.missed = r.missed \cup gone /\ n.dirs = r.dirs \ lost /\ n.todo = r.todo \cup listed
  BY <1>1 DEF Job
<1>4. n \in Job
  BY <1>1 DEF Job
<1>5. JobOk(n)
  BY <1>1, <1>3, <1>4, TheJob DEF JobOk, AtFile, Named
<1> HIDE DEF r, q
<1> WITNESS n
<1> QED BY <1>1, <1>2, <1>3, <1>5 DEF gone, r

LEMMA ReadDirFailsTypes ==
    ASSUME Types, NEW s \in Scan, NEW dir \in scan[s].dirs, ReadDirFails(s, dir)
    PROVE  Types'
<1>1. PICK q : Become(s, q) /\ JobOk(q)
  BY ReadDirFailsJob
<1>2. Jobs'
  BY <1>1, JobSet
<1> QED BY <1>2, TablesStay DEF ReadDirFails, Disturbed, Types, Disk

LEMMA DiskTypes ==
    ASSUME Types, NEW d \in [Place -> Content \cup {Cut, Absent}], DiskBecomes(d),
           UNCHANGED tables, deleting' \in Nat
    PROVE  Types' /\ Running' = Running
<1> DEFINE r(s) == [scan[s] EXCEPT !.missed = @ \cup {p \in scan[s].existing : d[p] = Absent}]
<1>1. scan' = [s \in Scan |-> r(s)]
  BY DEF DiskBecomes
<1>2. ASSUME NEW s \in Scan PROVE JobOk(r(s)) /\ r(s).pc = scan[s].pc
  BY TheJob DEF JobOk, Job
<1> HIDE DEF r
<1>3. Jobs'
  BY <1>1, <1>2 DEF Jobs, JobOk
<1>4. Running' = Running
  BY <1>1, <1>2 DEF Running
<1> QED BY <1>3, <1>4, TablesStay DEF DiskBecomes, Disturbed, Types, Disk

\* DELETE FROM authors keeps the keys.
LEMMA DeleteAuthorRowTypes ==
    ASSUME Types, NEW id, DeleteAuthorRow(id), UNCHANGED <<root, lastId>>
    PROVE  Tables'
<1>1. Tables
  BY DEF Types
<1>2. AuthorRows'
  BY <1>1 DEF Tables, AuthorRows, DeleteAuthorRow
<1>3. BookRows'
  <2>1. \A b \in book' : b \in book /\ b.author # id
    BY DEF DeleteAuthorRow
  <2>2. \A b \in book : \E a \in author : a.id = b.author
    BY <1>1 DEF Tables, BookRows
  <2>3. \A b \in book' : b.author \in {a.id : a \in author'}
    BY <2>1, <2>2 DEF DeleteAuthorRow
  <2>4. book' \in SUBSET [id : 1..lastId'.book, author : {a.id : a \in author'}, title : Name]
    BY <1>1, <2>1, <2>3 DEF Tables, BookRows
  <2> QED BY <1>1, <2>1, <2>4 DEF Tables, BookRows
<1>4. FileRows'
  <2>1. \A f \in file' : f \in file /\ f.book \in {b.id : b \in book'}
    BY DEF DeleteAuthorRow
  <2>2. IsFiniteSet(file')
    BY <1>1, <2>1, FS_Subset DEF Tables, FileRows
  <2>3. file' \in SUBSET [place : Place, book : {b.id : b \in book'}, size : Nat]
    BY <1>1, <2>1 DEF Tables, FileRows
  <2> QED BY <1>1, <2>1, <2>2, <2>3 DEF Tables, FileRows
<1> QED BY <1>1, <1>2, <1>3, <1>4 DEF Tables, Counters, RootRows

LEMMA UserTypes ==
    ASSUME Types, User
    PROVE  Types'
<1>1. ASSUME NEW p \in Place, NEW c \in Content \cup {Absent}, FileChanges(p, c) PROVE Types'
  <2> DEFINE d == [disk EXCEPT ![p] = c]
  <2>1. d \in [Place -> Content \cup {Cut, Absent}]
    BY DEF Types, Disk
  <2>2. DiskBecomes(d) /\ UNCHANGED <<tables, deleting>>
    BY <1>1 DEF FileChanges
  <2>3. UNCHANGED tables /\ deleting' \in Nat
    BY <2>2 DEF Types
  <2> HIDE DEF d
  <2> QED BY <2>1, <2>2, <2>3, DiskTypes
<1>2. ASSUME NEW a \in author, DeleteAuthorFiles(a) PROVE Types'
  <2> DEFINE folders == {IF Folder[a.name] = NoName THEN r.path
                         ELSE Append(r.path, Folder[a.name]) : r \in FirstRoot}
             d == [p \in Place |-> IF \E e \in folders : Under(e, p) THEN Absent ELSE disk[p]]
  <2>1. d \in [Place -> Content \cup {Cut, Absent}]
    BY DEF Types, Disk
  <2>2. DiskBecomes(d) /\ UNCHANGED tables /\ deleting' = a.id
    BY <1>2 DEF DeleteAuthorFiles
  <2>3. a.id \in Nat
    BY DEF Types, Tables, AuthorRows, Counters
  <2> HIDE DEF d
  <2> QED BY <2>1, <2>2, <2>3, DiskTypes
<1>3. ASSUME NEW id, DeleteAuthor(id) PROVE Types'
  <2>1. Tables'
    BY <1>3, DeleteAuthorRowTypes DEF DeleteAuthor
  <2>2. Jobs' /\ Disk' /\ deleting' \in Nat /\ (stale \subseteq Running)'
    BY <1>3 DEF DeleteAuthor, Types, Jobs, Disk, Disturbed
  <2> QED BY <2>1, <2>2 DEF Types
<1> QED BY <1>1, <1>2, <1>3 DEF User

LEMMA ScanStepTypes ==
    ASSUME Types, NEW s \in Scan, ScanStep(s)
    PROVE  Types'
<1>1. \A dir \in {r.path : r \in root} \cup {a.path : a \in author} : dir \in Path
  BY DEF Types, Tables, RootRows, AuthorRows
<1> QED BY <1>1, ScanBeginTypes, SnapshotTypes, WalkTypes, SearchTypes, UpdateFileTypes,
           CreateAuthorTypes, CreateBookTypes, AddFileTypes, RemoveRowTypes, ScanStops,
           ReadDirFailsTypes
        DEF ScanStep

LEMMA TypesStutter ==
    ASSUME Types, UNCHANGED <<tables, disk, scan, deleting, stale>>
    PROVE  Types'
<1>1. Running' = Running
  BY DEF Running
<1> QED BY <1>1, TablesStay DEF Types, Jobs, Disk

LEMMA RootCount ==
    ASSUME root = {[id |-> i, path |-> Roots[i]] : i \in DOMAIN Roots}
    PROVE  Cardinality(root) = Len(Roots) /\ Len(Roots) \in Nat
<1> DEFINE g == [i \in DOMAIN Roots |-> [id |-> i, path |-> Roots[i]]]
<1>1. root = {g[i] : i \in DOMAIN Roots}
  OBVIOUS
<1>2. DOMAIN g = DOMAIN Roots /\ g = [i \in DOMAIN Roots |-> g[i]]
  OBVIOUS
<1>3. \A i, j \in DOMAIN Roots : g[i] = g[j] => i = j
  OBVIOUS
<1>4. Len(Roots) \in Nat /\ DOMAIN Roots = 1..Len(Roots)
  BY ConstantsOK, LenProperties
<1>5. IsFiniteSet(DOMAIN Roots) /\ Cardinality(DOMAIN Roots) = Len(Roots)
  BY <1>4, FS_Interval
<1> HIDE DEF g
<1>6. ASSUME NEW S, S = DOMAIN Roots PROVE Cardinality(root) = Cardinality(S)
  <2>1. IsFiniteSet(S) /\ DOMAIN g = S /\ g = [x \in S |-> g[x]] /\ root = {g[x] : x \in S}
    BY <1>1, <1>2, <1>5, <1>6
  <2>2. \A x, y \in S : g[x] = g[y] => x = y
    BY <1>3, <1>6
  <2> QED BY <2>1, <2>2, FiniteImage
<1> QED BY <1>4, <1>5, <1>6

LEMMA TypesInit ==
    ASSUME Init
    PROVE  Types
<1>1. Cardinality(root) = Len(Roots) /\ Len(Roots) \in Nat
  BY RootCount DEF Init
<1>2. \A i \in DOMAIN Roots : i \in 1..Len(Roots) /\ Roots[i] \in Path \ {<<>>}
  BY ConstantsOK DEF Path
<1>3. lastId = [root |-> Cardinality(root), author |-> 0, book |-> 0]
  BY DEF Init
<1>4. Counters /\ lastId.root = Len(Roots)
  BY <1>1, <1>3 DEF Counters
<1>5. root = {[id |-> i, path |-> Roots[i]] : i \in DOMAIN Roots}
  BY DEF Init
<1>6. RootRows
  BY <1>2, <1>4, <1>5 DEF RootRows
<1>7. AuthorRows /\ BookRows /\ FileRows
  BY FS_EmptySet DEF Init, AuthorRows, BookRows, FileRows
<1>8. Jobs
  BY IdleJob DEF Init, Jobs, JobOk
<1>9. Disk /\ deleting \in Nat /\ stale \subseteq Running
  BY ConstantsOK DEF Init, Disk
<1> QED BY <1>4, <1>6, <1>7, <1>8, <1>9 DEF Types, Tables

LEMMA TypesNext ==
    ASSUME Types, [Next]_scanVars
    PROVE  Types'
<1>1. CASE Next
  BY <1>1, ScanStepTypes, UserTypes DEF Next
<1>2. CASE UNCHANGED scanVars
  BY <1>2, TypesStutter DEF scanVars, history
<1> QED BY <1>1, <1>2

LEMMA TypesAlways == Spec => []Types
<1> QED BY TypesInit, TypesNext, PTL DEF Spec

\* The types of every variable, the UNIQUE and the foreign keys of the schema.
THEOREM LibraryTypes == Spec => []TypeOK
<1>1. Types => TypeOK
  <2> SUFFICES ASSUME Types PROVE TypeOK
    OBVIOUS
  <2>1. Cardinality(Paths) = Cardinality(file)
    BY UniquePlaces DEF Types, Tables, FileRows
  <2>2. /\ root \in SUBSET [id : 1..lastId.root, path : Seq(Name)]
        /\ author \in SUBSET [id : 1..lastId.author, name : Name, path : Seq(Name)]
        /\ book \in SUBSET [id : 1..lastId.book, author : {a.id : a \in author}, title : Name]
        /\ file \in SUBSET [place : Place, book : {b.id : b \in book}, size : Nat]
    BY DEF Types, Tables, RootRows, AuthorRows, BookRows, FileRows, Path
  <2>3. ASSUME NEW s \in Scan
        PROVE  /\ scan[s].pc \in {"idle", "snapshot", "walk", "compare", "update", "match",
                                  "discover", "newAuthor", "title", "newBook", "insert"}
               /\ scan[s].pc \in {"compare", "update", "match", "insert"} => scan[s].at \in Place
               /\ scan[s].missed \subseteq Place
    BY TheJob DEF JobOk, Job, ScanPC, AtFile
  <2> QED BY <2>1, <2>2, <2>3 DEF TypeOK, Types, Disk
<1> QED BY <1>1, TypesAlways, PTL

-----------------------------------------------------------------------------
(* A scan keeps the rows of files that stay. *)

SameWalk(q, r) ==
    /\ q.root = r.root /\ q.existing = r.existing /\ q.dirs = r.dirs
    /\ q.todo = r.todo /\ q.found = r.found /\ q.missed = r.missed

Carries(q, r) == SameWalk(q, r) /\ q.at = r.at /\ q.size = r.size
SameFile(q, r) ==
    /\ q.pc = r.pc /\ q.root = r.root /\ q.at = r.at /\ q.size = r.size
    /\ q.info = r.info /\ q.author = r.author /\ q.book = r.book

OthersStay(s) == \A t \in Scan : t # s => scan'[t] = scan[t]

FileStep(s) ==
    \/ Compare(s) \/ UpdateFile(s) \/ Match(s) \/ Discover(s)
    \/ CreateAuthor(s) \/ FindBook(s) \/ CreateBook(s) \/ AddFile(s)

LEMMA BecomeSet ==
    ASSUME Types, NEW s \in Scan, NEW r, Become(s, r)
    PROVE  scan'[s] = r /\ OthersStay(s)
  BY DEF Types, Jobs, Become, OthersStay

\* What a scan does with one file leaves its walk as it is.
LEMMA FileStepWalk ==
    ASSUME Types, NEW s \in Scan, FileStep(s)
    PROVE  /\ SameWalk(scan'[s], scan[s]) /\ OthersStay(s)
           /\ UNCHANGED <<root, disk, deleting, bounds, history>>
           /\ scan[s].pc \in AtFile /\ scan'[s].pc \in AtFile \cup {"walk"}
           /\ scan'[s].pc \in AtFile => scan'[s].at = scan[s].at /\ scan'[s].size = scan[s].size
<1> DEFINE r == scan[s]
<1>1. JobOk(r)
  BY TheJob
<1>2. SameWalk(BackToWalk(r), r) /\ BackToWalk(r).pc = "walk" /\ "walk" \notin AtFile
  BY <1>1, BackToWalkJob DEF SameWalk, AtFile
<1>3. CASE Compare(s)
  <2>1. Become(s, [r EXCEPT !.pc = "update"]) \/ Become(s, BackToWalk(r))
    BY <1>3 DEF Compare, Reads
  <2>2. Carries([r EXCEPT !.pc = "update"], r) /\ [r EXCEPT !.pc = "update"].pc = "update"
    BY <1>1 DEF JobOk, Job, SameWalk, Carries
  <2> QED BY <1>2, <1>3, <2>1, <2>2, BecomeSet DEF Compare, Reads, AtFile, tables, Carries
<1>4. CASE UpdateFile(s)
  BY <1>2, <1>4, BecomeSet DEF UpdateFile, AtFile
<1>5. CASE Match(s)
  <2>1. \/ \E b \in book : Become(s, [r EXCEPT !.pc = "insert", !.book = b.id])
        \/ Become(s, [r EXCEPT !.pc = "discover"])
    BY <1>5 DEF Match, Reads, Matches, BooksIn
  <2>2. \A b \in book : LET q == [r EXCEPT !.pc = "insert", !.book = b.id] IN
                        Carries(q, r) /\ q.pc = "insert"
    BY <1>1 DEF JobOk, Job, SameWalk, Carries
  <2>3. Carries([r EXCEPT !.pc = "discover"], r) /\ [r EXCEPT !.pc = "discover"].pc = "discover"
    BY <1>1 DEF JobOk, Job, SameWalk, Carries
  <2>4. Carries(scan'[s], r) /\ OthersStay(s) /\ scan'[s].pc \in {"insert", "discover"}
    BY <2>1, <2>2, <2>3, BecomeSet
  <2> QED BY <1>5, <2>4 DEF Match, Reads, AtFile, tables, Carries
<1>6. CASE Discover(s)
  <2> DEFINE info == Discovered(r.root, r.at)
             new == [r EXCEPT !.pc = "newAuthor", !.info = info]
             had(a) == [r EXCEPT !.pc = "title", !.info = info, !.author = a.id]
  <2>1. (\E a \in author : Become(s, had(a))) \/ Become(s, new)
    BY <1>6 DEF Discover, Reads, AuthorsNamed
  <2> HIDE DEF info
  <2>2. Carries(new, r) /\ new.pc = "newAuthor"
    BY <1>1 DEF JobOk, Job, SameWalk, Carries
  <2>3. \A a \in author : Carries(had(a), r) /\ had(a).pc = "title"
    BY <1>1 DEF JobOk, Job, SameWalk, Carries
  <2> HIDE DEF new, had
  <2>4. Carries(scan'[s], r) /\ OthersStay(s) /\ scan'[s].pc \in {"title", "newAuthor"}
    BY <2>1, <2>2, <2>3, BecomeSet
  <2> QED BY <1>6, <2>4 DEF Discover, Reads, AtFile, tables, Carries
<1>7. CASE CreateAuthor(s)
  <2> DEFINE q == [r EXCEPT !.pc = "title", !.author = lastId.author + 1]
  <2>1. Carries(q, r) /\ q.pc = "title"
    BY <1>1 DEF JobOk, Job, SameWalk, Carries
  <2>2. Become(s, q)
    BY <1>7 DEF CreateAuthor
  <2> HIDE DEF q
  <2> QED BY <1>7, <2>1, <2>2, BecomeSet DEF CreateAuthor, AtFile, Carries
<1>8. CASE FindBook(s)
  <2> DEFINE new == [r EXCEPT !.pc = "newBook"]
             had(b) == [r EXCEPT !.pc = "insert", !.book = b.id, !.author = 0, !.info = NoInfo]
  <2>1. (\E b \in book : Become(s, had(b))) \/ Become(s, new)
    BY <1>8 DEF FindBook, Reads, BooksTitled
  <2>2. Carries(new, r) /\ new.pc = "newBook"
    BY <1>1 DEF JobOk, Job, SameWalk, Carries
  <2>3. \A b \in book : Carries(had(b), r) /\ had(b).pc = "insert"
    BY <1>1 DEF JobOk, Job, SameWalk, Carries
  <2> HIDE DEF new, had
  <2>4. Carries(scan'[s], r) /\ OthersStay(s) /\ scan'[s].pc \in {"insert", "newBook"}
    BY <2>1, <2>2, <2>3, BecomeSet
  <2> QED BY <1>8, <2>4 DEF FindBook, Reads, AtFile, tables, Carries
<1>9. CASE CreateBook(s)
  <2> DEFINE q == [r EXCEPT !.pc = "insert", !.book = lastId.book + 1, !.author = 0,
                            !.info = NoInfo]
  <2>1. Carries(q, r) /\ q.pc = "insert"
    BY <1>1 DEF JobOk, Job, SameWalk, Carries
  <2>2. Become(s, q) \/ Become(s, BackToWalk(r))
    BY <1>9 DEF CreateBook
  <2> HIDE DEF q
  <2> QED BY <1>2, <1>9, <2>1, <2>2, BecomeSet DEF CreateBook, AtFile, Carries
<1>10. CASE AddFile(s)
  BY <1>2, <1>10, BecomeSet DEF AddFile, AtFile
<1> QED BY <1>3, <1>4, <1>5, <1>6, <1>7, <1>8, <1>9, <1>10 DEF FileStep

LEMMA SnapshotWalk ==
    ASSUME Types, NEW s \in Scan, Snapshot(s)
    PROVE  LET q   == scan'[s]
               old == {p \in Paths : Like(scan[s].root, Full(p))} IN
           /\ OthersStay(s) /\ UNCHANGED <<tables, disk, deleting, bounds, history>>
           /\ scan[s].pc = "snapshot" /\ q.pc = "walk" /\ q.root = scan[s].root
           /\ q.existing = old
           /\ q.dirs = {p.dir : p \in {o \in Place : Walkable(scan[s].root, o)}}
           /\ q.missed = {p \in old : ~OnDisk(p)}
           /\ q.todo = scan[s].todo /\ q.found = scan[s].found
<1> DEFINE old == {p \in Paths : Like(scan[s].root, Full(p))}
           ds  == {p.dir : p \in {q \in Place : Walkable(scan[s].root, q)}}
           ms  == {p \in old : ~OnDisk(p)}
           r   == [scan[s] EXCEPT !.pc = "walk", !.existing = old, !.dirs = ds, !.missed = ms]
<1>1. Become(s, r) /\ UNCHANGED <<tables, disk, deleting, bounds, history>>
      /\ scan[s].pc = "snapshot"
  BY DEF Snapshot, Reads
<1> HIDE DEF ds, ms, old
<1>2. /\ r.pc = "walk" /\ r.root = scan[s].root /\ r.existing = old /\ r.dirs = ds
      /\ r.missed = ms /\ r.todo = scan[s].todo /\ r.found = scan[s].found
  BY TheJob DEF JobOk, Job
<1> HIDE DEF r
<1>3. scan'[s] = r /\ OthersStay(s)
  BY <1>1, BecomeSet
<1> QED BY <1>1, <1>2, <1>3 DEF old, ds, ms

LEMMA ReadDirWalk ==
    ASSUME Types, NEW s \in Scan, NEW dir \in scan[s].dirs, ReadDir(s, dir)
    PROVE  LET q == scan'[s] IN
           /\ OthersStay(s) /\ UNCHANGED <<tables, disk, deleting, bounds, history>>
           /\ scan[s].pc = "walk" /\ SameFile(q, scan[s]) /\ q.existing = scan[s].existing
           /\ q.found = scan[s].found /\ q.missed = scan[s].missed
           /\ q.dirs = scan[s].dirs \ {dir}
           /\ q.todo = scan[s].todo \cup {p \in Place : p.dir = dir /\ OnDisk(p)}
<1> DEFINE r == [scan[s] EXCEPT !.dirs = @ \ {dir},
                     !.todo = @ \cup {p \in Place : p.dir = dir /\ OnDisk(p)}]
<1>1. Become(s, r) /\ UNCHANGED <<tables, disk, deleting, bounds, history>>
      /\ scan[s].pc = "walk"
  BY DEF ReadDir, Reads
<1>2. /\ SameFile(r, scan[s]) /\ r.existing = scan[s].existing
      /\ r.found = scan[s].found /\ r.missed = scan[s].missed
      /\ r.dirs = scan[s].dirs \ {dir}
      /\ r.todo = scan[s].todo \cup {p \in Place : p.dir = dir /\ OnDisk(p)}
  BY TheJob DEF JobOk, Job, SameFile
<1> HIDE DEF r
<1>3. scan'[s] = r /\ OthersStay(s)
  BY <1>1, BecomeSet
<1> QED BY <1>1, <1>2, <1>3

\* A directory that cannot be read takes what is below it out of the walk.
LEMMA ReadDirFailsWalk ==
    ASSUME Types, NEW s \in Scan, NEW dir \in scan[s].dirs, ReadDirFails(s, dir)
    PROVE  LET q == scan'[s]
               r == scan[s] IN
           /\ OthersStay(s) /\ UNCHANGED <<tables, disk, deleting>>
           /\ r.pc = "walk" /\ SameFile(q, r) /\ q.existing = r.existing /\ q.found = r.found
           /\ q.missed = r.missed \cup {p \in r.existing : Under(dir, p)}
           /\ q.dirs \subseteq r.dirs /\ \A d \in r.dirs \ q.dirs : IsPrefix(dir, d)
           /\ r.todo \subseteq q.todo /\ \A p \in q.todo : p \in r.todo \/ p.dir = dir
<1>1. UNCHANGED <<tables, disk, deleting>>
  BY DEF ReadDirFails
<1> QED BY <1>1, ReadDirFailsJob, BecomeSet DEF SameFile

LEMMA VisitWalk ==
    ASSUME Types, NEW s \in Scan, NEW p \in scan[s].todo, Visit(s, p)
    PROVE  LET q == scan'[s]
               r == scan[s] IN
           /\ OthersStay(s) /\ UNCHANGED <<tables, disk, deleting, bounds, history>>
           /\ r.pc = "walk" /\ p \in Place
           /\ q.root = r.root /\ q.existing = r.existing /\ q.dirs = r.dirs
           /\ q.todo = r.todo \ {p} /\ q.found = r.found \cup {p} /\ q.missed = r.missed
           /\ \/ OnDisk(p) /\ q.at = p /\ q.size = Size[disk[p]]
                 /\ q.pc = IF p \in r.existing THEN "compare" ELSE "match"
              \/ ~OnDisk(p) /\ q.pc = "walk" /\ q.at = r.at
<1> DEFINE r  == scan[s]
           n  == [r EXCEPT !.todo = @ \ {p}, !.found = @ \cup {p}]
           pc == IF p \in r.existing THEN "compare" ELSE "match"
           q  == [n EXCEPT !.at = p, !.size = Size[disk[p]], !.pc = pc]
<1>1. Become(s, IF OnDisk(p) THEN q ELSE n)
      /\ UNCHANGED <<tables, disk, deleting, bounds, history>> /\ r.pc = "walk"
  BY DEF Visit, Reads
<1>2. p \in Place /\ JobOk(r)
  BY TheJob DEF JobOk, Job
<1> HIDE DEF pc
<1>3. \A x \in {q, n} :
         /\ x.root = r.root /\ x.existing = r.existing /\ x.dirs = r.dirs
         /\ x.todo = r.todo \ {p} /\ x.found = r.found \cup {p} /\ x.missed = r.missed
  BY <1>2 DEF JobOk, Job
<1>4. q.at = p /\ q.size = Size[disk[p]] /\ q.pc = pc /\ n.pc = r.pc /\ n.at = r.at
  BY <1>2 DEF JobOk, Job
<1> HIDE DEF q, n
<1>5. scan'[s] = (IF OnDisk(p) THEN q ELSE n) /\ OthersStay(s)
  BY <1>1, BecomeSet
<1>6. CASE OnDisk(p)
  BY <1>1, <1>2, <1>3, <1>4, <1>5, <1>6 DEF pc
<1>7. CASE ~OnDisk(p)
  BY <1>1, <1>2, <1>3, <1>4, <1>5, <1>7
<1> QED BY <1>6, <1>7

LEMMA RemoveRowWalk ==
    ASSUME Types, NEW s \in Scan, NEW p \in scan[s].existing, RemoveRow(s, p)
    PROVE  LET q == scan'[s]
               r == scan[s] IN
           /\ OthersStay(s)
           /\ UNCHANGED <<root, author, book, lastId, disk, deleting, bounds, history>>
           /\ file' = file \ Row(p)
           /\ r.pc = "walk" /\ r.dirs = {} /\ r.todo = {} /\ p \notin r.found
           /\ SameFile(q, r) /\ q.dirs = r.dirs /\ q.todo = r.todo /\ q.found = r.found
           /\ q.missed = r.missed /\ q.existing = r.existing \ {p}
<1> DEFINE q == [scan[s] EXCEPT !.existing = @ \ {p}]
<1>1. Become(s, q) /\ UNCHANGED <<root, author, book, lastId, disk, deleting, bounds, history>>
      /\ file' = file \ Row(p) /\ scan[s].pc = "walk" /\ scan[s].dirs = {} /\ scan[s].todo = {}
      /\ p \notin scan[s].found
  BY DEF RemoveRow, Gone
<1>2. /\ SameFile(q, scan[s]) /\ q.dirs = scan[s].dirs /\ q.todo = scan[s].todo
      /\ q.found = scan[s].found /\ q.missed = scan[s].missed
      /\ q.existing = scan[s].existing \ {p}
  BY TheJob DEF JobOk, Job, SameFile
<1> HIDE DEF q
<1>3. scan'[s] = q /\ OthersStay(s)
  BY <1>1, BecomeSet
<1> QED BY <1>1, <1>2, <1>3

LEMMA ScanBeginWalk ==
    ASSUME Types, NEW s \in Scan, NEW dir, ScanBegin(s, dir)
    PROVE  LET q == scan'[s] IN
           /\ OthersStay(s) /\ UNCHANGED <<tables, disk, deleting, changes, mirrored, stale>>
           /\ scan[s].pc = "idle"
           /\ q = [Idle EXCEPT !.pc = "snapshot", !.root = dir]
           /\ q.pc = "snapshot" /\ q.root = dir /\ q.existing = {} /\ q.dirs = {}
           /\ q.todo = {} /\ q.found = {}
<1> DEFINE q == [Idle EXCEPT !.pc = "snapshot", !.root = dir]
<1>1. Become(s, q) /\ UNCHANGED <<tables, disk, deleting, changes, mirrored, stale>>
      /\ scan[s].pc = "idle"
  BY DEF ScanBegin
<1>2. q.pc = "snapshot" /\ q.root = dir /\ q.existing = {} /\ q.dirs = {} /\ q.todo = {}
      /\ q.found = {}
  BY DEF Idle
<1> QED BY <1>1, <1>2, BecomeSet

LEMMA ScanStopsWalk ==
    ASSUME Types, NEW s \in Scan, ScanEnd(s) \/ ScanAborted(s)
    PROVE  /\ OthersStay(s) /\ scan'[s] = Idle /\ UNCHANGED <<tables, disk, deleting>>
  BY BecomeSet DEF ScanEnd, ScanAborted

LEMMA DiskWalk ==
    ASSUME Types, NEW d, DiskBecomes(d), NEW s \in Scan
    PROVE  LET q == scan'[s]
               r == scan[s] IN
           /\ SameFile(q, r) /\ q.existing = r.existing /\ q.dirs = r.dirs
           /\ q.todo = r.todo /\ q.found = r.found
           /\ q.missed = r.missed \cup {p \in r.existing : d[p] = Absent}
<1> DEFINE q == [scan[s] EXCEPT !.missed = @ \cup {p \in scan[s].existing : d[p] = Absent}]
<1>1. /\ SameFile(q, scan[s]) /\ q.existing = scan[s].existing /\ q.dirs = scan[s].dirs
      /\ q.todo = scan[s].todo /\ q.found = scan[s].found
      /\ q.missed = scan[s].missed \cup {p \in scan[s].existing : d[p] = Absent}
  BY TheJob DEF JobOk, Job, SameFile
<1>2. scan'[s] = q
  BY DEF DiskBecomes
<1> QED BY <1>1, <1>2

\* The prefix a scan looks for selects no row outside the folders it walks: no
\* other root folder or author whose path begins alike, no hidden folder.
Apart ==
    \A s \in Scan, p \in Paths :
        (scan[s].pc = "snapshot" /\ Like(scan[s].root, Full(p))) => Walkable(scan[s].root, p)

\* A file of the snapshot that has never been off the disk has been met, or the
\* walk has still to come to it.
WatchedBy(s) ==
    \A p \in scan[s].existing \ (scan[s].missed \cup scan[s].found) :
        OnDisk(p) /\ (p \in scan[s].todo \/ p.dir \in scan[s].dirs)
Watched == \A s \in Scan : WatchedBy(s)

LEMMA WatchedOthers ==
    ASSUME Watched, NEW s \in Scan, OthersStay(s), disk' = disk, WatchedBy(s)'
    PROVE  Watched'
  BY DEF Watched, WatchedBy, OthersStay, OnDisk

LEMMA WatchedStep ==
    ASSUME Types, Apart, Watched, NEW s \in Scan, ScanStep(s)
    PROVE  Watched'
<1>1. WatchedBy(s)
  BY DEF Watched
<1>2. ASSUME NEW dir, ScanBegin(s, dir) PROVE Watched'
  <2>1. WatchedBy(s)'
    BY <1>2, ScanBeginWalk DEF WatchedBy
  <2> QED BY <1>2, <2>1, ScanBeginWalk, WatchedOthers
<1>3. CASE Snapshot(s)
  <2> DEFINE old == {p \in Paths : Like(scan[s].root, Full(p))}
  <2>1. /\ scan'[s].existing = old /\ scan'[s].missed = {p \in old : ~OnDisk(p)}
        /\ scan'[s].dirs = {p.dir : p \in {o \in Place : Walkable(scan[s].root, o)}}
        /\ scan[s].pc = "snapshot" /\ disk' = disk /\ OthersStay(s)
    BY <1>3, SnapshotWalk
  <2>2. ASSUME NEW p \in old PROVE p.dir \in scan'[s].dirs
    BY <2>1, <2>2, PathsAreHere DEF Apart
  <2>3. WatchedBy(s)'
    BY <2>1, <2>2 DEF WatchedBy, OnDisk
  <2> QED BY <2>1, <2>3, WatchedOthers
<1>4. ASSUME NEW dir \in scan[s].dirs, ReadDir(s, dir) PROVE Watched'
  <2>1. /\ scan'[s].existing = scan[s].existing /\ scan'[s].missed = scan[s].missed
        /\ scan'[s].found = scan[s].found
        /\ scan'[s].dirs = scan[s].dirs \ {dir}
        /\ scan'[s].todo = scan[s].todo \cup {p \in Place : p.dir = dir /\ OnDisk(p)}
        /\ disk' = disk /\ OthersStay(s) /\ scan[s].existing \subseteq Place
    BY <1>4, ReadDirWalk, TheJob DEF JobOk, Job
  <2>2. WatchedBy(s)'
    BY <1>1, <2>1 DEF WatchedBy, OnDisk
  <2> QED BY <2>1, <2>2, WatchedOthers
<1>5. ASSUME NEW p \in scan[s].todo, Visit(s, p) PROVE Watched'
  <2>1. WatchedBy(s)'
    BY <1>1, <1>5, VisitWalk DEF WatchedBy, OnDisk
  <2> QED BY <1>5, <2>1, VisitWalk, WatchedOthers
<1>6. CASE FileStep(s)
  <2>1. WatchedBy(s)'
    BY <1>1, <1>6, FileStepWalk DEF WatchedBy, OnDisk, SameWalk
  <2> QED BY <1>6, <2>1, FileStepWalk, WatchedOthers
<1>7. ASSUME NEW p \in scan[s].existing, RemoveRow(s, p) PROVE Watched'
  <2>1. /\ scan'[s].existing = scan[s].existing \ {p} /\ scan'[s].missed = scan[s].missed
        /\ scan'[s].found = scan[s].found /\ scan'[s].dirs = scan[s].dirs
        /\ scan'[s].todo = scan[s].todo /\ disk' = disk /\ OthersStay(s)
    BY <1>7, RemoveRowWalk, TheJob DEF JobOk, Job
  <2>2. WatchedBy(s)'
    BY <1>1, <2>1 DEF WatchedBy, OnDisk
  <2> QED BY <2>1, <2>2, WatchedOthers
<1>8. CASE ScanEnd(s) \/ ScanAborted(s)
  <2>1. WatchedBy(s)'
    BY <1>8, ScanStopsWalk DEF WatchedBy, Idle
  <2> QED BY <1>8, <2>1, ScanStopsWalk, WatchedOthers
<1>9. ASSUME NEW dir \in scan[s].dirs, ReadDirFails(s, dir) PROVE Watched'
  <2>1. WatchedBy(s)'
    BY <1>1, <1>9, ReadDirFailsWalk DEF WatchedBy, OnDisk, Under
  <2> QED BY <1>9, <2>1, ReadDirFailsWalk, WatchedOthers
<1> QED BY <1>2, <1>3, <1>4, <1>5, <1>6, <1>7, <1>8, <1>9 DEF ScanStep, FileStep

LEMMA WatchedDisk ==
    ASSUME Types, Watched, NEW d, DiskBecomes(d)
    PROVE  Watched'
<1> SUFFICES ASSUME NEW s \in Scan PROVE WatchedBy(s)'
  BY DEF Watched
<1>1. /\ scan'[s].missed = scan[s].missed \cup {p \in scan[s].existing : d[p] = Absent}
      /\ scan'[s].existing = scan[s].existing /\ scan'[s].found = scan[s].found
      /\ scan'[s].dirs = scan[s].dirs /\ scan'[s].todo = scan[s].todo
  BY DiskWalk, TheJob DEF JobOk, Job
<1>2. disk' = d
  BY DEF DiskBecomes
<1> QED BY <1>1, <1>2 DEF Watched, WatchedBy, OnDisk

LEMMA WatchedNext ==
    ASSUME Types, Apart, Watched, [Next]_scanVars
    PROVE  Watched'
<1>1. ASSUME NEW s \in Scan, ScanStep(s) PROVE Watched'
  BY <1>1, WatchedStep
<1>2. CASE User
  <2>1. (\E d : DiskBecomes(d)) \/ UNCHANGED <<scan, disk>>
    BY <1>2 DEF User, FileChanges, DeleteAuthorFiles, DeleteAuthor
  <2> QED BY <2>1, WatchedDisk DEF Watched, WatchedBy, OnDisk
<1>3. CASE UNCHANGED scanVars
  BY <1>3 DEF scanVars, Watched, WatchedBy, OnDisk
<1> QED BY <1>1, <1>2, <1>3 DEF Next

\* Only the deletion of an author, which takes the author's row with it, and a
\* scan remove rows of files.
LEMMA RowsRemoved ==
    ASSUME Types, Watched, [Next]_scanVars, author' = author, NEW p \in Paths \ Paths'
    PROVE  \E s \in Scan : p \in scan[s].missed
<1>1. file' # file
  BY DEF Paths
<1>2. ASSUME NEW s \in Scan, NEW x \in scan[s].existing, RemoveRow(s, x)
      PROVE  p \in scan[s].missed
  <2>1. /\ file' = file \ Row(x) /\ scan[s].dirs = {} /\ scan[s].todo = {} /\ x \notin scan[s].found
    BY <1>2, RemoveRowWalk
  <2>2. p = x
    BY <2>1 DEF Paths, Row
  <2> QED BY <1>2, <2>1, <2>2 DEF Watched, WatchedBy
<1>3. ASSUME NEW s \in Scan, UpdateFile(s) PROVE FALSE
  BY <1>3, UpdateFileTypes
<1>4. ASSUME NEW s \in Scan, AddFile(s) PROVE FALSE
  BY <1>4 DEF AddFile, Paths
<1>5. ASSUME NEW id, DeleteAuthor(id) PROVE FALSE
  <2>1. \A b \in book : b.author # id
    BY <1>5 DEF DeleteAuthor, DeleteAuthorRow, Types, Tables, BookRows
  <2>2. book' = book
    BY <1>5, <2>1 DEF DeleteAuthor, DeleteAuthorRow
  <2>3. file' = file
    BY <1>5, <2>2 DEF DeleteAuthor, DeleteAuthorRow, Types, Tables, FileRows
  <2> QED BY <1>1, <2>3
<1>6. \/ UNCHANGED file
      \/ \E s \in Scan : \/ UpdateFile(s) \/ AddFile(s)
                         \/ \E x \in scan[s].existing : RemoveRow(s, x)
      \/ \E id : DeleteAuthor(id)
  BY DEF Next, ScanStep, User, scanVars, tables, ScanBegin, Snapshot, ReadDir, ReadDirFails, Visit, Compare,
         Match, Discover, CreateAuthor, FindBook, CreateBook, ScanEnd, ScanAborted, Reads,
         FileChanges, DeleteAuthorFiles
<1> QED BY <1>1, <1>2, <1>3, <1>4, <1>5, <1>6

\* removeFile: a file that was on the disk all the time keeps its row, whatever
\* else goes on, where no prefix selects another folder's files.
THEOREM RowsKept == Spec /\ []Apart => OnlyMissedFilesRemoved
<1> DEFINE Keeps == author' = author => \A p \in Paths \ Paths' : \E s \in Scan : p \in scan[s].missed
<1>1. Init => Watched
  BY DEF Init, Watched, WatchedBy, Idle
<1>2. Types /\ Apart /\ Watched /\ [Next]_scanVars => Watched'
  BY WatchedNext
<1>3. Types /\ Watched /\ [Next]_scanVars => [Keeps]_scanVars
  BY RowsRemoved
<1> QED BY <1>1, <1>2, <1>3, TypesAlways, PTL DEF Spec, OnlyMissedFilesRemoved

-----------------------------------------------------------------------------
(* Scans of the root folders only, none of which reaches into another. *)

RootsApart ==
    \A i, j \in DOMAIN Roots : \A p \in Place :
        (Like(Roots[i], Full(p)) /\ Walkable(Roots[j], p)) => Walkable(Roots[i], p)

Folders == {Roots[i] : i \in DOMAIN Roots}

\* Scans keep to what the walks of the roots reach, all in D, and rows to P.
ReachedBy(D, s) ==
    /\ scan[s].pc # "idle" => scan[s].root \in D
    /\ \A p \in Place : p.dir \in scan[s].dirs => Walkable(scan[s].root, p)
    /\ \A p \in scan[s].todo \cup scan[s].found : Walkable(scan[s].root, p)
    /\ scan[s].pc \in AtFile => scan[s].at \in scan[s].found
ReachedIn(D, P) ==
    /\ \A r \in root : r.path \in D
    /\ \A p \in Paths : p \in P
    /\ \A s \in Scan : ReachedBy(D, s)

Walks(D) == {p \in Place : \E d \in D : Walkable(d, p)}
Reached  == ReachedIn(Folders, Walks(Folders))

LEMMA ReachedOthers ==
    ASSUME NEW D, NEW P, ReachedIn(D, P), NEW s \in Scan, OthersStay(s), UNCHANGED root,
           ReachedBy(D, s)', \A p \in Paths' : p \in P
    PROVE  ReachedIn(D, P)'
  BY DEF ReachedIn, ReachedBy, OthersStay

LEMMA NewRows ==
    ASSUME Types, NEW s \in Scan, FileStep(s)
    PROVE  \A p \in Paths' : p \in Paths \/ p = scan[s].at
<1>1. \/ UNCHANGED file \/ UpdateFile(s) \/ AddFile(s)
  BY DEF FileStep, Compare, Match, Discover, CreateAuthor, FindBook, CreateBook, Reads, tables
<1>2. CASE UpdateFile(s)
  BY <1>2, UpdateFileTypes
<1>3. CASE AddFile(s)
  BY <1>3 DEF AddFile, Paths
<1> QED BY <1>1, <1>2, <1>3 DEF Paths

LEMMA ReachedStep ==
    ASSUME ~AuthorScans, Types, NEW D, NEW P, Walks(D) \subseteq P, ReachedIn(D, P),
           NEW s \in Scan, ScanStep(s)
    PROVE  ReachedIn(D, P)'
<1>1. ReachedBy(D, s)
  BY DEF ReachedIn
<1>2. (\A p \in Paths' : p \in Paths) => (\A p \in Paths' : p \in P)
  BY DEF ReachedIn
<1>3. ASSUME NEW dir, ScanBegin(s, dir) PROVE ReachedIn(D, P)'
  <2>1. dir \in D
    BY <1>3 DEF ScanBegin, ReachedIn
  <2>2. ReachedBy(D, s)'
    BY <1>3, <2>1, ScanBeginWalk DEF ReachedBy, AtFile
  <2> QED BY <1>2, <1>3, <2>2, ScanBeginWalk, ReachedOthers DEF tables, Paths
<1>4. CASE Snapshot(s)
  <2>1. /\ scan'[s].dirs = {p.dir : p \in {o \in Place : Walkable(scan[s].root, o)}}
        /\ scan'[s].root = scan[s].root /\ scan'[s].pc = "walk" /\ scan[s].pc = "snapshot"
        /\ scan'[s].todo = scan[s].todo /\ scan'[s].found = scan[s].found
        /\ OthersStay(s) /\ UNCHANGED tables
    BY <1>4, SnapshotWalk
  <2>2. ASSUME NEW p \in Place, p.dir \in scan'[s].dirs PROVE Walkable(scan'[s].root, p)
    BY <2>1, <2>2 DEF Walkable, Under
  <2>3. ReachedBy(D, s)'
    BY <1>1, <2>1, <2>2 DEF ReachedBy, AtFile
  <2> QED BY <1>2, <2>1, <2>3, ReachedOthers DEF tables, Paths
<1>5. ASSUME NEW dir \in scan[s].dirs, ReadDir(s, dir) PROVE ReachedIn(D, P)'
  <2>1. /\ scan[s].pc = "walk" /\ scan'[s].pc = "walk" /\ scan'[s].root = scan[s].root
        /\ scan'[s].found = scan[s].found
        /\ scan'[s].dirs = scan[s].dirs \ {dir}
        /\ scan'[s].todo = scan[s].todo \cup {p \in Place : p.dir = dir /\ OnDisk(p)}
        /\ OthersStay(s) /\ UNCHANGED tables
    BY <1>5, ReadDirWalk DEF SameFile
  <2>2. ReachedBy(D, s)'
    BY <1>1, <2>1 DEF ReachedBy, AtFile
  <2> QED BY <1>2, <2>1, <2>2, ReachedOthers DEF tables, Paths
<1>6. ASSUME NEW p \in scan[s].todo, Visit(s, p) PROVE ReachedIn(D, P)'
  <2>1. /\ scan[s].pc = "walk" /\ scan'[s].root = scan[s].root
        /\ scan'[s].found = scan[s].found \cup {p} /\ scan'[s].todo = scan[s].todo \ {p}
        /\ scan'[s].dirs = scan[s].dirs
        /\ scan'[s].at = p \/ scan'[s].pc = "walk"
        /\ OthersStay(s) /\ UNCHANGED tables
    BY <1>6, VisitWalk
  <2>2. ReachedBy(D, s)'
    BY <1>1, <2>1 DEF ReachedBy, AtFile
  <2> QED BY <1>2, <2>1, <2>2, ReachedOthers DEF tables, Paths
<1>7. CASE FileStep(s)
  <2>1. /\ scan[s].pc \in AtFile /\ scan'[s].pc \in AtFile \cup {"walk"}
        /\ scan'[s].pc \in AtFile => scan'[s].at = scan[s].at
        /\ SameWalk(scan'[s], scan[s]) /\ OthersStay(s) /\ UNCHANGED root
    BY <1>7, FileStepWalk
  <2>2. ReachedBy(D, s)'
    BY <1>1, <2>1 DEF ReachedBy, AtFile, SameWalk
  <2>3. \A p \in Paths' : p \in Paths \/ p = scan[s].at
    BY <1>7, NewRows
  <2>4. scan[s].at \in Walks(D)
    BY <1>1, <2>1, TheJob DEF ReachedBy, JobOk, AtFile, Walks
  <2>5. \A p \in Paths' : p \in P
    BY <2>3, <2>4 DEF ReachedIn
  <2> QED BY <2>1, <2>2, <2>5, ReachedOthers
<1>8. ASSUME NEW p \in scan[s].existing, RemoveRow(s, p) PROVE ReachedIn(D, P)'
  <2>1. /\ file' = file \ Row(p) /\ OthersStay(s) /\ UNCHANGED root
        /\ SameFile(scan'[s], scan[s]) /\ scan'[s].dirs = scan[s].dirs
        /\ scan'[s].todo = scan[s].todo /\ scan'[s].found = scan[s].found
    BY <1>8, RemoveRowWalk
  <2>2. ReachedBy(D, s)'
    BY <1>1, <2>1 DEF ReachedBy, AtFile, SameFile
  <2>3. \A q \in Paths' : q \in Paths
    BY <2>1 DEF Paths
  <2> QED BY <1>2, <2>1, <2>2, <2>3, ReachedOthers
<1>9. CASE ScanEnd(s) \/ ScanAborted(s)
  <2>1. ReachedBy(D, s)'
    BY <1>9, ScanStopsWalk DEF ReachedBy, Idle, AtFile
  <2> QED BY <1>2, <1>9, <2>1, ScanStopsWalk, ReachedOthers DEF tables, Paths
<1>10. ASSUME NEW dir \in scan[s].dirs, ReadDirFails(s, dir) PROVE ReachedIn(D, P)'
  <2>1. /\ scan[s].pc = "walk" /\ scan'[s].pc = "walk" /\ scan'[s].root = scan[s].root
        /\ scan'[s].found = scan[s].found /\ scan'[s].dirs \subseteq scan[s].dirs
        /\ \A p \in scan'[s].todo : p \in scan[s].todo \/ p.dir = dir
        /\ scan'[s].todo \subseteq Place /\ OthersStay(s) /\ UNCHANGED tables
    BY <1>10, ReadDirFailsWalk, ReadDirFailsTypes DEF SameFile, Types, Jobs, Job
  <2>2. ReachedBy(D, s)'
    BY <1>1, <2>1 DEF ReachedBy, AtFile
  <2> QED BY <1>2, <2>1, <2>2, ReachedOthers DEF tables, Paths
<1> QED BY <1>3, <1>4, <1>5, <1>6, <1>7, <1>8, <1>9, <1>10 DEF ScanStep, FileStep

LEMMA ReachedDisk ==
    ASSUME Types, NEW D, NEW P, ReachedIn(D, P), NEW d, DiskBecomes(d), UNCHANGED tables
    PROVE  ReachedIn(D, P)'
<1>1. ASSUME NEW s \in Scan PROVE ReachedBy(D, s)'
  <2>1. /\ SameFile(scan'[s], scan[s]) /\ scan'[s].dirs = scan[s].dirs
        /\ scan'[s].todo = scan[s].todo /\ scan'[s].found = scan[s].found
    BY DiskWalk
  <2> QED BY <2>1 DEF SameFile, ReachedIn, ReachedBy
<1> QED BY <1>1 DEF ReachedIn, tables, Paths

LEMMA ReachedUser ==
    ASSUME Types, NEW D, NEW P, ReachedIn(D, P), User
    PROVE  ReachedIn(D, P)'
<1>1. ASSUME NEW id, DeleteAuthor(id) PROVE ReachedIn(D, P)'
  <2>1. \A p \in Paths' : p \in Paths
    BY <1>1 DEF DeleteAuthor, DeleteAuthorRow, Paths
  <2> QED BY <1>1, <2>1 DEF DeleteAuthor, ReachedIn, ReachedBy
<1>2. (\E d : DiskBecomes(d) /\ UNCHANGED tables) \/ (\E id : DeleteAuthor(id))
  BY DEF User, FileChanges, DeleteAuthorFiles
<1> QED BY <1>1, <1>2, ReachedDisk

LEMMA ReachedNext ==
    ASSUME ~AuthorScans, Types, Reached, [Next]_scanVars
    PROVE  Reached'
<1>1. ASSUME NEW s \in Scan, ScanStep(s) PROVE Reached'
  BY <1>1, ReachedStep DEF Reached
<1>2. CASE User
  BY <1>2, ReachedUser DEF Reached
<1>3. CASE UNCHANGED scanVars
  BY <1>3 DEF scanVars, tables, Reached, ReachedIn, ReachedBy, Paths
<1> QED BY <1>1, <1>2, <1>3 DEF Next

LEMMA ReachedInit == Init => Reached
  BY DEF Init, Reached, ReachedIn, ReachedBy, Idle, Paths, AtFile, Folders

LEMMA ApartHolds ==
    ASSUME RootsApart, Types, Reached
    PROVE  Apart
  BY PathsAreHere DEF RootsApart, Reached, ReachedIn, ReachedBy, Apart, Folders, Walks

\* The same, where only root folders are scanned that do not reach into each other.
THEOREM RootsKeepTheirRows ==
    ASSUME ~AuthorScans, RootsApart
    PROVE  Spec => OnlyMissedFilesRemoved
<1>1. Spec => []Reached
  BY ReachedInit, ReachedNext, TypesAlways, PTL DEF Spec
<1>2. Types /\ Reached => Apart
  BY ApartHolds
<1> QED BY <1>1, <1>2, TypesAlways, RowsKept, PTL

-----------------------------------------------------------------------------
(* Undisturbed scans agree with each other, and leave rows equal to files. *)

Settled(p) == p \in Paths /\ \A f \in file : f.place = p => f.size = Size[disk[p]]
Listed(p)  == OnDisk(p) /\ \E d \in Folders : Walkable(d, p)

\* A walk meets every file below its folder, and only files.
WalkOk(s) ==
    LET r == scan[s] IN
    /\ \A p \in Place : (OnDisk(p) /\ Walkable(r.root, p)) =>
                            (p \in r.found \cup r.todo \/ p.dir \in r.dirs)
    /\ \A p \in r.found \cup r.todo : OnDisk(p)

\* A row is in the snapshot or was added since, by a scan that saw the file; no
\* scan removes the row of a file.
RowsOk(s) ==
    LET r == scan[s] IN
    /\ \A p \in Paths : (Like(r.root, Full(p)) /\ p \notin r.existing) => (OnDisk(p) /\ Settled(p))
    /\ \A p \in r.existing : /\ Like(r.root, Full(p))
                             /\ (OnDisk(p) /\ Walkable(r.root, p)) => p \in Paths

\* The files met have rows that say their sizes, but for the one in hand.
FoundOk(s) ==
    LET r == scan[s] IN \A p \in r.found : Settled(p) \/ (r.pc \in AtFile /\ p = r.at)

AtOk(s) ==
    LET r == scan[s] IN
    r.pc \in AtFile =>
        /\ r.size = Size[disk[r.at]]
        /\ r.at \in r.existing <=> r.pc \in {"compare", "update"}
        /\ r.pc = "insert" => \E b \in book : b.id = r.book
        /\ r.pc \in {"title", "newBook"} => \E a \in author : a.id = r.author

FaithfulBy(s) ==
    /\ scan[s].pc = "snapshot" => scan[s].todo = {} /\ scan[s].found = {}
    /\ scan[s].pc \notin {"idle", "snapshot"} => WalkOk(s) /\ RowsOk(s) /\ FoundOk(s) /\ AtOk(s)

Faithful ==
    stale = {} => /\ \A s \in Scan : FaithfulBy(s)
                  /\ \A d \in mirrored : d \in Folders /\ Mirror(d)

LEMMA UnderElements ==
    ASSUME NEW d \in Path, NEW p \in Place
    PROVE  Under(d, p) <=> (Len(d) <= Len(p.dir) /\ \A i \in 1..Len(d) : d[i] = p.dir[i])
<1>1. p.dir \in Path
  BY PlaceFields
<1>2. SubSeq(d, 1, Len(d)) = d /\ Len(d) \in Nat /\ Len(p.dir) \in Nat
  BY SubSeqFull DEF Path
<1>3. ASSUME Len(d) <= Len(p.dir)
      PROVE  LET e == SubSeq(p.dir, 1, Len(d)) IN
             e \in Path /\ Len(e) = Len(d) /\ \A i \in 1..Len(d) : e[i] = p.dir[i]
  BY <1>1, <1>2, <1>3 DEF Path
<1> QED BY <1>1, <1>2, <1>3, SeqEqual DEF Under, IsPrefix, Path

LEMMA LikeBelow ==
    ASSUME NEW d \in Path, d # <<>>, NEW p \in Place, Under(d, p)
    PROVE  Like(d, Full(p))
<1> DEFINE n == Len(d)
           f == Full(p)
<1>1. n \in Nat \ {0}
  BY EmptySeq DEF Path
<1>2. Len(d) <= Len(p.dir) /\ \A i \in 1..Len(d) : d[i] = p.dir[i]
  BY UnderElements
<1>3. f \in Path /\ p.dir \in Path /\ Len(f) = Len(p.dir) + 1 /\ \A i \in 1..Len(p.dir) : f[i] = p.dir[i]
  BY PlaceFields DEF Full, Path
<1>4. Len(f) >= n /\ \A i \in 1..n : f[i] = d[i]
  BY <1>1, <1>2, <1>3 DEF Path
<1> HIDE DEF f
<1> QED BY <1>1, <1>4 DEF Like, f

LEMMA LikeUnder ==
    ASSUME NEW d \in Folders, NEW p \in Place, Walkable(d, p)
    PROVE  Like(d, Full(p))
<1>1. d \in Path /\ d # <<>>
  BY ConstantsOK DEF Folders, Path
<1> QED BY <1>1, LikeBelow DEF Walkable

\* What a scan does to the tables leaves the rows of files as they are, adds
\* rows that are right and takes none that another scan relies on.
Benign ==
    /\ disk' = disk
    /\ \A p \in Paths' \ Paths : Listed(p) /\ Settled(p)'
    /\ \A p \in Paths \ Paths' : ~Listed(p)
    /\ \A p \in Paths' : Settled(p) => Settled(p)'
    /\ \A b \in book : \E c \in book' : c.id = b.id
    /\ \A a \in author : \E c \in author' : c.id = a.id

LEMMA SettledStays ==
    ASSUME Benign, NEW p, Settled(p), Listed(p)
    PROVE  Settled(p)'
  BY DEF Benign, Settled

\* Benign changes and a walk that stays where it is.
LEMMA WalkStays ==
    ASSUME Types, Reached, Benign, NEW t \in Scan, SameWalk(scan'[t], scan[t]),
           scan[t].pc \notin {"idle", "snapshot"}, WalkOk(t), RowsOk(t)
    PROVE  /\ WalkOk(t)' /\ RowsOk(t)'
           /\ \A p \in scan[t].found : Settled(p) => Settled(p)'
<1> DEFINE r == scan[t]
           q == scan'[t]
<1>1. /\ q.root = r.root /\ q.existing = r.existing /\ q.dirs = r.dirs
      /\ q.todo = r.todo /\ q.found = r.found
  BY DEF SameWalk
<1> HIDE DEF q
<1>2. r.root \in Folders /\ (\A p \in r.todo \cup r.found : Walkable(r.root, p)) /\ JobOk(r)
  BY TheJob DEF Reached, ReachedIn, ReachedBy
<1>3. disk' = disk /\ \A p : OnDisk(p)' = OnDisk(p)
  BY DEF Benign, OnDisk
<1>4. WalkOk(t)'
  BY <1>1, <1>3 DEF WalkOk, q
<1>5. RowsOk(t)'
  <2>1. ASSUME NEW p \in Paths', Like(r.root, Full(p)), p \notin r.existing
        PROVE  OnDisk(p) /\ Settled(p)'
    <3>1. CASE p \in Paths
      BY <2>1, <3>1 DEF RowsOk, Benign
    <3>2. CASE p \notin Paths
      BY <2>1, <3>2 DEF Benign, Listed
    <3> QED BY <3>1, <3>2
  <2>2. ASSUME NEW p \in r.existing, OnDisk(p), Walkable(r.root, p) PROVE p \in Paths'
    BY <1>2, <2>2 DEF RowsOk, Benign, Listed
  <2>3. \A p \in r.existing : Like(r.root, Full(p))
    BY DEF RowsOk
  <2> QED BY <1>1, <1>3, <2>1, <2>2, <2>3 DEF RowsOk, q
<1>6. ASSUME NEW p \in r.found, Settled(p) PROVE Settled(p)'
  BY <1>2, <1>6, SettledStays DEF WalkOk, Listed
<1> QED BY <1>4, <1>5, <1>6

LEMMA FaithfulOther ==
    ASSUME Types, Reached, Benign, NEW t \in Scan, FaithfulBy(t), scan'[t] = scan[t]
    PROVE  FaithfulBy(t)'
<1> SUFFICES ASSUME scan[t].pc \notin {"idle", "snapshot"}
             PROVE  (WalkOk(t) /\ RowsOk(t) /\ FoundOk(t) /\ AtOk(t))'
  BY DEF FaithfulBy
<1>1. WalkOk(t) /\ RowsOk(t) /\ FoundOk(t) /\ AtOk(t)
  BY DEF FaithfulBy
<1>2. WalkOk(t)' /\ RowsOk(t)' /\ \A p \in scan[t].found : Settled(p) => Settled(p)'
  BY <1>1, WalkStays DEF SameWalk
<1>3. FoundOk(t)'
  BY <1>1, <1>2 DEF FoundOk
<1>4. AtOk(t)'
  BY <1>1 DEF AtOk, Benign
<1> QED BY <1>2, <1>3, <1>4

LEMMA MirrorSettled ==
    ASSUME NEW d
    PROVE  Mirror(d) <=> /\ {p \in Paths : Like(d, Full(p))} = {p \in Place : Walkable(d, p) /\ OnDisk(p)}
                         /\ \A p \in Place : (Walkable(d, p) /\ OnDisk(p)) => Settled(p)
  BY DEF Mirror, Settled

LEMMA MirrorStays ==
    ASSUME Types, Types', RootsApart, Benign, NEW d \in Folders, Mirror(d)
    PROVE  Mirror(d)'
<1>1. disk' = disk /\ \A p : OnDisk(p)' = OnDisk(p)
  BY DEF Benign, OnDisk
<1>2. Paths' \subseteq Place
  BY DEF Types, Tables, FileRows, Paths
<1>3. ASSUME NEW p \in Paths', Like(d, Full(p)) PROVE Walkable(d, p) /\ OnDisk(p)
  <2>1. CASE p \in Paths
    BY <1>3, <2>1, MirrorSettled
  <2>2. CASE p \notin Paths
    BY <1>2, <1>3, <2>2 DEF Benign, Listed, RootsApart, Folders
  <2> QED BY <2>1, <2>2
<1>4. ASSUME NEW p \in Place, Walkable(d, p), OnDisk(p) PROVE Settled(p)' /\ Like(d, Full(p))
  <2>1. Settled(p) /\ Like(d, Full(p))
    BY <1>4, MirrorSettled
  <2> QED BY <1>4, <2>1, SettledStays DEF Listed
<1>5. {p \in Paths' : Like(d, Full(p))} = {p \in Place : Walkable(d, p) /\ OnDisk(p)}
  BY <1>2, <1>3, <1>4 DEF Settled
<1>6. \A p \in Place : (Walkable(d, p) /\ OnDisk(p)) => Settled(p)'
  BY <1>4
<1> QED BY <1>1, <1>5, <1>6 DEF Mirror, Settled

LEMMA FaithfulFrame ==
    ASSUME Types, Types', Reached, RootsApart, Faithful, stale = {},
           NEW s \in Scan, OthersStay(s), Benign, FaithfulBy(s)', UNCHANGED mirrored
    PROVE  Faithful'
<1>1. ASSUME NEW t \in Scan PROVE FaithfulBy(t)'
  <2>1. CASE t = s
    BY <2>1
  <2>2. CASE t # s
    BY <2>2, FaithfulOther DEF Faithful, OthersStay
  <2> QED BY <2>1, <2>2
<1>2. ASSUME NEW d \in mirrored PROVE d \in Folders /\ Mirror(d)'
  BY MirrorStays DEF Faithful
<1> QED BY <1>1, <1>2 DEF Faithful

LEMMA TablesBenign ==
    ASSUME UNCHANGED <<author, book, file, disk>>
    PROVE  Benign
  BY DEF Benign, Paths, Settled

LEMMA BeginFaithful ==
    ASSUME Types, NEW s \in Scan, NEW dir, ScanBegin(s, dir)
    PROVE  FaithfulBy(s)' /\ Benign
  BY ScanBeginWalk, TablesBenign DEF FaithfulBy, tables

LEMMA SnapshotFaithful ==
    ASSUME Types, NEW s \in Scan, FaithfulBy(s), Snapshot(s)
    PROVE  FaithfulBy(s)' /\ Benign
<1> DEFINE q   == scan'[s]
           old == {p \in Paths : Like(scan[s].root, Full(p))}
<1>1. /\ UNCHANGED <<tables, disk>>
      /\ scan[s].pc = "snapshot" /\ q.pc = "walk" /\ q.root = scan[s].root
      /\ q.existing = old
      /\ q.dirs = {p.dir : p \in {o \in Place : Walkable(scan[s].root, o)}}
      /\ q.todo = {} /\ q.found = {}
  BY SnapshotWalk DEF FaithfulBy
<1> HIDE DEF q
<1>2. Paths' = Paths /\ \A p : OnDisk(p)' = OnDisk(p)
  BY <1>1 DEF tables, Paths, OnDisk
<1>3. WalkOk(s)'
  BY <1>1 DEF WalkOk, q
<1>4. RowsOk(s)'
  BY <1>1, <1>2 DEF RowsOk, q
<1>5. FoundOk(s)' /\ AtOk(s)'
  BY <1>1 DEF FoundOk, AtOk, AtFile, q
<1> QED BY <1>1, <1>3, <1>4, <1>5, TablesBenign DEF FaithfulBy, tables, q

\* The tables and the disk as they were: rows and files say the same.
LEMMA SameTables ==
    ASSUME UNCHANGED <<tables, disk>>
    PROVE  /\ Benign /\ Paths' = Paths
           /\ \A p : OnDisk(p)' = OnDisk(p) /\ Settled(p)' = Settled(p)
  BY TablesBenign DEF tables, Paths, OnDisk, Settled

LEMMA ReadDirFaithful ==
    ASSUME Types, NEW s \in Scan, FaithfulBy(s), NEW dir \in scan[s].dirs, ReadDir(s, dir)
    PROVE  FaithfulBy(s)' /\ Benign
<1> DEFINE q == scan'[s]
           r == scan[s]
<1>1. /\ UNCHANGED <<tables, disk>> /\ r.pc = "walk"
      /\ q.pc = "walk" /\ q.root = r.root /\ q.existing = r.existing /\ q.found = r.found
      /\ q.dirs = r.dirs \ {dir}
      /\ q.todo = r.todo \cup {p \in Place : p.dir = dir /\ OnDisk(p)}
  BY ReadDirWalk DEF SameFile
<1>2. Paths' = Paths /\ Benign /\ \A p : OnDisk(p)' = OnDisk(p) /\ Settled(p)' = Settled(p)
  BY <1>1, SameTables
<1>3. WalkOk(s) /\ RowsOk(s) /\ FoundOk(s)
  BY <1>1 DEF FaithfulBy
<1> HIDE DEF q
<1>4. WalkOk(s)'
  BY <1>1, <1>2, <1>3 DEF WalkOk, q
<1>5. RowsOk(s)'
  BY <1>1, <1>2, <1>3 DEF RowsOk, q
<1>6. FoundOk(s)' /\ AtOk(s)'
  BY <1>1, <1>2, <1>3 DEF FoundOk, AtOk, AtFile, q
<1> QED BY <1>1, <1>2, <1>4, <1>5, <1>6 DEF FaithfulBy, q

LEMMA VisitFaithful ==
    ASSUME Types, NEW s \in Scan, FaithfulBy(s), NEW p \in scan[s].todo, Visit(s, p)
    PROVE  FaithfulBy(s)' /\ Benign
<1> DEFINE q == scan'[s]
           r == scan[s]
<1>1. /\ UNCHANGED <<tables, disk>> /\ r.pc = "walk" /\ p \in Place
      /\ q.root = r.root /\ q.existing = r.existing /\ q.dirs = r.dirs
      /\ q.todo = r.todo \ {p} /\ q.found = r.found \cup {p}
      /\ \/ OnDisk(p) /\ q.at = p /\ q.size = Size[disk[p]]
            /\ q.pc = IF p \in r.existing THEN "compare" ELSE "match"
         \/ ~OnDisk(p)
  BY VisitWalk
<1>2. Paths' = Paths /\ Benign /\ \A x : OnDisk(x)' = OnDisk(x) /\ Settled(x)' = Settled(x)
  BY <1>1, SameTables
<1>3. WalkOk(s) /\ RowsOk(s) /\ FoundOk(s)
  BY <1>1 DEF FaithfulBy
<1>4. OnDisk(p) /\ q.at = p /\ q.size = Size[disk[p]]
      /\ q.pc = IF p \in r.existing THEN "compare" ELSE "match"
  BY <1>1, <1>3 DEF WalkOk
<1> HIDE DEF q
<1>5. WalkOk(s)'
  BY <1>1, <1>2, <1>3, <1>4 DEF WalkOk, q
<1>6. RowsOk(s)'
  BY <1>1, <1>2, <1>3 DEF RowsOk, q
<1>7. FoundOk(s)'
  <2>1. q.pc \in AtFile /\ q.at = p
    BY <1>4 DEF AtFile
  <2>2. ASSUME NEW x \in r.found PROVE Settled(x)'
    BY <1>1, <1>2, <1>3, <2>2 DEF FoundOk, AtFile
  <2> QED BY <1>1, <2>1, <2>2 DEF FoundOk, q
<1>8. AtOk(s)'
  BY <1>1, <1>2, <1>4 DEF AtOk, q
<1>9. q.pc \notin {"idle", "snapshot"}
  BY <1>4
<1> QED BY <1>2, <1>5, <1>6, <1>7, <1>8, <1>9 DEF FaithfulBy, q

\* A scan that works on a file goes on with it, or has left it a right row.
LEMMA FileStepFaithful ==
    ASSUME Types, Reached, Benign, NEW s \in Scan, FaithfulBy(s), FileStep(s),
           NEW p, p = scan[s].at,
           \/ AtOk(s)' /\ scan'[s].pc \in AtFile
           \/ Settled(p)' /\ scan'[s].pc = "walk"
    PROVE  FaithfulBy(s)'
<1>1. /\ SameWalk(scan'[s], scan[s]) /\ scan[s].pc \in AtFile
      /\ scan'[s].pc \in AtFile => scan'[s].at = p
  BY FileStepWalk
<1>2. scan[s].pc \notin {"idle", "snapshot"} /\ scan'[s].pc \notin {"idle", "snapshot"}
  BY <1>1 DEF AtFile
<1>3. WalkOk(s) /\ RowsOk(s) /\ FoundOk(s)
  BY <1>2 DEF FaithfulBy
<1>4. WalkOk(s)' /\ RowsOk(s)' /\ \A x \in scan[s].found : Settled(x) => Settled(x)'
  BY <1>1, <1>2, <1>3, WalkStays
<1>5. FoundOk(s)'
  <2>1. ASSUME NEW x \in scan[s].found, x # p PROVE Settled(x)'
    BY <1>3, <1>4, <2>1 DEF FoundOk
  <2>2. scan'[s].found = scan[s].found
    BY <1>1 DEF SameWalk
  <2> QED BY <1>1, <2>1, <2>2 DEF FoundOk
<1>6. AtOk(s)'
  BY DEF AtOk, AtFile
<1> QED BY <1>2, <1>4, <1>5, <1>6 DEF FaithfulBy

\* What is known of the file in hand.
LEMMA InHand ==
    ASSUME Types, Reached, NEW s \in Scan, FaithfulBy(s), scan[s].pc \in AtFile,
           NEW p, p = scan[s].at
    PROVE  LET r == scan[s] IN
           /\ p \in Place /\ OnDisk(p) /\ Listed(p) /\ r.size = Size[disk[p]]
           /\ AtOk(s) /\ (p \in r.existing <=> r.pc \in {"compare", "update"})
           /\ p \in r.existing => p \in Paths
           /\ (p \notin r.existing /\ p \in Paths) => Settled(p)
<1> DEFINE r == scan[s]
<1>1. r.pc \notin {"idle", "snapshot"}
  BY DEF AtFile
<1>2. WalkOk(s) /\ RowsOk(s) /\ AtOk(s)
  BY <1>1 DEF FaithfulBy
<1>3. r.root \in Folders /\ p \in r.found /\ Walkable(r.root, p)
  BY <1>1 DEF Reached, ReachedIn, ReachedBy
<1>4. p \in Place
  BY TheJob DEF JobOk
<1>5. OnDisk(p) /\ Listed(p)
  BY <1>2, <1>3 DEF WalkOk, Listed
<1>6. Like(r.root, Full(p))
  BY <1>3, <1>4, LikeUnder
<1>7. r.size = Size[disk[p]] /\ (p \in r.existing <=> r.pc \in {"compare", "update"})
  BY <1>2 DEF AtOk
<1> QED BY <1>2, <1>3, <1>4, <1>5, <1>6, <1>7 DEF RowsOk

\* What a step keeps when it goes on with the file.
LEMMA GoesOn ==
    ASSUME Types, NEW s \in Scan, FileStep(s), AtOk(s), disk' = disk, scan'[s].pc \in AtFile,
           scan[s].pc \in {"compare", "update"} <=> scan'[s].pc \in {"compare", "update"},
           scan'[s].pc = "insert" => \E b \in book' : b.id = scan'[s].book,
           scan'[s].pc \in {"title", "newBook"} => \E a \in author' : a.id = scan'[s].author
    PROVE  AtOk(s)'
<1>1. /\ scan[s].pc \in AtFile /\ scan'[s].at = scan[s].at /\ scan'[s].size = scan[s].size
      /\ scan'[s].existing = scan[s].existing
  BY FileStepWalk DEF SameWalk
<1> QED BY <1>1 DEF AtOk

LEMMA CompareFaithful ==
    ASSUME Types, Reached, NEW s \in Scan, FaithfulBy(s), Compare(s)
    PROVE  FaithfulBy(s)' /\ Benign
<1> DEFINE r == scan[s]
<1>1. r.pc = "compare" /\ r.pc \in AtFile /\ JobOk(r) /\ UNCHANGED <<tables, disk>>
  BY TheJob DEF Compare, Reads, AtFile
<1>2. PICK p : p = r.at
  OBVIOUS
<1>3. p \in Paths /\ r.size = Size[disk[p]] /\ AtOk(s)
  BY <1>1, <1>2, InHand
<1>4. Benign /\ Settled(p)' = Settled(p)
  BY <1>1, SameTables
<1>5. CASE \E f \in Row(p) : f.size # r.size
  <2>1. Become(s, [r EXCEPT !.pc = "update"])
    BY <1>2, <1>5 DEF Compare, Reads
  <2>2. scan'[s].pc = "update"
    BY <1>1, <2>1, BecomeSet DEF JobOk, Job
  <2>3. AtOk(s)' /\ scan'[s].pc \in AtFile
    BY <1>1, <1>3, <2>2, GoesOn DEF FileStep, AtFile
  <2> QED BY <1>2, <1>4, <2>3, FileStepFaithful DEF FileStep
<1>6. CASE ~\E f \in Row(p) : f.size # r.size
  <2>1. Become(s, BackToWalk(r))
    BY <1>2, <1>6 DEF Compare, Reads
  <2>2. scan'[s].pc = "walk"
    BY <1>1, <2>1, BecomeSet, BackToWalkJob
  <2>3. Settled(p)
    BY <1>3, <1>6 DEF Settled, Row
  <2> QED BY <1>2, <1>4, <2>2, <2>3, FileStepFaithful DEF FileStep
<1> QED BY <1>5, <1>6

LEMMA UpdateFaithful ==
    ASSUME Types, Reached, NEW s \in Scan, FaithfulBy(s), UpdateFile(s)
    PROVE  FaithfulBy(s)' /\ Benign
<1> DEFINE r == scan[s]
           new(f) == IF f.place = r.at THEN [f EXCEPT !.size = r.size] ELSE f
<1>1. r.pc = "update" /\ r.pc \in AtFile /\ JobOk(r)
      /\ UNCHANGED <<root, author, book, lastId, disk>> /\ Become(s, BackToWalk(r))
      /\ file' = {new(f) : f \in file}
  BY TheJob DEF UpdateFile, AtFile
<1>2. PICK p : p = r.at
  OBVIOUS
<1>3. p \in Paths /\ r.size = Size[disk[p]]
  BY <1>1, <1>2, InHand
<1>4. Paths' = Paths
  BY UpdateFileTypes
<1>5. \A f \in file : /\ new(f).place = f.place
                      /\ f.place = p => new(f).size = r.size
                      /\ f.place # p => new(f) = f
  BY <1>2 DEF Types, Tables, FileRows
<1> HIDE DEF new
<1>6. Settled(p)'
  BY <1>1, <1>3, <1>4, <1>5 DEF Settled
<1>7. ASSUME NEW x, Settled(x) PROVE Settled(x)'
  <2>1. CASE x = p
    BY <1>6, <2>1
  <2>2. CASE x # p
    BY <1>1, <1>4, <1>5, <1>7, <2>2 DEF Settled
  <2> QED BY <2>1, <2>2
<1>8. Benign
  BY <1>1, <1>4, <1>7 DEF Benign
<1>9. scan'[s].pc = "walk"
  BY <1>1, BecomeSet, BackToWalkJob
<1> QED BY <1>2, <1>6, <1>8, <1>9, FileStepFaithful DEF FileStep

LEMMA AddFileFaithful ==
    ASSUME Types, Reached, NEW s \in Scan, FaithfulBy(s), AddFile(s)
    PROVE  FaithfulBy(s)' /\ Benign
<1> DEFINE r == scan[s]
           f == [place |-> r.at, book |-> r.book, size |-> r.size]
<1>1. r.pc = "insert" /\ r.pc \in AtFile /\ JobOk(r)
      /\ UNCHANGED <<root, author, book, lastId, disk>> /\ Become(s, BackToWalk(r))
  BY TheJob DEF AddFile, AtFile
<1>2. PICK p : p = r.at
  OBVIOUS
<1>3. /\ r.size = Size[disk[p]] /\ p \notin r.existing /\ Listed(p) /\ AtOk(s)
      /\ p \in Paths => Settled(p)
  BY <1>1, <1>2, InHand
<1>4. \E b \in book : b.id = r.book
  BY <1>1, <1>3 DEF AtOk
<1>5. scan'[s].pc = "walk"
  BY <1>1, BecomeSet, BackToWalkJob
<1>6. CASE p \in Paths
  <2>1. file' = file
    BY <1>2, <1>6 DEF AddFile
  <2>2. Benign /\ Settled(p)'
    BY <1>1, <1>3, <1>6, <2>1, SameTables DEF tables
  <2> QED BY <1>2, <1>5, <2>2, FileStepFaithful DEF FileStep
<1>7. CASE p \notin Paths
  <2>1. file' = file \cup {f}
    BY <1>2, <1>4, <1>7 DEF AddFile
  <2>2. f.place = p /\ f.size = Size[disk[p]]
    BY <1>2, <1>3
  <2> HIDE DEF f
  <2>3. Paths' = Paths \cup {p}
    BY <2>1, <2>2 DEF Paths
  <2>4. Settled(p)'
    BY <1>1, <1>7, <2>1, <2>2, <2>3 DEF Settled, Paths
  <2>5. ASSUME NEW x, Settled(x) PROVE Settled(x)'
    BY <1>1, <1>7, <2>1, <2>2, <2>3, <2>5 DEF Settled
  <2>6. Benign
    BY <1>1, <1>3, <2>3, <2>4, <2>5 DEF Benign
  <2> QED BY <1>2, <1>5, <2>4, <2>6, FileStepFaithful DEF FileStep
<1> QED BY <1>6, <1>7

\* The steps that look for a book, or make one.
LEMMA SearchFaithful ==
    ASSUME Types, Reached, NEW s \in Scan, FaithfulBy(s), Match(s) \/ Discover(s) \/ FindBook(s)
    PROVE  FaithfulBy(s)' /\ Benign
<1> DEFINE r == scan[s]
           q == scan'[s]
<1>1. r.pc \in {"match", "discover", "title"} /\ r.pc \in AtFile /\ JobOk(r)
      /\ UNCHANGED <<tables, disk>> /\ FileStep(s)
  BY TheJob DEF Match, Discover, FindBook, Reads, AtFile, FileStep
<1>2. PICK p : p = r.at
  OBVIOUS
<1>3. AtOk(s)
  BY <1>1, <1>2, InHand
<1>4. \/ q.pc = "insert" /\ \E b \in book : b.id = q.book
      \/ q.pc = "discover" \/ q.pc = "newAuthor"
      \/ q.pc \in {"title", "newBook"} /\ \E a \in author : a.id = q.author
  <2>1. CASE Match(s)
    <3> DEFINE new == [r EXCEPT !.pc = "discover"]
               had(b) == [r EXCEPT !.pc = "insert", !.book = b.id]
    <3>1. (\E b \in book : Become(s, had(b))) \/ Become(s, new)
      BY <2>1 DEF Match, Reads, Matches, BooksIn
    <3>2. new.pc = "discover" /\ \A b \in book : had(b).pc = "insert" /\ had(b).book = b.id
      BY <1>1 DEF JobOk, Job
    <3> HIDE DEF new, had
    <3> QED BY <3>1, <3>2, BecomeSet
  <2>2. CASE Discover(s)
    <3> DEFINE info == Discovered(r.root, r.at)
               new == [r EXCEPT !.pc = "newAuthor", !.info = info]
               had(a) == [r EXCEPT !.pc = "title", !.info = info, !.author = a.id]
    <3>1. (\E a \in author : Become(s, had(a))) \/ Become(s, new)
      BY <2>2 DEF Discover, Reads, AuthorsNamed
    <3> HIDE DEF info
    <3>2. new.pc = "newAuthor" /\ \A a \in author : had(a).pc = "title" /\ had(a).author = a.id
      BY <1>1 DEF JobOk, Job
    <3> HIDE DEF new, had
    <3> QED BY <3>1, <3>2, BecomeSet
  <2>3. CASE FindBook(s)
    <3> DEFINE new == [r EXCEPT !.pc = "newBook"]
               had(b) == [r EXCEPT !.pc = "insert", !.book = b.id, !.author = 0, !.info = NoInfo]
    <3>1. (\E b \in book : Become(s, had(b))) \/ Become(s, new)
      BY <2>3 DEF FindBook, Reads, BooksTitled
    <3>2. /\ new.pc = "newBook" /\ new.author = r.author
          /\ \A b \in book : had(b).pc = "insert" /\ had(b).book = b.id
      BY <1>1 DEF JobOk, Job
    <3>3. \E a \in author : a.id = r.author
      BY <1>3, <2>3 DEF AtOk, FindBook, AtFile
    <3> HIDE DEF new, had
    <3> QED BY <3>1, <3>2, <3>3, BecomeSet
  <2> QED BY <2>1, <2>2, <2>3
<1>5. AtOk(s)' /\ q.pc \in AtFile
  <2>1. q.pc \in AtFile /\ q.pc \notin {"compare", "update"}
        /\ r.pc \notin {"compare", "update"}
    BY <1>1, <1>4 DEF AtFile
  <2>2. book' = book /\ author' = author
    BY <1>1 DEF tables
  <2>3. q.pc = "insert" => \E b \in book : b.id = q.book
    BY <1>4
  <2>4. q.pc \in {"title", "newBook"} => \E a \in author : a.id = q.author
    BY <1>4
  <2> HIDE DEF r, q
  <2> QED BY <1>1, <1>3, <2>1, <2>2, <2>3, <2>4, GoesOn DEF r, q
<1>6. Benign
  BY <1>1, SameTables
<1> QED BY <1>1, <1>2, <1>5, <1>6, FileStepFaithful

LEMMA MoreBenign ==
    ASSUME UNCHANGED <<file, disk>>, author \subseteq author', book \subseteq book'
    PROVE  Benign
  BY DEF Benign, Paths, Settled

LEMMA CreateFaithful ==
    ASSUME Types, Reached, NEW s \in Scan, FaithfulBy(s), CreateAuthor(s) \/ CreateBook(s)
    PROVE  FaithfulBy(s)' /\ Benign
<1> DEFINE r == scan[s]
           q == scan'[s]
<1>1. r.pc \in {"newAuthor", "newBook"} /\ r.pc \in AtFile /\ JobOk(r)
      /\ UNCHANGED <<file, disk>> /\ FileStep(s)
  BY TheJob DEF CreateAuthor, CreateBook, AtFile, FileStep
<1>2. PICK p : p = r.at
  OBVIOUS
<1>3. AtOk(s)
  BY <1>1, <1>2, InHand
<1>4. /\ author \subseteq author' /\ book \subseteq book'
      /\ \/ q.pc = "insert" /\ \E b \in book' : b.id = q.book
         \/ q.pc = "title" /\ \E a \in author' : a.id = q.author
  <2>1. CASE CreateAuthor(s)
    <3> DEFINE id == lastId.author + 1
               a  == [id |-> id, name |-> r.info.author, path |-> Append(r.root, r.info.author)]
               n  == [r EXCEPT !.pc = "title", !.author = id]
    <3>1. author' = author \cup {a} /\ Become(s, n) /\ book' = book
      BY <2>1 DEF CreateAuthor
    <3>2. n.pc = "title" /\ n.author = id /\ a.id = id
      BY <1>1 DEF JobOk, Job
    <3> HIDE DEF a, n
    <3> QED BY <3>1, <3>2, BecomeSet
  <2>2. CASE CreateBook(s)
    <3> DEFINE id == lastId.book + 1
               b  == [id |-> id, author |-> r.author, title |-> r.info.title]
               n  == [r EXCEPT !.pc = "insert", !.book = id, !.author = 0, !.info = NoInfo]
    <3>1. \E a \in author : a.id = r.author
      BY <1>3, <2>2 DEF AtOk, CreateBook, AtFile
    <3>2. book' = book \cup {b} /\ Become(s, n) /\ author' = author
      BY <2>2, <3>1 DEF CreateBook
    <3>3. n.pc = "insert" /\ n.book = id /\ b.id = id
      BY <1>1 DEF JobOk, Job
    <3> HIDE DEF b, n
    <3> QED BY <3>2, <3>3, BecomeSet
  <2> QED BY <1>1, <2>1, <2>2 DEF FileStep
<1>5. AtOk(s)' /\ q.pc \in AtFile
  <2>1. q.pc \in AtFile /\ q.pc \notin {"compare", "update"}
        /\ r.pc \notin {"compare", "update"}
    BY <1>1, <1>4 DEF AtFile
  <2>2. q.pc = "insert" => \E b \in book' : b.id = q.book
    BY <1>4
  <2>3. q.pc \in {"title", "newBook"} => \E a \in author' : a.id = q.author
    BY <1>4
  <2> HIDE DEF r, q
  <2> QED BY <1>1, <1>3, <2>1, <2>2, <2>3, GoesOn DEF r, q
<1>6. Benign
  BY <1>1, <1>4, MoreBenign
<1> QED BY <1>1, <1>2, <1>5, <1>6, FileStepFaithful

\* A row that a scan removes is no listed file's.
LEMMA RemoveFaithful ==
    ASSUME Types, Reached, RootsApart, NEW s \in Scan, FaithfulBy(s),
           NEW p \in scan[s].existing, RemoveRow(s, p)
    PROVE  FaithfulBy(s)' /\ Benign
<1> DEFINE r == scan[s]
           q == scan'[s]
<1>1. /\ UNCHANGED <<root, author, book, lastId, disk>> /\ file' = file \ Row(p)
      /\ r.pc = "walk" /\ r.dirs = {} /\ r.todo = {} /\ p \notin r.found
      /\ SameFile(q, r) /\ q.dirs = {} /\ q.todo = {} /\ q.found = r.found
      /\ q.existing = r.existing \ {p}
  BY RemoveRowWalk
<1>2. WalkOk(s) /\ RowsOk(s) /\ FoundOk(s)
  BY <1>1 DEF FaithfulBy
<1>3. r.root \in Folders /\ p \in Place
  BY <1>1, TheJob DEF Reached, ReachedIn, ReachedBy, JobOk, Job
<1>4. ~Listed(p)
  <2>1. ~(OnDisk(p) /\ Walkable(r.root, p))
    BY <1>1, <1>2, <1>3 DEF WalkOk
  <2>2. Like(r.root, Full(p))
    BY <1>2 DEF RowsOk
  <2> QED BY <1>3, <2>1, <2>2 DEF RootsApart, Listed, Folders
<1>5. Paths' = Paths \ {p}
  BY <1>1 DEF Paths, Row
<1>6. ASSUME NEW x, x # p, Settled(x) PROVE Settled(x)'
  BY <1>1, <1>5, <1>6 DEF Settled, Row
<1>7. Benign
  BY <1>1, <1>4, <1>5, <1>6 DEF Benign
<1>8. \A x : OnDisk(x)' = OnDisk(x)
  BY <1>1 DEF OnDisk
<1> HIDE DEF q
<1>9. WalkOk(s)'
  BY <1>1, <1>2, <1>8 DEF WalkOk, SameFile, q
<1>10. RowsOk(s)'
  <2>1. ASSUME NEW x \in Paths', Like(r.root, Full(x)), x \notin q.existing
        PROVE  OnDisk(x) /\ Settled(x)'
    BY <1>1, <1>2, <1>5, <1>6, <2>1 DEF RowsOk
  <2>2. ASSUME NEW x \in q.existing
        PROVE  /\ Like(r.root, Full(x))
               /\ (OnDisk(x) /\ Walkable(r.root, x)) => x \in Paths'
    BY <1>1, <1>2, <1>5, <2>2 DEF RowsOk
  <2>3. q.root = r.root
    BY <1>1 DEF SameFile
  <2> QED BY <1>8, <2>1, <2>2, <2>3 DEF RowsOk, q
<1>11. FoundOk(s)'
  <2>1. ASSUME NEW x \in r.found PROVE Settled(x)'
    BY <1>1, <1>2, <1>6, <2>1 DEF FoundOk, AtFile
  <2> QED BY <1>1, <2>1 DEF FoundOk, q
<1>12. q.pc = "walk"
  BY <1>1 DEF SameFile
<1>13. AtOk(s)'
  BY <1>12 DEF AtOk, AtFile, q
<1> QED BY <1>7, <1>9, <1>10, <1>11, <1>12, <1>13 DEF FaithfulBy, q

\* What a scan has to do is done when it ends.
LEMMA EndMirrors ==
    ASSUME Types, Reached, RootsApart, NEW s \in Scan, FaithfulBy(s), ScanEnd(s)
    PROVE  scan[s].root \in Folders /\ Mirror(scan[s].root)
<1> DEFINE r == scan[s]
<1>1. r.pc = "walk" /\ r.dirs = {} /\ r.todo = {} /\ r.existing \subseteq r.found
  BY DEF ScanEnd, Gone
<1>2. WalkOk(s) /\ RowsOk(s) /\ FoundOk(s)
  BY <1>1 DEF FaithfulBy
<1>3. r.root \in Folders /\ (\A p \in r.found : Walkable(r.root, p)) /\ r.found \subseteq Place
  BY <1>1, TheJob DEF Reached, ReachedIn, ReachedBy, JobOk, Job
<1>4. ASSUME NEW p \in Paths, Like(r.root, Full(p)) PROVE Walkable(r.root, p) /\ OnDisk(p)
  <2>1. CASE p \in r.existing
    BY <1>1, <1>2, <1>3, <2>1 DEF WalkOk
  <2>2. CASE p \notin r.existing
    <3>1. OnDisk(p)
      BY <1>2, <1>4, <2>2 DEF RowsOk
    <3>2. Walkable(r.root, p)
      BY <1>3, <1>4, PathsAreHere DEF Reached, ReachedIn, RootsApart, Folders, Walks
    <3> QED BY <3>1, <3>2
  <2> QED BY <2>1, <2>2
<1>5. ASSUME NEW p \in Place, Walkable(r.root, p), OnDisk(p)
      PROVE  Settled(p) /\ Like(r.root, Full(p))
  <2>1. p \in r.found
    BY <1>1, <1>2, <1>5 DEF WalkOk
  <2>2. Settled(p)
    BY <1>1, <1>2, <2>1 DEF FoundOk, AtFile
  <2> QED BY <1>3, <1>5, <2>2, LikeUnder
<1>6. {p \in Paths : Like(r.root, Full(p))} = {p \in Place : Walkable(r.root, p) /\ OnDisk(p)}
  BY <1>4, <1>5, PathsAreHere DEF Settled
<1> QED BY <1>3, <1>5, <1>6, MirrorSettled

LEMMA DisturbedFaithful ==
    ASSUME Types', Disturbed
    PROVE  Faithful'
<1>1. stale' = Running' /\ mirrored' = {}
  BY DEF Disturbed
<1>2. ASSUME stale' = {}, NEW s \in Scan PROVE FaithfulBy(s)'
  BY <1>1, <1>2 DEF Running, FaithfulBy
<1> QED BY <1>1, <1>2 DEF Faithful

LEMMA EndFaithful ==
    ASSUME Types, Types', Reached, RootsApart, Faithful, NEW s \in Scan, ScanEnd(s)
    PROVE  Faithful'
<1>1. CASE s \in stale
  BY <1>1, DisturbedFaithful DEF ScanEnd
<1>2. CASE s \notin stale
  <2> SUFFICES ASSUME stale = {} PROVE Faithful'
    BY <1>2 DEF ScanEnd, Faithful
  <2>1. mirrored' = mirrored \cup {scan[s].root}
    BY <1>2 DEF ScanEnd
  <2>2. scan[s].root \in Folders /\ Mirror(scan[s].root)
    BY EndMirrors DEF Faithful
  <2>3. OthersStay(s) /\ scan'[s] = Idle /\ UNCHANGED <<tables, disk>>
    BY ScanStopsWalk
  <2>4. Benign
    BY <2>3, SameTables
  <2>5. ASSUME NEW t \in Scan PROVE FaithfulBy(t)'
    <3>1. CASE t = s
      BY <2>3, <3>1 DEF FaithfulBy, Idle
    <3>2. CASE t # s
      BY <2>3, <2>4, <3>2, FaithfulOther DEF Faithful, OthersStay
    <3> QED BY <3>1, <3>2
  <2>6. ASSUME NEW d \in mirrored' PROVE d \in Folders /\ Mirror(d)'
    <3>1. d \in Folders /\ Mirror(d)
      BY <2>1, <2>2 DEF Faithful
    <3> QED BY <2>4, <3>1, MirrorStays
  <2> QED BY <2>5, <2>6 DEF Faithful
<1> QED BY <1>1, <1>2

LEMMA FaithfulStep ==
    ASSUME Types, Types', Reached, RootsApart, Faithful, NEW s \in Scan, ScanStep(s)
    PROVE  Faithful'
<1>1. CASE ScanEnd(s)
  BY <1>1, EndFaithful
<1>2. CASE ScanAborted(s) \/ \E dir \in scan[s].dirs : ReadDirFails(s, dir)
  BY <1>2, DisturbedFaithful DEF ScanAborted, ReadDirFails
<1>3. ASSUME ~ScanEnd(s), ~ScanAborted(s), ~(\E dir \in scan[s].dirs : ReadDirFails(s, dir))
      PROVE  Faithful'
  <2>1. OthersStay(s) /\ UNCHANGED <<mirrored, stale>>
    BY <1>3, ScanBeginWalk, SnapshotWalk, ReadDirWalk, VisitWalk, FileStepWalk, RemoveRowWalk
       DEF ScanStep, FileStep, history
  <2> SUFFICES ASSUME stale = {} PROVE Faithful'
    BY <2>1 DEF Faithful
  <2>2. FaithfulBy(s)
    BY DEF Faithful
  <2>3. FaithfulBy(s)' /\ Benign
    BY <1>3, <2>2, BeginFaithful, SnapshotFaithful, ReadDirFaithful, VisitFaithful,
       CompareFaithful, UpdateFaithful, SearchFaithful, CreateFaithful, AddFileFaithful,
       RemoveFaithful DEF ScanStep
  <2> QED BY <2>1, <2>3, FaithfulFrame
<1> QED BY <1>1, <1>2, <1>3

LEMMA FaithfulNext ==
    ASSUME Types, Types', Reached, RootsApart, Faithful, [Next]_scanVars
    PROVE  Faithful'
<1>1. ASSUME NEW s \in Scan, ScanStep(s) PROVE Faithful'
  BY <1>1, FaithfulStep
<1>2. CASE User
  BY <1>2, DisturbedFaithful DEF User, FileChanges, DeleteAuthorFiles, DeleteAuthor, DiskBecomes
<1>3. CASE UNCHANGED scanVars
  <2>1. UNCHANGED <<tables, disk, scan, mirrored, stale>>
    BY <1>3 DEF scanVars, history
  <2>2. Benign
    BY <2>1, SameTables
  <2>3. ASSUME stale = {}, NEW s \in Scan PROVE FaithfulBy(s)'
    BY <2>1, <2>2, <2>3, FaithfulOther DEF Faithful
  <2>4. ASSUME stale = {}, NEW d \in mirrored PROVE d \in Folders /\ Mirror(d)'
    BY <2>2, <2>4, MirrorStays DEF Faithful
  <2> QED BY <2>1, <2>3, <2>4 DEF Faithful
<1> QED BY <1>1, <1>2, <1>3 DEF Next

\* ScanRootFolder: once the scans a change has met have ended, every scan leaves
\* the rows below its root equal to the files, sizes and all, however many scans
\* of this and of other roots are at work beside it.
THEOREM ScansMirror ==
    ASSUME ~AuthorScans, RootsApart
    PROVE  Spec => []UndisturbedScansMirror
<1>1. Spec => []Reached
  BY ReachedInit, ReachedNext, TypesAlways, PTL DEF Spec
<1>2. Init => Faithful
  BY DEF Init, Faithful, FaithfulBy, Idle
<1>3. Types /\ Types' /\ Reached /\ Faithful /\ [Next]_scanVars => Faithful'
  BY FaithfulNext
<1>4. Faithful => UndisturbedScansMirror
  BY DEF Faithful, UndisturbedScansMirror
<1> QED BY <1>1, <1>2, <1>3, <1>4, TypesAlways, PTL DEF Spec

-----------------------------------------------------------------------------
(* Whose file it is. *)

RootsDisjoint == \A i, j \in DOMAIN Roots : IsPrefix(Roots[i], Roots[j]) => Roots[i] = Roots[j]

\* A file's metadata name no author but the one whose folder it is in.
Labelled ==
    \A p \in Place, d \in Folders :
        (OnDisk(p) /\ Walkable(d, p) /\ p.dir # d) =>
            \/ Meta[disk[p]].author = NoName
            \/ SameName(Meta[disk[p]].author, Within(d, p)[1])

Home(n, p) == \A d \in Folders : (Under(d, p) /\ p.dir # d) => SameName(n, p.dir[Len(d) + 1])
OfOwner(b, p) == \A a \in author : a.id = b.author => Home(a.name, p)

\* What a scan has found out of the file in hand stays right, for as long as it
\* is about rows that are still there: ids are not used again.
FiledBy(s) ==
    LET r == scan[s] IN
    /\ r.pc = "newAuthor" => Home(r.info.author, r.at)
    /\ r.pc \in {"title", "newBook"} =>
            /\ r.author \in 1..lastId.author
            /\ \A a \in author : a.id = r.author => Home(a.name, r.at)
    /\ r.pc = "insert" =>
            /\ r.book \in 1..lastId.book
            /\ \A b \in book : b.id = r.book => OfOwner(b, r.at)
AtHome ==
    /\ \A a \in author : \E d \in Folders : a.path = Append(d, a.name)
    /\ \A f \in file, b \in book : b.id = f.book => OfOwner(b, f.place)
    /\ \A s \in Scan : FiledBy(s)

LEMMA FolderPaths == \A d \in Folders : d \in Path /\ d # <<>> /\ Len(d) \in Nat
<1> SUFFICES ASSUME NEW d \in Folders PROVE d \in Path /\ d # <<>> /\ Len(d) \in Nat
  OBVIOUS
<1>1. d \in Path /\ d # <<>>
  BY ConstantsOK DEF Folders, Path
<1> QED BY <1>1 DEF Path

\* Two roots above one file are one.
LEMMA OneRootAbove ==
    ASSUME RootsDisjoint, NEW d \in Folders, NEW e \in Folders, NEW p \in Path,
           Len(d) <= Len(p), \A i \in 1..Len(d) : d[i] = p[i],
           Len(e) <= Len(p), \A i \in 1..Len(e) : e[i] = p[i]
    PROVE  d = e
<1>1. ASSUME NEW x \in Folders, NEW y \in Folders, Len(x) <= Len(y),
             \A i \in 1..Len(x) : x[i] = y[i]
      PROVE  x = y
  <2>1. x \in Path /\ y \in Path /\ Len(x) \in Nat /\ Len(y) \in Nat
    BY FolderPaths
  <2>2. SubSeq(x, 1, Len(x)) = x
    BY <2>1, SubSeqFull DEF Path
  <2>3. SubSeq(y, 1, Len(x)) = x
    <3> DEFINE z == SubSeq(y, 1, Len(x))
    <3>1. z \in Path /\ Len(z) = Len(x) /\ \A i \in 1..Len(x) : z[i] = y[i]
      BY <1>1, <2>1 DEF Path
    <3> HIDE DEF z
    <3>2. z = x
      BY <1>1, <2>1, <3>1, SeqEqual DEF Path
    <3> QED BY <3>2 DEF z
  <2>4. IsPrefix(x, y)
    BY <1>1, <2>2, <2>3 DEF IsPrefix
  <2> QED BY <2>4 DEF RootsDisjoint, Folders
<1>2. d \in Path /\ e \in Path /\ Len(d) \in Nat /\ Len(e) \in Nat
  BY FolderPaths
<1>3. CASE Len(d) <= Len(e)
  <2>1. \A i \in 1..Len(d) : d[i] = e[i]
    BY <1>2, <1>3
  <2> QED BY <1>1, <1>3, <2>1
<1>4. CASE Len(e) <= Len(d)
  <2>1. \A i \in 1..Len(e) : e[i] = d[i]
    BY <1>2, <1>4
  <2> QED BY <1>1, <1>4, <2>1
<1> QED BY <1>2, <1>3, <1>4

\* The first name below a folder.
LEMMA FirstWithin ==
    ASSUME NEW d \in Path, NEW p \in Place, Under(d, p), p.dir # d
    PROVE  /\ Len(p.dir) \in Nat /\ Len(d) \in Nat /\ Len(d) + 1 \in 1..Len(p.dir)
           /\ Within(d, p) \in Path /\ Within(d, p) # <<>>
           /\ Within(d, p)[1] = p.dir[Len(d) + 1] /\ p.dir[Len(d) + 1] \in Name
<1>1. p.dir \in Path /\ Len(p.dir) \in Nat /\ Len(d) \in Nat
  BY PlaceFields DEF Path
<1>2. Len(d) <= Len(p.dir) /\ \A i \in 1..Len(d) : d[i] = p.dir[i]
  BY UnderElements
<1>3. Len(d) # Len(p.dir)
  BY <1>1, <1>2, SeqEqual DEF Path
<1>4. Len(d) + 1 \in 1..Len(p.dir)
  BY <1>1, <1>2, <1>3
<1>5. p.dir[Len(d) + 1] \in Name
  BY <1>1, <1>4, ElementOfSeq DEF Path
<1>6. /\ Within(d, p) \in Path
      /\ Len(Within(d, p)) = Len(p.dir) - Len(d)
      /\ Within(d, p)[1] = p.dir[Len(d) + 1]
  BY <1>1, <1>4 DEF Within, Path
<1>7. Within(d, p) # <<>>
  BY <1>1, <1>4, <1>6, EmptySeq
<1> QED BY <1>1, <1>4, <1>5, <1>6, <1>7

\* An author's path is that of a folder in which the author's files are.
LEMMA AuthorFolder ==
    ASSUME RootsDisjoint, NEW d \in Folders, NEW n \in Name, NEW p \in Place,
           LET q == Append(d, n) IN
               Len(q) <= Len(p.dir) /\ \A i \in 1..Len(q) : q[i] = p.dir[i]
    PROVE  Home(n, p)
<1> DEFINE q == Append(d, n)
<1>1. p.dir \in Path /\ d \in Path /\ Len(d) \in Nat /\ Len(p.dir) \in Nat
  BY PlaceFields, FolderPaths DEF Path
<1>2. Len(q) = Len(d) + 1 /\ q[Len(d) + 1] = n /\ \A i \in 1..Len(d) : q[i] = d[i]
  BY <1>1 DEF Path
<1>3. Len(d) <= Len(p.dir) /\ (\A i \in 1..Len(d) : d[i] = p.dir[i]) /\ p.dir[Len(d) + 1] = n
  BY <1>1, <1>2
<1>4. ASSUME NEW e \in Folders, Under(e, p), p.dir # e PROVE SameName(n, p.dir[Len(e) + 1])
  <2>1. Len(e) <= Len(p.dir) /\ \A i \in 1..Len(e) : e[i] = p.dir[i]
    BY <1>4, UnderElements, FolderPaths
  <2>2. d = e
    BY <1>1, <1>3, <2>1, OneRootAbove
  <2> QED BY <1>3, <2>2 DEF SameName
<1> QED BY <1>4 DEF Home

\* No id is used again: what is left of an author is left of its books.
FreshRows ==
    /\ lastId'.author >= lastId.author /\ lastId'.book >= lastId.book
    /\ \A a \in author' : a \in author \/ a.id \notin 1..lastId.author
    /\ \A b \in book' : b \in book \/ b.id \notin 1..lastId.book

LEMMA OfOwnerStays ==
    ASSUME Types, FreshRows, NEW b \in book, NEW p, OfOwner(b, p)
    PROVE  \A a \in author' : a.id = b.author => Home(a.name, p)
<1>1. b.author \in 1..lastId.author
  BY DEF Types, Tables, BookRows, AuthorRows
<1> QED BY <1>1 DEF FreshRows, OfOwner

LEMMA FiledByOther ==
    ASSUME Types, Types', FreshRows, NEW t \in Scan, FiledBy(t), SameFile(scan'[t], scan[t])
    PROVE  FiledBy(t)'
<1> DEFINE r == scan[t]
           q == scan'[t]
<1>1. /\ q.pc = r.pc /\ q.at = r.at /\ q.info = r.info /\ q.author = r.author /\ q.book = r.book
  BY DEF SameFile
<1>2. 1..lastId.author \subseteq 1..lastId'.author /\ 1..lastId.book \subseteq 1..lastId'.book
  BY DEF FreshRows, Types, Tables, Counters
<1> HIDE DEF q
<1>3. ASSUME r.pc \in {"title", "newBook"}
      PROVE  /\ r.author \in 1..lastId'.author
             /\ \A a \in author' : a.id = r.author => Home(a.name, r.at)
  BY <1>2, <1>3 DEF FiledBy, FreshRows
<1>4. ASSUME r.pc = "insert"
      PROVE  /\ r.book \in 1..lastId'.book
             /\ \A b \in book' : b.id = r.book =>
                    \A a \in author' : a.id = b.author => Home(a.name, r.at)
  <2>1. ASSUME NEW b \in book', b.id = r.book PROVE b \in book /\ OfOwner(b, r.at)
    BY <1>4, <2>1 DEF FiledBy, FreshRows
  <2>2. r.book \in 1..lastId'.book
    BY <1>2, <1>4 DEF FiledBy
  <2> QED BY <2>1, <2>2, OfOwnerStays
<1>5. r.pc = "newAuthor" => Home(r.info.author, r.at)
  BY DEF FiledBy
<1> QED BY <1>1, <1>3, <1>4, <1>5 DEF FiledBy, OfOwner, q

\* Rows of files that were there, or that a scan has just added to a book of
\* their author's.
LEMMA AtHomeFrame ==
    ASSUME Types, Types', FreshRows, AtHome,
           \A a \in author' : a \in author \/ \E d \in Folders : a.path = Append(d, a.name),
           \A f \in file' : \/ \E g \in file : g.place = f.place /\ g.book = f.book
                            \/ \A b \in book : b.id = f.book => OfOwner(b, f.place),
           \A f \in file' : f.book \in {b.id : b \in book},
           \A t \in Scan : FiledBy(t)'
    PROVE  AtHome'
<1>1. \A a \in author' : \E d \in Folders : a.path = Append(d, a.name)
  BY DEF AtHome
<1>2. ASSUME NEW f \in file', NEW b \in book', b.id = f.book
      PROVE  \A a \in author' : a.id = b.author => Home(a.name, f.place)
  <2>1. f.book \in 1..lastId.book
    BY DEF Types, Tables, BookRows
  <2>2. b \in book
    BY <1>2, <2>1 DEF FreshRows
  <2>3. OfOwner(b, f.place)
    BY <1>2, <2>2 DEF AtHome
  <2> QED BY <2>2, <2>3, OfOwnerStays
<1> QED BY <1>1, <1>2 DEF AtHome, OfOwner

LEMMA SameRowsFresh ==
    ASSUME Types, UNCHANGED <<author, book, lastId>>
    PROVE  FreshRows
  BY DEF FreshRows, Types, Tables, Counters

\* A scan's step that leaves the tables as they are.
LEMMA AtHomeReads ==
    ASSUME Types, Types', AtHome, UNCHANGED tables, NEW s \in Scan, OthersStay(s), FiledBy(s)'
    PROVE  AtHome'
<1>1. FreshRows
  BY SameRowsFresh DEF tables
<1>2. ASSUME NEW t \in Scan PROVE FiledBy(t)'
  <2>1. CASE t = s
    BY <2>1
  <2>2. CASE t # s
    BY <1>1, <2>2, FiledByOther DEF AtHome, OthersStay, SameFile
  <2> QED BY <2>1, <2>2
<1>3. \A f \in file : f.book \in {b.id : b \in book}
  BY DEF Types, Tables, FileRows
<1> QED BY <1>1, <1>2, <1>3, AtHomeFrame DEF tables, AtHome

\* The author found, or to be created, for the file in hand.
LEMMA DiscoveredAuthor ==
    ASSUME Types, RootsDisjoint, NEW e \in Folders, Labelled,
           NEW p \in Place, Walkable(e, p)
    PROVE  Home(Discovered(e, p).author, p)
<1> SUFFICES ASSUME NEW d \in Folders, Under(d, p), p.dir # d
             PROVE  SameName(Discovered(e, p).author, p.dir[Len(d) + 1])
  BY DEF Home
<1>1. d = e
  <2>1. d \in Path /\ e \in Path /\ p.dir \in Path
    BY FolderPaths, PlaceFields
  <2>2. Under(e, p)
    BY DEF Walkable
  <2> QED BY <2>1, <2>2, UnderElements, OneRootAbove
<1>2. /\ Within(e, p) \in Path /\ Within(e, p) # <<>>
      /\ Within(e, p)[1] = p.dir[Len(d) + 1] /\ Within(e, p)[1] \in Name
  BY <1>1, FirstWithin, FolderPaths
<1>3. parsePathForBookInfo(e, p).author = Within(e, p)[1]
  BY <1>2 DEF parsePathForBookInfo
<1>4. Within(e, p)[1] # NoName
  BY <1>2, ConstantsOK
<1>5. CASE OnDisk(p) /\ Meta[disk[p]].author # NoName
  <2>1. Discovered(e, p).author = Meta[disk[p]].author
    BY <1>3, <1>4, <1>5 DEF Discovered, OnDisk
  <2>2. SameName(Meta[disk[p]].author, Within(e, p)[1])
    BY <1>1, <1>5 DEF Labelled
  <2> QED BY <1>2, <2>1, <2>2
<1>6. CASE ~(OnDisk(p) /\ Meta[disk[p]].author # NoName)
  <2>1. Discovered(e, p).author = Within(e, p)[1]
    BY <1>3, <1>4, <1>6 DEF Discovered, OnDisk, NoInfo
  <2> QED BY <1>2, <2>1 DEF SameName
<1> QED BY <1>5, <1>6

\* The book matchFileToBook finds.
LEMMA MatchedBook ==
    ASSUME Types, RootsDisjoint, AtHome, NEW p \in Place, NEW b \in Matches(p)
    PROVE  b \in book /\ OfOwner(b, p)
<1>1. b \in book /\ \E c \in author : c.id = b.author /\ (c.path = p.dir \/ c.path = Front(p.dir))
  BY DEF Matches, BooksIn
<1>2. PICK c \in author : c.id = b.author /\ (c.path = p.dir \/ c.path = Front(p.dir))
  BY <1>1
<1>3. PICK d \in Folders : c.path = Append(d, c.name)
  BY DEF AtHome
<1>4. c.name \in Name
  BY DEF Types, Tables, AuthorRows
<1> DEFINE q == Append(d, c.name)
<1>5. p.dir \in Path /\ Len(p.dir) \in Nat /\ d \in Path /\ Len(d) \in Nat
  BY PlaceFields, FolderPaths DEF Path
<1>6. q \in Path /\ Len(q) = Len(d) + 1
  BY <1>4, <1>5 DEF Path
<1>7. Len(q) <= Len(p.dir) /\ \A i \in 1..Len(q) : q[i] = p.dir[i]
  <2>1. CASE c.path = p.dir
    BY <1>3, <1>5, <2>1
  <2>2. CASE c.path = Front(p.dir)
    <3>1. q = SubSeq(p.dir, 1, Len(p.dir) - 1)
      BY <1>3, <2>2 DEF Front
    <3> HIDE DEF q
    <3>2. Len(q) = (IF 1 <= Len(p.dir) - 1 THEN Len(p.dir) - 1 ELSE 0)
      BY <1>5, <3>1 DEF Path
    <3>3. 1 <= Len(p.dir) - 1 /\ Len(q) = Len(p.dir) - 1
      BY <1>5, <1>6, <3>2
    <3>4. \A i \in 1..Len(p.dir) - 1 : q[i] = p.dir[i]
      BY <1>5, <3>1, <3>3 DEF Path
    <3> QED BY <1>5, <3>3, <3>4
  <2> QED BY <1>2, <2>1, <2>2
<1>8. Home(c.name, p)
  BY <1>4, <1>7, AuthorFolder
<1>9. \A a \in author : a.id = b.author => a = c
  BY <1>2 DEF Types, Tables, AuthorRows
<1> QED BY <1>1, <1>8, <1>9 DEF OfOwner

Searching == {"newAuthor", "title", "newBook", "insert"}

LEMMA NothingFiled == ASSUME NEW s \in Scan, scan'[s].pc \notin Searching PROVE FiledBy(s)'
  BY DEF FiledBy, Searching

\* The steps that leave the tables as they are, one file's search apart.
LEMMA WalkAtHome ==
    ASSUME Types, Types', AtHome, NEW s \in Scan,
           \/ \E dir : ScanBegin(s, dir)
           \/ Snapshot(s)
           \/ \E dir \in scan[s].dirs : ReadDir(s, dir) \/ ReadDirFails(s, dir)
           \/ \E p \in scan[s].todo : Visit(s, p)
           \/ Compare(s) \/ ScanEnd(s) \/ ScanAborted(s)
    PROVE  AtHome'
<1> SUFFICES OthersStay(s) /\ UNCHANGED tables /\ scan'[s].pc \notin Searching
  BY NothingFiled, AtHomeReads
<1>1. CASE \E dir : ScanBegin(s, dir)
  BY <1>1, ScanBeginWalk DEF Searching
<1>2. CASE Snapshot(s)
  BY <1>2, SnapshotWalk DEF Searching
<1>3. CASE \E dir \in scan[s].dirs : ReadDir(s, dir) \/ ReadDirFails(s, dir)
  BY <1>3, ReadDirWalk, ReadDirFailsWalk DEF SameFile, Searching
<1>4. ASSUME NEW p \in scan[s].todo, Visit(s, p)
      PROVE  OthersStay(s) /\ UNCHANGED tables /\ scan'[s].pc \notin Searching
  BY <1>4, VisitWalk DEF Searching
<1>5. CASE Compare(s)
  <2> DEFINE q == [scan[s] EXCEPT !.pc = "update"]
  <2>1. Become(s, q) \/ Become(s, BackToWalk(scan[s]))
    BY <1>5 DEF Compare, Reads
  <2>2. q.pc = "update" /\ BackToWalk(scan[s]).pc = "walk"
    BY TheJob, BackToWalkJob DEF JobOk, Job
  <2> HIDE DEF q
  <2> QED BY <1>5, <2>1, <2>2, BecomeSet DEF Compare, Reads, Searching
<1>6. CASE ScanEnd(s) \/ ScanAborted(s)
  BY <1>6, ScanStopsWalk DEF Idle, Searching
<1> QED BY <1>1, <1>2, <1>3, <1>4, <1>5, <1>6

LEMMA SearchAtHome ==
    ASSUME RootsDisjoint, Types, Types', Reached, AtHome, Labelled,
           NEW s \in Scan, Match(s) \/ Discover(s) \/ FindBook(s)
    PROVE  AtHome'
<1> DEFINE r == scan[s]
           q == scan'[s]
<1>1. UNCHANGED tables /\ OthersStay(s) /\ JobOk(r) /\ FiledBy(s) /\ r.pc \in AtFile
  BY TheJob, FileStepWalk DEF Match, Discover, FindBook, Reads, FileStep, AtHome
<1>2. \A b \in book : b.id \in 1..lastId.book /\ \A c \in book : c.id = b.id => c = b
  BY DEF Types, Tables, BookRows
<1>3. \A a \in author : a.id \in 1..lastId.author /\ \A c \in author : c.id = a.id => c = a
  BY DEF Types, Tables, AuthorRows
<1>4. UNCHANGED <<author, book, lastId>>
  BY <1>1 DEF tables
<1>5. CASE Match(s)
  <2> DEFINE new == [r EXCEPT !.pc = "discover"]
             had(b) == [r EXCEPT !.pc = "insert", !.book = b.id]
  <2>1. (\E b \in Matches(r.at) : Become(s, had(b))) \/ Become(s, new)
    BY <1>5 DEF Match, Reads
  <2>2. /\ new.pc = "discover"
        /\ \A b : had(b).pc = "insert" /\ had(b).book = b.id /\ had(b).at = r.at
    BY <1>1 DEF JobOk, Job
  <2>3. r.at \in Place
    BY <1>1 DEF JobOk
  <2> HIDE DEF new, had
  <2>4. CASE Become(s, new)
    BY <1>1, <2>2, <2>4, BecomeSet, NothingFiled, AtHomeReads DEF Searching
  <2>5. ASSUME NEW b \in Matches(r.at), Become(s, had(b)) PROVE AtHome'
    <3>1. b \in book /\ OfOwner(b, r.at)
      BY <2>3, MatchedBook
    <3>2. q.pc = "insert" /\ q.book = b.id /\ q.at = r.at
      BY <2>2, <2>5, BecomeSet
    <3>3. FiledBy(s)'
      BY <1>2, <1>4, <3>1, <3>2 DEF FiledBy, OfOwner
    <3> QED BY <1>1, <3>3, AtHomeReads
  <2> QED BY <2>1, <2>4, <2>5
<1>6. CASE Discover(s)
  <2> DEFINE info == Discovered(r.root, r.at)
             new == [r EXCEPT !.pc = "newAuthor", !.info = info]
             had(a) == [r EXCEPT !.pc = "title", !.info = info, !.author = a.id]
  <2>1. (\E a \in AuthorsNamed(info.author) : Become(s, had(a))) \/ Become(s, new)
    BY <1>6 DEF Discover, Reads
  <2>2. r.root \in Folders /\ Walkable(r.root, r.at) /\ r.at \in Place
    BY <1>1, TheJob DEF Reached, ReachedIn, ReachedBy, JobOk, AtFile
  <2>3. Home(info.author, r.at)
    BY <2>2, DiscoveredAuthor
  <2>4. \A a \in AuthorsNamed(info.author) : a \in author /\ SameName(a.name, info.author)
    BY DEF AuthorsNamed
  <2> HIDE DEF info
  <2>5. new.pc = "newAuthor" /\ new.info = info /\ new.at = r.at
    BY <1>1 DEF JobOk, Job
  <2>6. \A a : had(a).pc = "title" /\ had(a).author = a.id /\ had(a).at = r.at
    BY <1>1 DEF JobOk, Job
  <2> HIDE DEF new, had
  <2>7. CASE Become(s, new)
    <3>1. FiledBy(s)'
      BY <2>3, <2>5, <2>7, BecomeSet DEF FiledBy
    <3> QED BY <1>1, <3>1, AtHomeReads
  <2>8. ASSUME NEW a \in AuthorsNamed(info.author), Become(s, had(a)) PROVE AtHome'
    <3>1. a \in author /\ Home(a.name, r.at)
      BY <2>3, <2>4 DEF Home, SameName
    <3>2. q.pc = "title" /\ q.author = a.id /\ q.at = r.at
      BY <2>6, <2>8, BecomeSet
    <3>3. FiledBy(s)'
      BY <1>3, <1>4, <3>1, <3>2 DEF FiledBy
    <3> QED BY <1>1, <3>3, AtHomeReads
  <2> QED BY <2>1, <2>7, <2>8
<1>7. CASE FindBook(s)
  <2> DEFINE new == [r EXCEPT !.pc = "newBook"]
             had(b) == [r EXCEPT !.pc = "insert", !.book = b.id, !.author = 0, !.info = NoInfo]
  <2>1. (\E b \in BooksTitled(r.author, r.info.title) : Become(s, had(b))) \/ Become(s, new)
    BY <1>7 DEF FindBook, Reads
  <2>2. \A b \in BooksTitled(r.author, r.info.title) : b \in book /\ b.author = r.author
    BY DEF BooksTitled
  <2>3. new.pc = "newBook" /\ new.author = r.author /\ new.at = r.at
    BY <1>1 DEF JobOk, Job
  <2>4. \A b : had(b).pc = "insert" /\ had(b).book = b.id /\ had(b).at = r.at
    BY <1>1 DEF JobOk, Job
  <2>5. r.author \in 1..lastId.author /\ \A a \in author : a.id = r.author => Home(a.name, r.at)
    BY <1>1, <1>7 DEF FindBook, FiledBy
  <2> HIDE DEF new, had
  <2>6. CASE Become(s, new)
    <3>1. FiledBy(s)'
      BY <1>4, <2>3, <2>5, <2>6, BecomeSet DEF FiledBy
    <3> QED BY <1>1, <3>1, AtHomeReads
  <2>7. ASSUME NEW b \in BooksTitled(r.author, r.info.title), Become(s, had(b)) PROVE AtHome'
    <3>1. b \in book /\ OfOwner(b, r.at)
      BY <2>2, <2>5 DEF OfOwner
    <3>2. q.pc = "insert" /\ q.book = b.id /\ q.at = r.at
      BY <2>4, <2>7, BecomeSet
    <3>3. FiledBy(s)'
      BY <1>2, <1>4, <3>1, <3>2 DEF FiledBy, OfOwner
    <3> QED BY <1>1, <3>3, AtHomeReads
  <2> QED BY <2>1, <2>6, <2>7
<1> QED BY <1>5, <1>6, <1>7

LEMMA CreateAuthorAtHome ==
    ASSUME Types, Types', Reached, AtHome, NEW s \in Scan, CreateAuthor(s)
    PROVE  AtHome'
<1> DEFINE r  == scan[s]
           q  == scan'[s]
           id == lastId.author + 1
           a  == [id |-> id, name |-> r.info.author, path |-> Append(r.root, r.info.author)]
           n  == [r EXCEPT !.pc = "title", !.author = id]
<1>1. /\ author' = author \cup {a} /\ lastId' = [lastId EXCEPT !.author = id] /\ Become(s, n)
      /\ UNCHANGED <<book, file>> /\ r.pc = "newAuthor" /\ JobOk(r) /\ FiledBy(s)
  BY TheJob DEF CreateAuthor, AtHome
<1>2. n.pc = "title" /\ n.author = id /\ n.at = r.at
  BY <1>1 DEF JobOk, Job
<1>3. a.id = id /\ a.name = r.info.author /\ a.path = Append(r.root, r.info.author)
  OBVIOUS
<1>4. lastId.author \in Nat /\ lastId'.author = id /\ lastId'.book = lastId.book /\ lastId.book \in Nat
  BY <1>1 DEF Types, Tables, Counters
<1>5. r.root \in Folders /\ Home(r.info.author, r.at)
  BY <1>1 DEF Reached, ReachedIn, ReachedBy, FiledBy
<1> HIDE DEF n, a
<1>6. scan'[s] = n /\ OthersStay(s)
  BY <1>1, BecomeSet
<1>7. FreshRows
  BY <1>1, <1>3, <1>4 DEF FreshRows
<1>8. \A b \in author : b.id \in 1..lastId.author
  BY DEF Types, Tables, AuthorRows
<1>9. \A b \in author' : b.id = id => b = a
  BY <1>1, <1>4, <1>8
<1>10. FiledBy(s)'
  BY <1>2, <1>3, <1>4, <1>5, <1>6, <1>9 DEF FiledBy
<1>11. ASSUME NEW t \in Scan PROVE FiledBy(t)'
  <2>1. CASE t = s
    BY <1>10, <2>1
  <2>2. CASE t # s
    BY <1>6, <1>7, <2>2, FiledByOther DEF AtHome, OthersStay, SameFile
  <2> QED BY <2>1, <2>2
<1>12. \A b \in author' : b \in author \/ \E d \in Folders : b.path = Append(d, b.name)
  BY <1>1, <1>3, <1>5
<1>13. \A f \in file : f.book \in {b.id : b \in book}
  BY DEF Types, Tables, FileRows
<1> QED BY <1>1, <1>7, <1>11, <1>12, <1>13, AtHomeFrame

LEMMA CreateBookAtHome ==
    ASSUME Types, Types', AtHome, NEW s \in Scan, CreateBook(s)
    PROVE  AtHome'
<1> DEFINE r  == scan[s]
           q  == scan'[s]
           id == lastId.book + 1
           b  == [id |-> id, author |-> r.author, title |-> r.info.title]
           n  == [r EXCEPT !.pc = "insert", !.book = id, !.author = 0, !.info = NoInfo]
<1>1. /\ UNCHANGED <<author, file>> /\ r.pc = "newBook" /\ JobOk(r) /\ FiledBy(s)
  BY TheJob DEF CreateBook, AtHome
<1>2. \A f \in file : f.book \in {c.id : c \in book}
  BY DEF Types, Tables, FileRows
<1>3. CASE \E a \in author : a.id = r.author
  <2>1. book' = book \cup {b} /\ lastId' = [lastId EXCEPT !.book = id] /\ Become(s, n)
    BY <1>3 DEF CreateBook
  <2>2. n.pc = "insert" /\ n.book = id /\ n.at = r.at /\ b.id = id /\ b.author = r.author
    BY <1>1 DEF JobOk, Job
  <2>3. lastId.author \in Nat /\ lastId'.author = lastId.author /\ lastId'.book = id /\ lastId.book \in Nat
    BY <2>1 DEF Types, Tables, Counters
  <2> HIDE DEF n, b
  <2>4. scan'[s] = n /\ OthersStay(s)
    BY <2>1, BecomeSet
  <2>5. FreshRows
    BY <1>1, <2>1, <2>2, <2>3 DEF FreshRows
  <2>6. \A c \in book : c.id \in 1..lastId.book
    BY DEF Types, Tables, BookRows
  <2>7. \A c \in book' : c.id = id => c = b
    BY <2>1, <2>3, <2>6
  <2>8. \A a \in author : a.id = r.author => Home(a.name, r.at)
    BY <1>1 DEF FiledBy
  <2>9. FiledBy(s)'
    BY <1>1, <2>2, <2>3, <2>4, <2>7, <2>8 DEF FiledBy, OfOwner
  <2>10. ASSUME NEW t \in Scan PROVE FiledBy(t)'
    <3>1. CASE t = s
      BY <2>9, <3>1
    <3>2. CASE t # s
      BY <2>4, <2>5, <3>2, FiledByOther DEF AtHome, OthersStay, SameFile
    <3> QED BY <3>1, <3>2
  <2> QED BY <1>1, <1>2, <2>5, <2>10, AtHomeFrame
<1>4. CASE ~\E a \in author : a.id = r.author
  <2>1. Become(s, BackToWalk(r)) /\ UNCHANGED tables
    BY <1>4 DEF CreateBook, tables
  <2>2. scan'[s].pc = "walk" /\ OthersStay(s)
    BY <1>1, <2>1, BackToWalkJob, BecomeSet
  <2> QED BY <2>1, <2>2, NothingFiled, AtHomeReads DEF Searching
<1> QED BY <1>3, <1>4

LEMMA FilesAtHome ==
    ASSUME Types, Types', AtHome, NEW s \in Scan,
           \/ UpdateFile(s) \/ AddFile(s)
           \/ \E p \in scan[s].existing : RemoveRow(s, p)
    PROVE  AtHome'
<1> DEFINE r == scan[s]
<1>1. JobOk(r) /\ FiledBy(s) /\ UNCHANGED <<author, book, lastId>>
  BY TheJob DEF UpdateFile, AddFile, RemoveRow, AtHome
<1>2. FreshRows
  BY <1>1, SameRowsFresh
<1>3. OthersStay(s) /\ scan'[s].pc = "walk"
  <2>1. CASE \E p \in scan[s].existing : RemoveRow(s, p)
    BY <2>1, RemoveRowWalk DEF SameFile
  <2>2. CASE UpdateFile(s) \/ AddFile(s)
    BY <1>1, <2>2, BecomeSet, BackToWalkJob DEF UpdateFile, AddFile
  <2> QED BY <2>1, <2>2
<1>4. ASSUME NEW t \in Scan PROVE FiledBy(t)'
  <2>1. CASE t = s
    BY <1>3, <2>1, NothingFiled DEF Searching
  <2>2. CASE t # s
    BY <1>2, <1>3, <2>2, FiledByOther DEF AtHome, OthersStay, SameFile
  <2> QED BY <2>1, <2>2
<1>5. \A f \in file' : \/ \E g \in file : g.place = f.place /\ g.book = f.book
                       \/ \A b \in book : b.id = f.book => OfOwner(b, f.place)
  <2>1. CASE UpdateFile(s)
    <3> DEFINE new(f) == IF f.place = r.at THEN [f EXCEPT !.size = r.size] ELSE f
    <3>1. file' = {new(f) : f \in file}
      BY <2>1 DEF UpdateFile
    <3>2. \A f \in file : new(f).place = f.place /\ new(f).book = f.book
      BY DEF Types, Tables, FileRows
    <3> HIDE DEF new
    <3> QED BY <3>1, <3>2
  <2>2. CASE AddFile(s)
    <3>1. \A b \in book : b.id = r.book => OfOwner(b, r.at)
      BY <1>1, <2>2 DEF AddFile, FiledBy
    <3>2. file' \subseteq file \cup {[place |-> r.at, book |-> r.book, size |-> r.size]}
      BY <2>2 DEF AddFile
    <3> QED BY <3>1, <3>2
  <2>3. CASE \E p \in scan[s].existing : RemoveRow(s, p)
    BY <2>3 DEF RemoveRow
  <2> QED BY <2>1, <2>2, <2>3
<1>6. \A f \in file' : f.book \in {b.id : b \in book}
  BY <1>1 DEF Types, Tables, FileRows
<1> QED BY <1>1, <1>2, <1>4, <1>5, <1>6, AtHomeFrame

LEMMA ScanStepAtHome ==
    ASSUME RootsDisjoint, Types, Types', Reached, AtHome, Labelled, NEW s \in Scan, ScanStep(s)
    PROVE  AtHome'
  BY WalkAtHome, SearchAtHome, CreateAuthorAtHome, CreateBookAtHome, FilesAtHome DEF ScanStep

\* Nothing the user does files anything elsewhere.
LEMMA UserAtHome ==
    ASSUME Types, Types', AtHome, User
    PROVE  AtHome'
<1>1. ASSUME NEW id, DeleteAuthor(id) PROVE AtHome'
  <2>1. /\ author' \subseteq author /\ book' \subseteq book /\ file' \subseteq file
        /\ UNCHANGED <<lastId, scan>>
    BY <1>1 DEF DeleteAuthor, DeleteAuthorRow
  <2>2. FreshRows
    BY <2>1 DEF FreshRows, Types, Tables, Counters
  <2>3. \A t \in Scan : FiledBy(t)'
    BY <2>1, <2>2, FiledByOther DEF SameFile, AtHome
  <2>4. \A f \in file' : f.book \in {b.id : b \in book}
    BY <2>1 DEF Types, Tables, FileRows
  <2> QED BY <2>1, <2>2, <2>3, <2>4, AtHomeFrame
<1>2. ASSUME NEW d, DiskBecomes(d), UNCHANGED tables PROVE AtHome'
  <2>1. FreshRows
    BY <1>2, SameRowsFresh DEF tables
  <2>2. \A t \in Scan : FiledBy(t)'
    BY <1>2, <2>1, FiledByOther, DiskWalk DEF AtHome
  <2>3. \A f \in file : f.book \in {b.id : b \in book}
    BY DEF Types, Tables, FileRows
  <2> QED BY <1>2, <2>1, <2>2, <2>3, AtHomeFrame DEF tables
<1>3. (\E d : DiskBecomes(d) /\ UNCHANGED tables) \/ (\E id : DeleteAuthor(id))
  BY DEF User, FileChanges, DeleteAuthorFiles
<1> QED BY <1>1, <1>2, <1>3

LEMMA AtHomeNext ==
    ASSUME RootsDisjoint, Types, Types', Reached, AtHome, Labelled, [Next]_scanVars
    PROVE  AtHome'
<1>1. CASE \E s \in Scan : ScanStep(s)
  BY <1>1, ScanStepAtHome
<1>2. CASE User
  BY <1>2, UserAtHome
<1>3. CASE UNCHANGED scanVars
  BY <1>3 DEF scanVars, tables, AtHome, FiledBy, OfOwner, Home
<1> QED BY <1>1, <1>2, <1>3 DEF Next

LEMMA FiledFromHome ==
    ASSUME Types, Reached, AtHome
    PROVE  FiledUnderItsFolder
<1> SUFFICES ASSUME NEW f \in file, NEW r \in root, Under(r.path, f.place), f.place.dir # r.path
             PROVE  \E b \in book, a \in author :
                        /\ b.id = f.book /\ a.id = b.author
                        /\ SameName(a.name, Within(r.path, f.place)[1])
  BY DEF FiledUnderItsFolder
<1>1. f.place \in Place /\ f.book \in {b.id : b \in book}
  BY DEF Types, Tables, FileRows
<1>2. PICK b \in book : b.id = f.book
  BY <1>1
<1>3. PICK a \in author : a.id = b.author
  BY DEF Types, Tables, BookRows
<1>4. r.path \in Folders /\ r.path \in Path
  BY FolderPaths DEF Reached, ReachedIn
<1>5. Home(a.name, f.place)
  BY <1>2, <1>3 DEF AtHome, OfOwner
<1>6. SameName(a.name, f.place.dir[Len(r.path) + 1])
  BY <1>4, <1>5 DEF Home
<1>7. Within(r.path, f.place)[1] = f.place.dir[Len(r.path) + 1]
  BY <1>1, <1>4, FirstWithin
<1> QED BY <1>2, <1>3, <1>6, <1>7

\* discoverBookFromFile and matchFileToBook: whichever scans come and go, side by
\* side and with authors deleted between their statements, a file in an author's
\* folder belongs to a book of that author, as long as no root lies in another,
\* only roots are scanned and the files' own metadata name nobody else.
THEOREM FiledAtHome ==
    ASSUME ~AuthorScans, RootsDisjoint
    PROVE  Spec /\ []Labelled => []FiledUnderItsFolder
<1>1. Spec => []Reached
  BY ReachedInit, ReachedNext, TypesAlways, PTL DEF Spec
<1>2. Init => AtHome
  BY DEF Init, AtHome, FiledBy, Idle
<1>3. Types /\ Types' /\ Reached /\ AtHome /\ Labelled /\ [Next]_scanVars => AtHome'
  BY AtHomeNext
<1>4. Types /\ Reached /\ AtHome => FiledUnderItsFolder
  BY FiledFromHome
<1> QED BY <1>1, <1>2, <1>3, <1>4, TypesAlways, PTL DEF Spec
=============================================================================
