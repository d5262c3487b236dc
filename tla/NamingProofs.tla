------------------------------ MODULE NamingProofs ------------------------------
(***************************************************************************)
(* The catalog and the names of its files for any number of requests,      *)
(* authors, books, names, templates and faults. The invariant speaks of    *)
(* the tables (CatOk), the settings (SavesOk) and the disk (the rest). The *)
(* conjuncts about the disk need only CatalogStep of a catalog's request.  *)
(***************************************************************************)
EXTENDS Naming, FiniteSetTheorems, SequenceTheorems, TLAPS

Names == Name \cup {""}
Titles == Title \cup {""}
State == {"free", "row", "gone"}
AuthorRow == [st : State, name : Names, fid : ForeignId \cup {"", "null"}]
BookRow == [st : State, author : Nat, title : Titles, fid : ForeignId \cup {"", "null"},
            wish : BOOLEAN]
CatPC == {"idle", "byFid", "byName", "insert", "refindFid", "refindName", "reread",
          "bookFid", "bookAuthor", "bookInsert", "wishName", "wish", "unwish", "drop", "purge"}
Process == [pc : CatPC, kind : {"none", "author", "book", "wish"}, id : Nat, name : Names,
            fid : ForeignId \cup {""}, title : Titles, bfid : ForeignId \cup {""},
            wish : BOOLEAN]

Path == [dir : Names \cup {"books"}, name : Seq(Names \cup Titles)]
Settings == [folder : FolderFormat, file : FileFormat]
Move == [of : BookId, from : Path, to : Path]
Job == [pc : {"idle", "saveFolder", "saveFile", "rows", "move", "row"}, cfg : Settings,
        todo : Seq(Move)]

CatTypes ==
    /\ author \in [AuthorId -> AuthorRow] /\ book \in [BookId -> BookRow]
    /\ file \in [BookId -> Path] /\ proc \in [Proc -> Process]

\* A book has an author, and only a book has a file.
RowsOk ==
    /\ \A b \in Books : book[b].author \in Authors
    /\ \A b \in BookId \ Books : file[b] = NoFile

\* Who is about to insert a name has seen none of it, or it may be shared.
Inserting(p) == proc[p].pc = "insert"
InsertsOk ==
    /\ \A p \in Proc : Inserting(p) =>
        Named(proc[p].name) = {} \/ proc[p].name \in shared
    /\ \A p, q \in Proc : Inserting(p) /\ Inserting(q) /\ proc[p].name = proc[q].name =>
        p = q \/ proc[p].name \in shared

CatOk == CatTypes /\ RowsOk /\ InsertsOk /\ NoTwins

\* One request saves, and what it has not written yet is all that is missing.
SavesOk ==
    /\ mixed \in BOOLEAN
    /\ ~mixed =>
        /\ \A p, q \in Saving : p = q
        /\ \A p \in Saving : /\ job[p].cfg = asked
                             /\ job[p].pc = "saveFile" => config.folder = asked.folder
        /\ Saving = {} => config = asked

NameTypes ==
    /\ config \in Settings /\ asked \in Settings /\ formats \subseteq Settings
    /\ disk \subseteq [at : Path, of : BookId] /\ job \in [Proc -> Job]
    /\ held \subseteq [of : BookId, name : Names, title : Titles]

\* Every path a book's file is at, was at or is on its way to is one that a
\* name the book has had and templates that were stored make.
Known(b) == {Format(s, h.name, h.title) : s \in formats, h \in {x \in held : x.of = b}}

Renaming(p) == job[p].pc \in {"rows", "move", "row"}
MoveOk(i) ==
    /\ i.from \in Known(i.of) /\ i.to \in Known(i.of)
    /\ book[i.of].st # "free"
    /\ i.of \in Books => file[i.of] # NoFile
TodoOk(p) == job[p].pc \in {"move", "row"} =>
    job[p].todo # <<>> /\ \A k \in DOMAIN job[p].todo : MoveOk(job[p].todo[k])
HistoryOk ==
    /\ config \in formats
    /\ \A b \in Books : [of |-> b, name |-> NameOf(b), title |-> book[b].title] \in held
    /\ \A b \in Books : file[b] # NoFile => file[b] \in Known(b)
    /\ \A p \in Proc : Renaming(p) => job[p].cfg \in formats
    /\ \A p \in Proc : TodoOk(p)

\* A place has one file, a content is in one place, and a book that shares no
\* path with another has its places for itself.
DiskOk ==
    /\ \A d, e \in disk : d.at = e.at \/ d.of = e.of => d = e
    /\ \A d \in disk : \E b \in BookId : d.at \in Known(b)
    /\ \A d \in disk, b \in BookId : Alone(b) => (d.of = b <=> d.at \in Known(b))

Entry(path, b) == [at |-> path, of |-> b]
Mover(b) == {p \in Proc : job[p].pc = "row" /\ Item(p).of = b}

\* The row says where the file is, or where its one mover took it from.
RowOk(b) ==
    /\ Mover(b) = {} => Entry(file[b], b) \in disk
    /\ \A p \in Mover(b) : file[b] = Item(p).from /\ Entry(Item(p).to, b) \in disk
    /\ \A p, q \in Mover(b) : p = q
RowsFollow ==
    \A b \in BookId : Alone(b) /\ b \notin torn \cup wiped /\ file[b] # NoFile => RowOk(b)

IInv ==
    /\ CatOk /\ SavesOk /\ NameTypes /\ HistoryOk /\ DiskOk /\ RowsFollow
    /\ RenameKeepsContents

-----------------------------------------------------------------------------
(* Lemmas on paths and the first state. *)

LEMMA FormatIsPath ==
    ASSUME NEW s \in Settings, NEW n \in Names, NEW t \in Titles
    PROVE  Format(s, n, t) \in Path /\ Format(s, n, t) # NoFile
<1>1. <<t>> \in Seq(Names \cup Titles) /\ <<n, t>> \in Seq(Names \cup Titles)
  OBVIOUS
<1>2. <<t>> # <<>> /\ <<n, t>> # <<>>
  OBVIOUS
<1>3. n \in Names \cup {"books"} /\ "books" \in Names \cup {"books"}
  OBVIOUS
<1> QED BY <1>1, <1>2, <1>3 DEF Format, Path, NoFile

LEMMA NoFileIsPath == NoFile \in Path
<1>1. <<>> \in Seq(Names \cup Titles)
  OBVIOUS
<1> QED BY <1>1 DEF NoFile, Path, Names

LEMMA UpTo ==
    ASSUME NEW n \in Nat, NEW S, S \subseteq Nat \ {0}
    PROVE  \A i \in S : i \in 1 .. n <=> ~(i > n)
OBVIOUS

LEMMA FirstOk == Init => IInv
<1> SUFFICES ASSUME Init PROVE IInv
  OBVIOUS
<1> DEFINE n == Len(Shelf)
<1> USE CatalogConstantsOK, NamingConstantsOK
<1>1. /\ n \in Nat /\ 1 .. n \subseteq AuthorId /\ 1 .. n \subseteq BookId
      /\ \A i \in 1 .. n : Shelf[i] \in [name : Name, title : Title]
  <2>1. Shelf \in Seq([name : Name, title : Title]) /\ 1 .. n \subseteq AuthorId \cap BookId
    OBVIOUS
  <2>2. n \in Nat /\ \A i \in 1 .. n : Shelf[i] \in [name : Name, title : Title]
    BY <2>1, LenProperties, ElementOfSeq
  <2> QED BY <2>1, <2>2
<1>2. /\ author = [a \in AuthorId |->
            IF a > n THEN NoAuthor ELSE [st |-> "row", name |-> Shelf[a].name, fid |-> "null"]]
      /\ book = [b \in BookId |->
            IF b > n THEN NoBook ELSE [st |-> "row", author |-> b, title |-> Shelf[b].title,
                                       fid |-> "null", wish |-> FALSE]]
      /\ file = [b \in BookId |-> IF b > n THEN NoFile ELSE FirstPath(b)]
      /\ proc = [p \in Proc |-> Idle]
  <2>1. \A b \in 1 .. n : [i \in 1 .. Len(Shelf) |-> FirstPath(i)][b] = FirstPath(b)
    OBVIOUS
  <2>2. \A b \in BookId : ~(b > n) => b \in 1 .. n
    BY <1>1
  <2>3. CatInit([i \in 1 .. Len(Shelf) |-> FirstPath(i)])
    BY DEF Init
  <2>4. file = [b \in BookId |-> IF b > n THEN NoFile
                                 ELSE [i \in 1 .. Len(Shelf) |-> FirstPath(i)][b]]
    BY <2>3 DEF CatInit
  <2>5. file = [b \in BookId |-> IF b > n THEN NoFile ELSE FirstPath(b)]
    BY <2>1, <2>2, <2>4
  <2>6. /\ author = [a \in AuthorId |->
              IF a > n THEN NoAuthor ELSE [st |-> "row", name |-> Shelf[a].name, fid |-> "null"]]
        /\ book = [b \in BookId |->
              IF b > n THEN NoBook ELSE [st |-> "row", author |-> b, title |-> Shelf[b].title,
                                         fid |-> "null", wish |-> FALSE]]
        /\ proc = [p \in Proc |-> Idle]
    BY <2>3 DEF CatInit
  <2> QED BY <2>5, <2>6
<1>3. /\ \A a \in AuthorId : a \in 1 .. n <=> ~(a > n)
      /\ \A b \in BookId : b \in 1 .. n <=> ~(b > n)
  BY <1>1, UpTo
<1>4. Books = 1 .. n /\ Authors = 1 .. n
  <2>1. \A b \in BookId : book[b].st = "row" <=> b \in 1 .. n
    BY <1>2, <1>3 DEF NoBook
  <2>2. \A a \in AuthorId : author[a].st = "row" <=> a \in 1 .. n
    BY <1>2, <1>3 DEF NoAuthor
  <2> QED BY <1>1, <2>1, <2>2 DEF Books, Authors
<1>5. \A i \in 1 .. n : FirstPath(i) \in Path /\ FirstPath(i) # NoFile
  BY <1>1, FormatIsPath DEF FirstPath, Settings, Names, Titles
<1>6. CatTypes
  <2>1. Idle \in Process
    BY DEF Idle, Process, CatPC, Names, Titles
  <2>2. author \in [AuthorId -> AuthorRow]
    BY <1>1, <1>2, <1>3 DEF NoAuthor, AuthorRow, State, Names
  <2>3. book \in [BookId -> BookRow]
    BY <1>1, <1>2, <1>3 DEF NoBook, BookRow, State, Titles
  <2>4. file \in [BookId -> Path]
    BY <1>2, <1>3, <1>5, NoFileIsPath
  <2> QED BY <1>2, <2>1, <2>2, <2>3, <2>4 DEF CatTypes
<1>7. CatOk
  <2>1. RowsOk
    BY <1>1, <1>2, <1>3, <1>4 DEF RowsOk
  <2>2. InsertsOk
    BY <1>2 DEF InsertsOk, Inserting, Idle
  <2>3. NoTwins
    BY <1>1, <1>2, <1>3, <1>4 DEF NoTwins
  <2> QED BY <1>2, <1>6, <2>1, <2>2, <2>3 DEF CatOk
<1>8. job = [p \in Proc |-> NoWork] /\ config = Defaults /\ asked = Defaults /\ mixed = FALSE
      /\ formats = {Defaults}
      /\ disk = {Entry(FirstPath(b), b) : b \in 1 .. n}
      /\ held = {[of |-> b, name |-> Shelf[b].name, title |-> Shelf[b].title] : b \in 1 .. n}
      /\ \A b \in 1 .. n : NameOf(b) = Shelf[b].name /\ book[b].title = Shelf[b].title
  <2>1. \A b \in 1 .. n : NameOf(b) = Shelf[b].name /\ book[b].title = Shelf[b].title
                          /\ file[b] = FirstPath(b)
    BY <1>1, <1>2, <1>3 DEF NameOf
  <2> QED BY SMTT(30), <1>4, <2>1 DEF Init, Entry
<1>9. SavesOk
  BY <1>8 DEF SavesOk, Saving, NoWork
<1>10. NameTypes
  <2>1. NoWork \in Job
    <3>1. <<>> \in Seq(Move)
      OBVIOUS
    <3> QED BY <3>1 DEF NoWork, Job, Settings
  <2>2. disk \subseteq [at : Path, of : BookId]
    BY <1>1, <1>5, <1>8 DEF Entry
  <2>3. held \subseteq [of : BookId, name : Names, title : Titles]
    <3> SUFFICES ASSUME NEW b \in 1 .. n
                 PROVE  [of |-> b, name |-> Shelf[b].name, title |-> Shelf[b].title]
                            \in [of : BookId, name : Names, title : Titles]
      BY <1>8
    <3> QED BY <1>1 DEF Names, Titles
  <2> QED BY <1>8, <2>1, <2>2, <2>3 DEF NameTypes, Settings
<1>11. \A b \in BookId : \A path : path \in Known(b) <=> b \in 1 .. n /\ path = FirstPath(b)
  <2> SUFFICES ASSUME NEW b \in BookId, NEW path
               PROVE  path \in Known(b) <=> b \in 1 .. n /\ path = FirstPath(b)
    OBVIOUS
  <2>1. \A h \in held : h.of = b <=> b \in 1 .. n /\ h = [of |-> b, name |-> Shelf[b].name, title |-> Shelf[b].title]
    BY <1>8
  <2>2. b \in 1 .. n => [of |-> b, name |-> Shelf[b].name, title |-> Shelf[b].title] \in held
    BY <1>8
  <2> QED BY <1>8, <2>1, <2>2 DEF Known, FirstPath
<1>12. \A b \in 1 .. n : file[b] = FirstPath(b)
  BY <1>1, <1>2, <1>3
<1>13. \A b \in BookId \ 1 .. n : file[b] = NoFile
  BY <1>2, <1>3
<1>14. HistoryOk
  BY <1>1, <1>4, <1>8, <1>11, <1>12 DEF HistoryOk, TodoOk, Renaming, NoWork
<1>15. DiskOk
  BY <1>1, <1>8, <1>11 DEF DiskOk, Entry
<1>16. RowsFollow
  BY <1>8, <1>12, <1>13 DEF RowsFollow, RowOk, Mover, NoWork, Entry
<1>17. RenameKeepsContents
  <2> SUFFICES ASSUME NEW b \in 1 .. n PROVE b \in Contents
    BY DEF RenameKeepsContents
  <2>1. Entry(FirstPath(b), b) \in disk /\ Entry(FirstPath(b), b).of = b
    BY <1>8 DEF Entry
  <2> QED BY <2>1 DEF Contents
<1> QED BY <1>7, <1>9, <1>10, <1>14, <1>15, <1>16, <1>17 DEF IInv

-----------------------------------------------------------------------------
(* The tables. A step for the catalog keeps CatOk and, as far as the disk   *)
(* and the rename jobs are concerned, only makes books, or deletes them     *)
(* with their files.                                                        *)

CatalogStep ==
    /\ \A b \in BookId : book[b].st # "free" => book'[b].st # "free"
    /\ \A b \in Books' : b \in Books \/ book[b].st = "free"
    /\ \A b \in BookId : file'[b] = file[b] \/ (file'[b] = NoFile /\ b \notin Books')
CatStepOk == CatOk' /\ CatalogStep

\* Steps that change no table.
LEMMA ProcStep ==
    ASSUME CatOk, NEW p \in Proc, NEW r \in Process, proc' = [proc EXCEPT ![p] = r],
           author' = author, book' = book, file' = file,
           shared \subseteq shared',
           r.pc = "insert" =>
               /\ Named(r.name) = {}
               /\ \A q \in Proc \ {p} : Inserting(q) /\ proc[q].name = r.name => r.name \in shared'
    PROVE  CatStepOk
<1>1. CatTypes'
  BY DEF CatOk, CatTypes
<1>2. Books' = Books /\ Authors' = Authors /\ \A n : Named(n)' = Named(n)
  BY DEF Books, Authors, Named
<1>3. RowsOk'
  BY <1>2 DEF CatOk, RowsOk
<1>4. proc'[p] = r /\ \A q \in Proc \ {p} : proc'[q] = proc[q]
  BY DEF CatOk, CatTypes
<1>5. InsertsOk'
  <2>1. ASSUME NEW q \in Proc, Inserting(q)'
        PROVE  Named(proc'[q].name) = {} \/ proc'[q].name \in shared'
    BY <1>4, <2>1 DEF CatOk, InsertsOk, Inserting
  <2>2. ASSUME NEW q \in Proc, NEW s \in Proc, Inserting(q)', Inserting(s)',
               proc'[q].name = proc'[s].name, q # s
        PROVE  proc'[q].name \in shared'
    <3>1. CASE q = p
      BY <1>4, <2>2, <3>1 DEF Inserting
    <3>2. CASE s = p
      BY <1>4, <2>2, <3>2 DEF Inserting
    <3>3. CASE q # p /\ s # p
      BY <1>4, <2>2, <3>3 DEF Inserting, CatOk, InsertsOk
    <3> QED BY <3>1, <3>2, <3>3
  <2> QED BY <1>2, <2>1, <2>2 DEF InsertsOk
<1>7. NoTwins'
  BY <1>2 DEF CatOk, NoTwins
<1>8. CatalogStep
  BY <1>2 DEF CatalogStep
<1> QED BY <1>1, <1>3, <1>5, <1>7, <1>8 DEF CatStepOk, CatOk

\* What a request becomes is one of Process.
Turns(p, pcs) == \E r \in Process : proc' = [proc EXCEPT ![p] = r] /\ r.pc \in pcs

LEMMA Becoming ==
    ASSUME CatTypes, NEW p \in Proc
    PROVE  /\ Return(p) => Turns(p, {"idle"})
           /\ \A pc \in CatPC : Goto(p, pc) => Turns(p, {pc})
           /\ \A a \in Nat : Found(p, a) => Turns(p, {"reread"})
           /\ \A pc \in CatPC, a \in Nat :
                Become(p, [proc[p] EXCEPT !.pc = pc, !.id = a]) => Turns(p, {pc})
           /\ \A pc \in CatPC, a \in Nat :
                Become(p, [Idle EXCEPT !.pc = pc, !.id = a]) => Turns(p, {pc})
<1>1. proc[p] \in Process /\ "reread" \in CatPC /\ "idle" \in CatPC
  BY DEF CatTypes, CatPC
<1>2. Idle \in Process /\ Idle.pc = "idle"
  BY DEF Idle, Process, CatPC, Names, Titles
<1>3. ASSUME NEW pc \in CatPC, Goto(p, pc)
      PROVE  Turns(p, {pc})
  <2> DEFINE r == [proc[p] EXCEPT !.pc = pc]
  <2>1. r \in Process /\ r.pc = pc
    BY <1>1 DEF Process
  <2>2. proc' = [proc EXCEPT ![p] = r]
    BY <1>3 DEF Goto, CatTypes
  <2> QED BY <2>1, <2>2 DEF Turns
<1>4. ASSUME NEW old \in Process, NEW pc \in CatPC, NEW a \in Nat,
             Become(p, [old EXCEPT !.pc = pc, !.id = a])
      PROVE  Turns(p, {pc})
  <2> DEFINE r == [old EXCEPT !.pc = pc, !.id = a]
  <2>1. r \in Process /\ r.pc = pc
    BY DEF Process
  <2> QED BY <1>4, <2>1 DEF Turns, Become
<1>5. \A a \in Nat : Found(p, a) => Turns(p, {"reread"})
  BY <1>1, <1>4 DEF Found
<1>6. Return(p) => Turns(p, {"idle"})
  BY <1>2 DEF Return, Become, Turns
<1>7. /\ \A pc \in CatPC, a \in Nat :
           Become(p, [proc[p] EXCEPT !.pc = pc, !.id = a]) => Turns(p, {pc})
      /\ \A pc \in CatPC, a \in Nat :
           Become(p, [Idle EXCEPT !.pc = pc, !.id = a]) => Turns(p, {pc})
  BY <1>1, <1>2, <1>4
<1> QED BY <1>3, <1>5, <1>6, <1>7

LEMMA TurnStep ==
    ASSUME CatOk, NEW p \in Proc, Turns(p, CatPC \ {"insert"}),
           UNCHANGEDrows, shared \subseteq shared'
    PROVE  CatStepOk
<1>1. PICK r \in Process : proc' = [proc EXCEPT ![p] = r] /\ r.pc \notin {"insert"}
  BY DEF Turns
<1> QED BY <1>1, ProcStep DEF UNCHANGEDrows

LEMMA FindSteps ==
    ASSUME CatOk, NEW p \in Proc,
           FindByForeignID(p) \/ FindByName(p) \/ FindAgain(p) \/ Reread(p)
           \/ WishName(p) \/ FindBook(p) \/ CheckAuthor(p)
    PROVE  CatStepOk
<1> USE CatalogConstantsOK
<1> DEFINE On == Turns(p, CatPC \ {"insert"})
<1>1. CatTypes
  BY DEF CatOk
<1>2. /\ Authors \subseteq Nat /\ Books \subseteq Nat
      /\ \A n : Named(n) \subseteq Nat
  BY DEF Authors, Books, Named
<1>3. BookPc(p) \in {"bookFid", "bookAuthor"}
  BY DEF BookPc
<1>4. \A pc \in CatPC \ {"insert"} : Turns(p, {pc}) => On
  BY DEF Turns
<1>5. /\ Return(p) => On
      /\ \A pc \in CatPC \ {"insert"} : Goto(p, pc) => On
      /\ \A a \in Nat : Found(p, a) => On
      /\ \A pc \in CatPC \ {"insert"}, a \in Nat :
            Become(p, [proc[p] EXCEPT !.pc = pc, !.id = a]) => On
      /\ \A pc \in CatPC \ {"insert"}, a \in Nat :
            Become(p, [Idle EXCEPT !.pc = pc, !.id = a]) => On
  <2>1. {"idle", "reread"} \subseteq CatPC \ {"insert"}
    BY DEF CatPC
  <2> QED BY <1>1, <1>4, <2>1, Becoming
<1>6. {"byName", "refindName", "bookFid", "bookAuthor", "bookInsert", "wish"}
        \subseteq CatPC \ {"insert"}
  BY DEF CatPC
<1> HIDE DEF On
<1>7. CASE FindByForeignID(p)
  <2>1. On
    BY <1>2, <1>5, <1>6, <1>7 DEF FindByForeignID
  <2> QED BY <1>7, <2>1, TurnStep DEF FindByForeignID, On
<1>8. CASE FindByName(p)
  <2>1. CASE \E a \in Named(proc[p].name) : Found(p, a) /\ UNCHANGED shared
    <3>1. On
      BY <1>2, <1>5, <2>1
    <3> QED BY <1>8, <2>1, <3>1, TurnStep DEF FindByName, On
  <2>2. CASE NotNamed(p)
    <3> DEFINE r == [proc[p] EXCEPT !.pc = "insert"]
    <3>1. r \in Process /\ r.pc = "insert" /\ r.name = proc[p].name /\ proc' = [proc EXCEPT ![p] = r]
      <4>1. proc[p] \in Process
        BY <1>1 DEF CatTypes
      <4>2. r \in Process /\ r.pc = "insert" /\ r.name = proc[p].name
        BY <4>1 DEF CatPC, Process
      <4> QED BY <1>1, <2>2, <4>2 DEF NotNamed, Goto, CatTypes
    <3>2. \A q \in Proc \ {p} : Inserting(q) /\ proc[q].name = r.name => r.name \in shared'
      BY <2>2, <3>1 DEF NotNamed, Inserting
    <3>3. shared \subseteq shared' /\ Named(r.name) = {}
      BY <2>2, <3>1 DEF NotNamed
    <3> HIDE DEF r
    <3> QED BY <1>8, <3>1, <3>2, <3>3, ProcStep DEF FindByName, UNCHANGEDrows
  <2>3. (\E a \in Named(proc[p].name) : Found(p, a) /\ UNCHANGED shared) \/ NotNamed(p)
    BY <1>8 DEF FindByName
  <2> QED BY <2>1, <2>2, <2>3
<1>9. CASE FindAgain(p)
  <2>1. On
    BY <1>2, <1>5, <1>9 DEF FindAgain
  <2> QED BY <1>9, <2>1, TurnStep DEF FindAgain, On
<1>10. CASE Reread(p) \/ CheckAuthor(p)
  <2>1. On
    BY <1>3, <1>5, <1>6, <1>10 DEF Reread, CheckAuthor
  <2> QED BY <1>10, <2>1, TurnStep DEF Reread, CheckAuthor, On
<1>11. CASE WishName(p)
  <2>1. On
    BY <1>2, <1>3, <1>5, <1>6, <1>11 DEF WishName
  <2> QED BY <1>11, <2>1, TurnStep DEF WishName, On
<1>12. CASE FindBook(p)
  <2>1. On
    BY <1>2, <1>5, <1>6, <1>12 DEF FindBook
  <2> QED BY <1>12, <2>1, TurnStep DEF FindBook, On
<1> QED BY <1>7, <1>8, <1>9, <1>10, <1>11, <1>12

LEMMA BeginSteps ==
    ASSUME CatOk, NEW p \in Proc,
           CreateAuthor(p) \/ CreateBook(p) \/ AddToWishlist(p) \/ RemoveFromWishlist(p)
    PROVE  CatStepOk
<1> USE CatalogConstantsOK
<1>1. CatTypes
  BY DEF CatOk
<1>2. Idle \in Process
  BY DEF Idle, Process, CatPC, Names, Titles
<1>3. AuthorId \subseteq Nat /\ Books \subseteq Nat /\ Books \subseteq BookId
  BY DEF Books
<1> DEFINE On == Turns(p, CatPC \ {"insert"})
<1>4. CASE CreateAuthor(p)
  <2>1. PICK n \in Name, f \in ForeignId \cup {""} :
            Become(p, [Idle EXCEPT !.pc = IF f = "" THEN "byName" ELSE "byFid",
                                   !.kind = "author", !.name = n, !.fid = f])
    BY <1>4 DEF CreateAuthor
  <2> DEFINE r == [Idle EXCEPT !.pc = IF f = "" THEN "byName" ELSE "byFid",
                               !.kind = "author", !.name = n, !.fid = f]
  <2>2. r \in Process /\ r.pc \in {"byName", "byFid"}
    BY ZenonT(30), <1>2 DEF Process, CatPC, Names
  <2>3. On
    BY <2>1, <2>2 DEF Turns, Become, CatPC
  <2> QED BY <1>4, <2>3, TurnStep DEF CreateAuthor
<1>5. CASE CreateBook(p)
  <2>1. PICK a \in AuthorId, t \in Title, f \in ForeignId \cup {""}, w \in BOOLEAN :
            Become(p, [Idle EXCEPT !.pc = IF f = "" THEN "bookAuthor" ELSE "bookFid",
                                   !.kind = "book", !.id = a, !.title = t, !.bfid = f, !.wish = w])
    BY <1>5 DEF CreateBook
  <2> DEFINE r == [Idle EXCEPT !.pc = IF f = "" THEN "bookAuthor" ELSE "bookFid",
                               !.kind = "book", !.id = a, !.title = t, !.bfid = f, !.wish = w]
  <2>2. r \in Process /\ r.pc \in {"bookAuthor", "bookFid"}
    BY ZenonT(30), <1>2, <1>3 DEF Process, CatPC, Titles
  <2>3. On
    BY <2>1, <2>2 DEF Turns, Become, CatPC
  <2> QED BY <1>5, <2>3, TurnStep DEF CreateBook
<1>6. CASE AddToWishlist(p)
  <2>1. PICK n \in Name, t \in Title, f \in ForeignId \cup {""} :
            Become(p, [Idle EXCEPT !.pc = "wishName", !.kind = "wish", !.name = n, !.title = t,
                                   !.bfid = f, !.wish = TRUE])
    BY <1>6 DEF AddToWishlist
  <2> DEFINE r == [Idle EXCEPT !.pc = "wishName", !.kind = "wish", !.name = n, !.title = t,
                               !.bfid = f, !.wish = TRUE]
  <2>2. r \in Process /\ r.pc = "wishName"
    BY ZenonT(30), <1>2 DEF Process, CatPC, Titles, Names
  <2>3. On
    BY <2>1, <2>2 DEF Turns, Become, CatPC
  <2> QED BY <1>6, <2>3, TurnStep DEF AddToWishlist
<1>7. CASE RemoveFromWishlist(p)
  <2>1. PICK b \in Books :
            Become(p, [Idle EXCEPT !.pc = IF file[b] = NoFile THEN "drop" ELSE "unwish", !.id = b])
    BY <1>7 DEF RemoveFromWishlist
  <2> DEFINE r == [Idle EXCEPT !.pc = IF file[b] = NoFile THEN "drop" ELSE "unwish", !.id = b]
  <2>2. r \in Process /\ r.pc \in {"drop", "unwish"}
    BY <1>2, <1>3 DEF Process, CatPC
  <2>3. On
    BY <2>1, <2>2 DEF Turns, Become, CatPC
  <2> QED BY <1>7, <2>3, TurnStep DEF RemoveFromWishlist
<1> QED BY <1>4, <1>5, <1>6, <1>7

\* Steps that change only books: what they must say of the table.
LEMMA BookStep ==
    ASSUME CatOk, book' \in [BookId -> BookRow], file' \in [BookId -> Path],
           proc' \in [Proc -> Process],
           author' = author, shared' = shared,
           \A p \in Proc : proc'[p] = proc[p] \/ proc'[p] = Idle,
           \A b \in Books' : book'[b].author \in Authors,
           \A b \in BookId : book[b].st # "free" => book'[b].st # "free",
           \A b \in Books' : b \in Books \/ book[b].st = "free",
           \A b \in BookId : \/ file'[b] = file[b] /\ (b \in Books => b \in Books')
                             \/ file'[b] = NoFile /\ b \notin Books'
    PROVE  CatStepOk
<1>1. Authors' = Authors /\ \A n : Named(n)' = Named(n)
  BY DEF Authors, Named
<1>2. CatTypes'
  BY DEF CatOk, CatTypes
<1>3. RowsOk'
  BY <1>1 DEF CatOk, RowsOk
<1>8. \A p \in Proc : proc'[p].pc \in {"insert"} => proc'[p] = proc[p]
  <2>1. Idle.pc = "idle"
    BY DEF Idle
  <2> QED BY <2>1
<1>4. InsertsOk'
  <2>1. \A p \in Proc : Inserting(p)' => Inserting(p) /\ proc'[p] = proc[p]
    BY <1>8 DEF Inserting
  <2>2. InsertsOk
    BY DEF CatOk
  <2>3. ASSUME NEW p \in Proc, Inserting(p)'
        PROVE  Named(proc[p].name)' = {} \/ proc'[p].name \in shared'
    BY <1>1, <2>1, <2>2, <2>3 DEF InsertsOk, Named
  <2>4. ASSUME NEW p \in Proc, NEW q \in Proc, Inserting(p)', Inserting(q)',
               proc'[p].name = proc'[q].name
        PROVE  p = q \/ proc'[p].name \in shared'
    BY <2>1, <2>2, <2>4 DEF InsertsOk
  <2> QED BY <2>3, <2>4 DEF InsertsOk
<1>6. NoTwins'
  BY <1>1 DEF CatOk, NoTwins
<1>7. CatalogStep
  BY DEF CatalogStep
<1> QED BY <1>2, <1>3, <1>4, <1>6, <1>7 DEF CatStepOk, CatOk

LEMMA Deleting ==
    ASSUME CatOk, NEW bs \in SUBSET Books, DeleteBooks(bs)
    PROVE  /\ book' \in [BookId -> BookRow] /\ file' \in [BookId -> Path]
           /\ Books' = Books \ bs
           /\ \A b \in Books' : book'[b] = book[b]
           /\ \A b \in BookId : book[b].st # "free" => book'[b].st # "free"
           /\ \A b \in BookId : \/ file'[b] = file[b] /\ (b \in Books => b \in Books')
                                \/ file'[b] = NoFile /\ b \notin Books'
<1> DEFINE Gone == [NoBook EXCEPT !.st = "gone"]
<1>1. Gone \in BookRow /\ Gone.st = "gone"
  BY DEF NoBook, BookRow, State, Titles
<1> HIDE DEF Gone
<1>2. /\ book' = [b \in BookId |-> IF b \in bs THEN Gone ELSE book[b]]
      /\ file' = [b \in BookId |-> IF b \in bs THEN NoFile ELSE file[b]]
  BY DEF DeleteBooks, Gone
<1>3. book' \in [BookId -> BookRow] /\ file' \in [BookId -> Path]
  BY <1>1, <1>2, NoFileIsPath DEF CatOk, CatTypes
<1>4. \A b \in BookId : b \in Books' <=> b \in Books /\ b \notin bs
  BY <1>1, <1>2 DEF Books
<1>5. Books' = Books \ bs
  BY <1>4 DEF Books
<1> QED BY <1>1, <1>2, <1>3, <1>4, <1>5 DEF Books

LEMMA BookSteps ==
    ASSUME CatOk, NEW p \in Proc,
           InsertBook(p) \/ SetWish(p) \/ UpdateBook(p) \/ DeleteBook(p) \/ DropBook(p)
    PROVE  CatStepOk
<1> USE CatalogConstantsOK
<1>1. CatTypes /\ RowsOk
  BY DEF CatOk
<1>2. Idle \in Process
  BY DEF Idle, Process, CatPC, Names, Titles
<1>3. Return(p) => /\ proc' \in [Proc -> Process]
                   /\ \A q \in Proc : proc'[q] = proc[q] \/ proc'[q] = Idle
  BY <1>1, <1>2 DEF Return, Become, CatTypes
<1>4. proc' = proc => /\ proc' \in [Proc -> Process]
                      /\ \A q \in Proc : proc'[q] = proc[q] \/ proc'[q] = Idle
  BY <1>1 DEF CatTypes
<1>5. proc[p] \in Process
  BY <1>1 DEF CatTypes
<1>6. CASE InsertBook(p)
  <2>1. CASE book' = book
    <3>1. Books' = Books
      BY <2>1 DEF Books
    <3> QED BY <1>1, <1>3, <1>6, <2>1, <3>1, BookStep DEF InsertBook, CatTypes, RowsOk
  <2>2. CASE book' # book
    <3> DEFINE r == [st |-> "row", author |-> proc[p].id, title |-> proc[p].title,
                     fid |-> proc[p].bfid, wish |-> proc[p].wish]
    <3>1. PICK b \in BookId : book[b] = NoBook /\ book' = [book EXCEPT ![b] = r]
      BY <1>6, <2>2 DEF InsertBook, NewId
    <3>2. r \in BookRow /\ r.st = "row" /\ r.author = proc[p].id
      BY <1>5 DEF Process, BookRow, State
    <3> HIDE DEF r
    <3>3. proc[p].id \in Authors /\ book[b].st = "free"
      <4>1. NoBook.st = "free"
        BY DEF NoBook
      <4>2. proc[p].id \in Authors
        BY <1>6, <2>2 DEF InsertBook
      <4> QED BY <3>1, <4>1, <4>2
    <3>4. \A c \in BookId : book'[c] = IF c = b THEN r ELSE book[c]
      BY <1>1, <3>1 DEF CatTypes
    <3>5. book' \in [BookId -> BookRow]
      BY <1>1, <3>1, <3>2 DEF CatTypes
    <3>6. \A c \in Books' : c \in Books \/ c = b
      BY <3>4 DEF Books
    <3>7. \A c \in Books : c \in Books'
      BY <3>2, <3>4 DEF Books
    <3>8. \A c \in Books' : book'[c].author \in Authors
      BY <1>1, <3>2, <3>3, <3>4, <3>6 DEF RowsOk, Books
    <3>9. \A c \in BookId : book[c].st # "free" => book'[c].st # "free"
      BY <3>2, <3>4
    <3>10. Return(p) /\ author' = author /\ file' = file /\ shared' = shared
          
      BY <1>6 DEF InsertBook
    <3> QED BY <1>1, <1>3, <3>3, <3>5, <3>6, <3>7, <3>8, <3>9, <3>10, BookStep DEF CatTypes
  <2> QED BY <2>1, <2>2
<1>7. ASSUME NEW b \in BookId, NEW r \in BookRow, book[b].st = r.st,
             r.st = "row" => r.author \in Authors,
             book' = [book EXCEPT ![b] = r], file' = file, author' = author,
             shared' = shared, Return(p) \/ proc' = proc
      PROVE  CatStepOk
  <2>1. book' \in [BookId -> BookRow]
    BY <1>1, <1>7 DEF CatTypes
  <2>2. \A c \in BookId : book'[c] = IF c = b THEN r ELSE book[c]
    BY <1>1, <1>7 DEF CatTypes
  <2>3. Books' = Books
    BY <1>7, <2>2 DEF Books
  <2>4. \A c \in Books' : book'[c].author \in Authors
    BY <1>1, <1>7, <2>2, <2>3 DEF RowsOk, Books
  <2>5. \A c \in BookId : book[c].st # "free" => book'[c].st # "free"
    BY <1>7, <2>2
  <2> QED BY <1>1, <1>3, <1>4, <1>7, <2>1, <2>3, <2>4, <2>5, BookStep DEF CatTypes
<1>8. CASE SetWish(p)
  <2>1. CASE proc[p].id \in Books
    <3> DEFINE b == proc[p].id
               r == [book[b] EXCEPT !.wish = (proc[p].pc = "wish")]
    <3>1. book[b] \in BookRow /\ b \in BookId /\ book[b].author \in Authors
      BY <1>1, <2>1 DEF CatTypes, Books, RowsOk
    <3>2. r \in BookRow /\ r.st = book[b].st /\ r.author = book[b].author
      BY <3>1 DEF BookRow
    <3>3. book' = [book EXCEPT ![b] = r]
      BY <1>1, <1>8, <2>1 DEF SetWish, CatTypes
    <3> HIDE DEF r, b
    <3> QED BY <1>7, <1>8, <3>1, <3>2, <3>3 DEF SetWish
  <2>2. CASE proc[p].id \notin Books
    <3>1. book' = book /\ file' = file /\ author' = author /\ Return(p)
      BY <1>8, <2>2 DEF SetWish
    <3>2. Books' = Books
      BY <3>1 DEF Books
    <3> QED BY <1>1, <1>3, <1>8, <3>1, <3>2, BookStep DEF SetWish, CatTypes, RowsOk
  <2> QED BY <2>1, <2>2
<1>9. CASE UpdateBook(p)
  <2>1. PICK b \in Books : \/ \E t \in Title : book' = [book EXCEPT ![b].title = t]
                           \/ \E a \in Authors : book' = [book EXCEPT ![b].author = a]
    BY <1>9 DEF UpdateBook
  <2>2. book[b] \in BookRow /\ b \in BookId /\ book[b].author \in Authors
    BY <1>1 DEF CatTypes, Books, RowsOk
  <2>3. CASE \E t \in Title : book' = [book EXCEPT ![b].title = t]
    <3>1. PICK t \in Title : book' = [book EXCEPT ![b].title = t]
      BY <2>3
    <3> DEFINE r == [book[b] EXCEPT !.title = t]
    <3>2. r \in BookRow /\ r.st = book[b].st /\ r.author = book[b].author
      BY <2>2 DEF BookRow, Titles
    <3>3. book' = [book EXCEPT ![b] = r]
      BY <1>1, <3>1 DEF CatTypes
    <3> HIDE DEF r
    <3> QED BY <1>7, <1>9, <2>2, <3>2, <3>3 DEF UpdateBook
  <2>4. CASE \E a \in Authors : book' = [book EXCEPT ![b].author = a]
    <3>1. PICK a \in Authors : book' = [book EXCEPT ![b].author = a]
      BY <2>4
    <3> DEFINE r == [book[b] EXCEPT !.author = a]
    <3>2. r \in BookRow /\ r.st = book[b].st /\ r.author = a
      BY <2>2 DEF BookRow, Authors
    <3>3. book' = [book EXCEPT ![b] = r]
      BY <1>1, <3>1 DEF CatTypes
    <3> HIDE DEF r
    <3> QED BY <1>7, <1>9, <2>2, <3>2, <3>3 DEF UpdateBook
  <2> QED BY <2>1, <2>3, <2>4
<1>10. ASSUME NEW bs \in SUBSET Books, DeleteBooks(bs), author' = author, shared' = shared,
              Return(p) \/ proc' = proc
       PROVE  CatStepOk
  <2>1. /\ book' \in [BookId -> BookRow] /\ file' \in [BookId -> Path]
        /\ Books' = Books \ bs
        /\ \A b \in Books' : book'[b] = book[b]
        /\ \A b \in BookId : book[b].st # "free" => book'[b].st # "free"
        /\ \A b \in BookId : \/ file'[b] = file[b] /\ (b \in Books => b \in Books')
                             \/ file'[b] = NoFile /\ b \notin Books'
    BY <1>10, Deleting
  <2>2. \A b \in Books' : book'[b].author \in Authors /\ (b \in Books \/ book[b].st = "free")
    BY <1>1, <2>1 DEF RowsOk
  <2> QED BY <1>3, <1>4, <1>10, <2>1, <2>2, BookStep
<1>11. CASE DeleteBook(p)
  BY <1>10, <1>11 DEF DeleteBook
<1>12. CASE DropBook(p)
  BY <1>10, <1>12 DEF DropBook
<1> QED BY <1>6, <1>8, <1>9, <1>11, <1>12

\* Steps that change authors.
LEMMA AuthorSteps ==
    ASSUME CatOk, NEW p \in Proc,
           InsertAuthor(p) \/ UpdateAuthor(p) \/ DeleteAuthor(p) \/ PurgeAuthor(p)
    PROVE  CatStepOk
<1> USE CatalogConstantsOK
<1>1. CatTypes /\ RowsOk /\ InsertsOk /\ NoTwins
  BY DEF CatOk
<1>2. proc[p] \in Process
  BY <1>1 DEF CatTypes
<1>3. ASSUME book' = book, file' = file,
             \A q \in Proc : \/ proc'[q] = proc[q]
                             \/ proc'[q].pc \notin {"insert"},
             author' \in [AuthorId -> AuthorRow], proc' \in [Proc -> Process],
             Authors \subseteq Authors', shared \subseteq shared', NoTwins',
             \A q \in Proc : proc'[q] = proc[q] /\ Inserting(q) =>
                Named(proc[q].name)' = {} \/ proc[q].name \in shared'
      PROVE  CatStepOk
  <2>1. Books' = Books
    BY <1>3 DEF Books
  <2>2. CatTypes' /\ RowsOk' /\ CatalogStep
    BY <1>1, <1>3, <2>1 DEF CatTypes, RowsOk, CatalogStep
  <2>4. InsertsOk'
    <3>1. \A q \in Proc : Inserting(q)' => Inserting(q) /\ proc'[q] = proc[q]
      BY <1>3 DEF Inserting
    <3>2. ASSUME NEW q \in Proc, Inserting(q)'
          PROVE  Named(proc[q].name)' = {} \/ proc'[q].name \in shared'
      BY <1>3, <3>1, <3>2
    <3>3. ASSUME NEW q \in Proc, NEW r \in Proc, Inserting(q)', Inserting(r)',
                 proc'[q].name = proc'[r].name
          PROVE  q = r \/ proc'[q].name \in shared'
      BY <1>1, <1>3, <3>1, <3>3 DEF InsertsOk
    <3> QED BY <3>2, <3>3 DEF InsertsOk
  <2> QED BY <1>3, <2>2, <2>4 DEF CatStepOk, CatOk
<1>4. CASE InsertAuthor(p)
  <2>1. CASE FidTaken(p) /\ Goto(p, "refindFid") /\ UNCHANGED author
    <3>1. Turns(p, CatPC \ {"insert"})
      BY <1>1, <2>1, Becoming DEF CatPC, Turns
    <3> QED BY <1>4, <2>1, <3>1, TurnStep DEF InsertAuthor, UNCHANGEDrows
  <2>2. CASE ~FidTaken(p)
    <3> DEFINE r == [st |-> "row", name |-> proc[p].name,
                     fid |-> IF proc[p].fid = "" THEN "null" ELSE proc[p].fid]
    <3>1. PICK a \in AuthorId : author[a] = NoAuthor /\ author' = [author EXCEPT ![a] = r] /\ Found(p, a)
      BY <1>4, <2>2 DEF InsertAuthor, NewId
    <3>2. r \in AuthorRow /\ r.st = "row" /\ r.name = proc[p].name
          /\ (r.fid = "null" \/ (r.fid = proc[p].fid /\ proc[p].fid # ""))
      BY <1>2 DEF Process, AuthorRow, State
    <3> HIDE DEF r
    <3>3. a \notin Authors
      <4>1. NoAuthor.st = "free"
        BY DEF NoAuthor
      <4> QED BY <3>1, <4>1 DEF Authors
    <3>4. \A b \in AuthorId : author'[b] = IF b = a THEN r ELSE author[b]
      BY <1>1, <3>1 DEF CatTypes
    <3>5. Authors' = Authors \cup {a}
      BY <3>2, <3>4 DEF Authors
    <3>6. shared' = shared /\ book' = book /\ file' = file
      BY <1>4 DEF InsertAuthor
    <3>7. Inserting(p)
      BY <1>4 DEF InsertAuthor, Inserting
    <3>8. \A b \in Authors : author[b].name = r.name => r.name \in shared
      BY <1>1, <3>2, <3>7 DEF InsertsOk, Named
    <3>9. \A b \in Authors : author[b].fid = r.fid => r.fid = "null"
      BY <2>2, <3>2 DEF FidTaken
    <3>10. NoTwins'
      <4> SUFFICES ASSUME NEW b \in Authors', NEW c \in Authors', b # c
                   PROVE  /\ author'[b].name = author'[c].name => author'[b].name \in shared'
                          /\ author'[b].fid = author'[c].fid => author'[b].fid = "null"
        BY DEF NoTwins
      <4>1. b \in AuthorId /\ c \in AuthorId
        BY DEF Authors
      <4>2. CASE b = a
        BY <3>4, <3>5, <3>6, <3>8, <3>9, <4>1, <4>2
      <4>3. CASE c = a
        BY <3>4, <3>5, <3>6, <3>8, <3>9, <4>1, <4>3
      <4>4. CASE b # a /\ c # a
        BY <1>1, <3>4, <3>5, <3>6, <4>1, <4>4 DEF NoTwins
      <4> QED BY <4>2, <4>3, <4>4
    <3>11. ASSUME NEW q \in Proc, proc'[q] = proc[q], Inserting(q)
           PROVE  Named(proc[q].name)' = {} \/ proc[q].name \in shared'
      <4>1. CASE q = p
        <5>1. proc'[p].pc = "reread"
          BY <1>1, <1>2, <3>1 DEF Found, Become, CatTypes, Process
        <5> QED BY <3>11, <4>1, <5>1 DEF Inserting
      <4>2. CASE q # p /\ proc[q].name = proc[p].name
        BY <1>1, <3>6, <3>7, <3>11, <4>2 DEF InsertsOk
      <4>3. CASE proc[q].name # proc[p].name
        <5>1. Named(proc[q].name) = {} \/ proc[q].name \in shared
          BY <1>1, <3>11 DEF InsertsOk
        <5>2. ASSUME NEW b \in Authors', author'[b].name = proc'[q].name
              PROVE  b \in Named(proc[q].name)
          <6>1. b \in AuthorId
            BY DEF Authors
          <6> QED BY <3>2, <3>4, <3>5, <3>11, <4>3, <5>2, <6>1 DEF Named
        <5> QED BY <3>6, <5>1, <5>2 DEF Named
      <4> QED BY <4>1, <4>2, <4>3
    <3>12. PICK s \in Process : proc' = [proc EXCEPT ![p] = s] /\ s.pc = "reread"
      BY <1>1, <3>1, Becoming DEF Turns
    <3>13. /\ proc' \in [Proc -> Process]
           /\ \A q \in Proc : proc'[q] = proc[q] \/ proc'[q].pc \notin {"insert"}
      BY <1>1, <3>12 DEF CatTypes
    <3>14. author' \in [AuthorId -> AuthorRow]
      BY <1>1, <3>1, <3>2 DEF CatTypes
    <3> QED BY <1>3, <3>5, <3>6, <3>10, <3>11, <3>13, <3>14
  <2> QED BY <1>4, <2>1, <2>2 DEF InsertAuthor
<1>5. CASE UpdateAuthor(p)
  <2>1. PICK a \in Authors, n \in Name, f \in ForeignId \cup {""} :
            \/ author' = [author EXCEPT ![a].name = n] /\ shared' = shared \cup {n}
            \/ /\ \A o \in Authors \ {a} : author[o].fid # f
               /\ author' = [author EXCEPT ![a].fid = f]
               /\ UNCHANGED shared
    BY <1>5 DEF UpdateAuthor
  <2>2. a \in AuthorId /\ author[a] \in AuthorRow /\ author[a].st = "row"
    BY <1>1 DEF CatTypes, Authors
  <2>3. /\ book' = book /\ file' = file /\ proc' = proc
        /\ proc' \in [Proc -> Process]
    BY <1>1, <1>5 DEF UpdateAuthor, CatTypes
  <2>4. CASE author' = [author EXCEPT ![a].name = n] /\ shared' = shared \cup {n}
    <3> DEFINE r == [author[a] EXCEPT !.name = n]
    <3>1. r \in AuthorRow /\ r.st = "row" /\ r.name = n /\ r.fid = author[a].fid
      BY <2>2 DEF AuthorRow, Names
    <3>2. author' = [author EXCEPT ![a] = r]
      BY <1>1, <2>4 DEF CatTypes
    <3> HIDE DEF r
    <3>3. author' \in [AuthorId -> AuthorRow]
          /\ \A b \in AuthorId : author'[b] = IF b = a THEN r ELSE author[b]
      BY <1>1, <2>2, <3>1, <3>2 DEF CatTypes
    <3>4. Authors' = Authors
      BY <2>2, <3>1, <3>3 DEF Authors
    <3>5. NoTwins'
      <4> SUFFICES ASSUME NEW b \in Authors, NEW c \in Authors, b # c
                   PROVE  /\ author'[b].name = author'[c].name => author'[b].name \in shared'
                          /\ author'[b].fid = author'[c].fid => author'[b].fid = "null"
        BY <3>4 DEF NoTwins
      <4>1. b \in AuthorId /\ c \in AuthorId
        BY DEF Authors
      <4>2. author'[b].fid = author[b].fid /\ author'[c].fid = author[c].fid
        BY <3>1, <3>3, <4>1
      <4>3. author'[b].name = author'[c].name => author'[b].name \in shared'
        <5>1. CASE b = a \/ c = a
          <6>1. author'[b].name = author'[c].name => author'[b].name = n
            BY <3>1, <3>3, <4>1, <5>1
          <6>2. n \in shared'
            BY <2>4
          <6> QED BY <6>1, <6>2
        <5>2. CASE b # a /\ c # a
          <6>1. author'[b].name = author[b].name /\ author'[c].name = author[c].name
            BY <3>3, <4>1, <5>2
          <6>2. author[b].name = author[c].name => author[b].name \in shared
            BY <1>1 DEF NoTwins
          <6>3. shared \subseteq shared'
            BY <2>4
          <6> QED BY <6>1, <6>2, <6>3, Zenon
        <5> QED BY <5>1, <5>2
      <4> QED BY <1>1, <4>2, <4>3 DEF NoTwins
    <3>6. ASSUME NEW q \in Proc, Inserting(q)
          PROVE  Named(proc[q].name)' = {} \/ proc[q].name \in shared'
      <4>1. Named(proc[q].name) = {} \/ proc[q].name \in shared
        BY <1>1, <3>6 DEF InsertsOk
      <4>2. CASE proc[q].name # n
        <5>1. \A b \in Authors : author'[b].name = proc[q].name => b \in Named(proc[q].name)
          <6> SUFFICES ASSUME NEW b \in Authors, author'[b].name = proc[q].name
                       PROVE  b \in Named(proc[q].name)
            OBVIOUS
          <6>1. b \in AuthorId
            BY DEF Authors
          <6> QED BY <3>1, <3>3, <4>2, <6>1 DEF Named
        <5> QED BY <2>3, <2>4, <3>4, <4>1, <5>1 DEF Named
      <4> QED BY <2>4, <4>2
    <3>7. shared \subseteq shared' /\ Authors \subseteq Authors'
      BY <2>4, <3>4
    <3> QED BY <1>3, <2>3, <3>3, <3>5, <3>6, <3>7
  <2>5. CASE /\ \A o \in Authors \ {a} : author[o].fid # f
             /\ author' = [author EXCEPT ![a].fid = f]
             /\ UNCHANGED shared
    <3> DEFINE r == [author[a] EXCEPT !.fid = f]
    <3>1. r \in AuthorRow /\ r.st = "row" /\ r.name = author[a].name /\ r.fid = f
      BY <2>2 DEF AuthorRow
    <3>2. author' = [author EXCEPT ![a] = r]
      BY <1>1, <2>5 DEF CatTypes
    <3> HIDE DEF r
    <3>3. author' \in [AuthorId -> AuthorRow]
          /\ \A b \in AuthorId : author'[b] = IF b = a THEN r ELSE author[b]
      BY <1>1, <2>2, <3>1, <3>2 DEF CatTypes
    <3>4. Authors' = Authors
      BY <2>2, <3>1, <3>3 DEF Authors
    <3>5. \A b \in Authors : author'[b].name = author[b].name
      <4> SUFFICES ASSUME NEW b \in Authors PROVE author'[b].name = author[b].name
        OBVIOUS
      <4>1. b \in AuthorId
        BY DEF Authors
      <4> QED BY <3>1, <3>3, <4>1
    <3>6. NoTwins'
      <4> SUFFICES ASSUME NEW b \in Authors, NEW c \in Authors, b # c
                   PROVE  /\ author'[b].name = author'[c].name => author'[b].name \in shared'
                          /\ author'[b].fid = author'[c].fid => author'[b].fid = "null"
        BY <3>4 DEF NoTwins
      <4>1. b \in AuthorId /\ c \in AuthorId
        BY DEF Authors
      <4>2. author'[b].name = author'[c].name => author'[b].name \in shared'
        <5>1. author'[b].name = author[b].name /\ author'[c].name = author[c].name
          BY <3>5
        <5>2. author[b].name = author[c].name => author[b].name \in shared
          BY <1>1 DEF NoTwins
        <5>3. shared' = shared
          BY <2>5
        <5> QED BY <5>1, <5>2, <5>3, Zenon
      <4>3. author'[b].fid = author'[c].fid => author'[b].fid = "null"
        BY <1>1, <2>5, <3>1, <3>3, <4>1 DEF NoTwins
      <4> QED BY <4>2, <4>3
    <3>7. ASSUME NEW q \in Proc, Inserting(q)
          PROVE  Named(proc[q].name)' = {} \/ proc[q].name \in shared'
      <4>1. Named(proc[q].name)' = Named(proc[q].name)
        BY <2>3, <3>4, <3>5 DEF Named
      <4> QED BY <1>1, <2>5, <3>7, <4>1 DEF InsertsOk
    <3>8. shared \subseteq shared' /\ Authors \subseteq Authors'
      BY <2>5, <3>4
    <3> QED BY <1>3, <2>3, <3>3, <3>6, <3>7, <3>8
  <2> QED BY <2>1, <2>4, <2>5
<1>6. ASSUME NEW a \in Authors, DeleteRow(a), shared' = shared, proc' \in [Proc -> Process],
             \A q \in Proc : proc'[q] = proc[q] \/ proc'[q] = Idle
      PROVE  CatStepOk
  <2> DEFINE Gone == [NoAuthor EXCEPT !.st = "gone"]
  <2>1. /\ author' = [author EXCEPT ![a] = Gone]
        /\ DeleteBooks({b \in Books : book[b].author = a})
    BY <1>6 DEF DeleteRow
  <2>2. Gone \in AuthorRow /\ Gone.st = "gone"
    BY DEF NoAuthor, AuthorRow, State, Names
  <2> HIDE DEF Gone
  <2>3. \A q \in Proc : Inserting(q)' => Inserting(q) /\ proc'[q] = proc[q]
    <3>1. Idle.pc = "idle"
      BY DEF Idle
    <3> QED BY <1>6, <3>1 DEF Inserting
  <2>4. a \in AuthorId /\ author' \in [AuthorId -> AuthorRow]
        /\ \A b \in AuthorId : author'[b] = IF b = a THEN Gone ELSE author[b]
    BY <1>1, <2>1, <2>2 DEF CatTypes, Authors
  <2>5. Authors' = Authors \ {a} /\ \A b \in Authors' : author'[b] = author[b]
    BY <2>2, <2>4 DEF Authors
  <2> DEFINE bs == {b \in Books : book[b].author = a}
  <2>6. /\ book' \in [BookId -> BookRow] /\ file' \in [BookId -> Path]
        /\ Books' = Books \ bs
        /\ \A b \in Books' : book'[b] = book[b]
        /\ \A b \in BookId : book[b].st # "free" => book'[b].st # "free"
        /\ \A b \in BookId : \/ file'[b] = file[b] /\ (b \in Books => b \in Books')
                             \/ file'[b] = NoFile /\ b \notin Books'
    BY <2>1, Deleting
  <2>7. CatTypes'
    BY <1>6, <2>4, <2>6 DEF CatTypes
  <2>8. RowsOk'
    BY <1>1, <2>5, <2>6 DEF RowsOk
  <2>9. NoTwins'
    BY <1>1, <1>6, <2>5 DEF NoTwins
  <2>10. \A n : Named(n)' \subseteq Named(n)
    BY <2>5 DEF Named
  <2>11. InsertsOk'
    BY <1>1, <1>6, <2>3, <2>10 DEF InsertsOk
  <2>13. CatalogStep
    BY <2>6 DEF CatalogStep
  <2> QED BY <2>7, <2>8, <2>9, <2>11, <2>13 DEF CatStepOk, CatOk
<1>7. CASE DeleteAuthor(p)
  BY <1>1, <1>6, <1>7 DEF DeleteAuthor, CatTypes
<1>8. CASE PurgeAuthor(p)
  <2>1. Idle \in Process /\ Idle.pc = "idle"
    BY DEF Idle, Process, CatPC, Names, Titles
  <2>2. /\ proc' = [proc EXCEPT ![p] = Idle] /\ proc' \in [Proc -> Process]
        /\ \A q \in Proc : proc'[q] = proc[q] \/ proc'[q] = Idle
    BY <1>1, <1>8, <2>1 DEF PurgeAuthor, Return, Become, CatTypes
  <2>3. CASE proc[p].id \in Authors
    BY <1>6, <1>8, <2>2, <2>3 DEF PurgeAuthor
  <2>4. CASE proc[p].id \notin Authors
    <3>1. UNCHANGEDrows /\ shared' = shared
      BY <1>8, <2>4 DEF PurgeAuthor
    <3>2. Turns(p, CatPC \ {"insert"})
      BY <2>1, <2>2 DEF Turns, CatPC
    <3> QED BY <3>1, <3>2, TurnStep
  <2> QED BY <2>3, <2>4
<1> QED BY <1>4, <1>5, <1>7, <1>8

LEMMA CatalogSteps ==
    ASSUME CatOk, NEW p \in Proc, CatRequest(p) \/ CatStep(p)
    PROVE  CatStepOk
BY BeginSteps, FindSteps, BookSteps, AuthorSteps DEF CatRequest, CatStep

\* A step that leaves the tables alone.
LEMMA CatalogSame ==
    ASSUME CatOk, UNCHANGED <<author, book, file, proc, shared>>
    PROVE  CatOk'
<1>1. Books' = Books /\ Authors' = Authors /\ \A n : Named(n)' = Named(n)
  BY DEF Books, Authors, Named
<1>2. CatTypes' /\ RowsOk'
  BY <1>1 DEF CatOk, CatTypes, RowsOk
<1>3. InsertsOk'
  BY <1>1 DEF CatOk, InsertsOk, Inserting
<1>5. NoTwins'
  BY <1>1 DEF CatOk, NoTwins
<1> QED BY <1>2, <1>3, <1>5 DEF CatOk

-----------------------------------------------------------------------------
(* Known paths. They only become more, and fewer books are alone with them. *)

LEMMA KnownPath ==
    ASSUME NameTypes, NEW b, NEW path \in Known(b)
    PROVE  path \in Path /\ path # NoFile
<1>1. PICK s \in formats, h \in held : path = Format(s, h.name, h.title)
  BY DEF Known
<1>2. s \in Settings /\ h.name \in Names /\ h.title \in Titles
  BY DEF NameTypes
<1> QED BY <1>1, <1>2, FormatIsPath

LEMMA AloneKnows ==
    ASSUME NEW b \in BookId, Alone(b), NEW c \in BookId, NEW path \in Known(b), path \in Known(c)
    PROVE  b = c
<1> SUFFICES ASSUME b # c PROVE FALSE
  OBVIOUS
<1>1. PICK s \in formats, h \in held : h.of = b /\ path = Format(s, h.name, h.title)
  BY DEF Known
<1>2. PICK r \in formats, g \in held : g.of = c /\ path = Format(r, g.name, g.title)
  BY DEF Known
<1>3. Apart(b, c)
  BY DEF Alone
<1> QED BY <1>1, <1>2, <1>3 DEF Apart

LEMMA Growth ==
    ASSUME held \subseteq held', formats \subseteq formats'
    PROVE  /\ \A b : Known(b) \subseteq Known(b)'
           /\ \A b \in BookId : Alone(b)' => Alone(b)
<1>1. ASSUME NEW b, NEW path \in Known(b) PROVE path \in Known(b)'
  <2>1. PICK s \in formats, h \in held : h.of = b /\ path = Format(s, h.name, h.title)
    BY DEF Known
  <2>2. s \in formats' /\ h \in {x \in held' : x.of = b}
    BY <2>1
  <2> QED BY <2>1, <2>2 DEF Known
<1>2. ASSUME NEW b \in BookId, Alone(b)', NEW c \in BookId \ {b} PROVE Apart(b, c)
  <2>1. Apart(b, c)'
    BY <1>2 DEF Alone
  <2> QED BY <2>1 DEF Apart, Format
<1> QED BY <1>1, <1>2 DEF Alone

LEMMA DiskGrows ==
    ASSUME DiskOk, held \subseteq held', formats \subseteq formats', disk' = disk
    PROVE  DiskOk'
<1>1. \A d, e \in disk : d.at = e.at \/ d.of = e.of => d = e
  BY DEF DiskOk
<1>2. \A d \in disk : \E b \in BookId : d.at \in Known(b)'
  BY Growth DEF DiskOk
<1>3. ASSUME NEW d \in disk, NEW b \in BookId, Alone(b)'
      PROVE  d.of = b <=> d.at \in Known(b)'
  <2>1. Alone(b) /\ Known(b) \subseteq Known(b)'
    BY <1>3, Growth
  <2>2. PICK c \in BookId : d.at \in Known(c) /\ d.at \in Known(c)'
    BY Growth DEF DiskOk
  <2>3. d.at \in Known(b)' => b = c
    <3> SUFFICES ASSUME d.at \in Known(b)', b # c PROVE FALSE
      OBVIOUS
    <3>1. PICK s \in formats', h \in held' : h.of = b /\ d.at = Format(s, h.name, h.title)
      BY DEF Known
    <3>2. PICK r \in formats', g \in held' : g.of = c /\ d.at = Format(r, g.name, g.title)
      BY <2>2 DEF Known
    <3>3. Apart(b, c)'
      BY <1>3 DEF Alone
    <3> QED BY <3>1, <3>2, <3>3 DEF Apart
  <2> QED BY <2>1, <2>2, <2>3 DEF DiskOk
<1> QED BY <1>1, <1>2, <1>3 DEF DiskOk

LEMMA SavesSame ==
    ASSUME SavesOk, UNCHANGED <<config, asked, mixed>>,
           \A p \in Proc : \/ job'[p] = job[p]
                           \/ {job[p].pc, job'[p].pc} \cap {"saveFolder", "saveFile"} = {}
    PROVE  SavesOk'
<1>1. Saving' = Saving /\ \A p \in Saving : job'[p] = job[p]
  BY DEF Saving
<1> QED BY <1>1 DEF SavesOk

-----------------------------------------------------------------------------
(* Steps that move no file. *)

\* What a rename job is about to do stays possible, when its book does.
LEMMA MovesStay ==
    ASSUME NameTypes, HistoryOk, job' = job, held \subseteq held', formats \subseteq formats',
           \A b \in BookId : book[b].st # "free" =>
               /\ book'[b].st # "free"
               /\ b \in Books' => b \in Books /\ (file[b] # NoFile => file'[b] # NoFile)
    PROVE  \A p \in Proc : TodoOk(p)'
<1> SUFFICES ASSUME NEW p \in Proc, job[p].pc \in {"move", "row"},
                    NEW todo, todo = job[p].todo, NEW k \in DOMAIN todo
             PROVE  todo # <<>> /\ MoveOk(todo[k])'
  <2>1. ASSUME NEW p \in Proc, job[p].pc \in {"move", "row"}
        PROVE  job[p].todo # <<>>
    BY <2>1 DEF HistoryOk, TodoOk
  <2> QED BY <2>1 DEF TodoOk
<1> DEFINE i == todo[k]
<1>1. todo # <<>> /\ MoveOk(i)
  BY DEF HistoryOk, TodoOk
<1>2. i.of \in BookId
  <2>1. todo \in Seq(Move)
    BY DEF NameTypes, Job
  <2>2. i \in Move
    BY <2>1, LenProperties, ElementOfSeq
  <2> QED BY <2>2 DEF Move
<1>3. i.from \in Known(i.of)' /\ i.to \in Known(i.of)'
  BY <1>1, Growth DEF MoveOk
<1>4. book'[i.of].st # "free" /\ (i.of \in Books' => file'[i.of] # NoFile)
  BY <1>1, <1>2 DEF MoveOk
<1> QED BY <1>1, <1>3, <1>4 DEF MoveOk

\* What the rows point to, when only files are taken from books.
LEMMA RowsStay ==
    ASSUME RowsFollow, held \subseteq held', formats \subseteq formats', disk' = disk, job' = job,
           UNCHANGED <<torn, wiped>>, \A b \in BookId : file'[b] = file[b] \/ file'[b] = NoFile
    PROVE  RowsFollow'
<1> SUFFICES ASSUME NEW b \in BookId, Alone(b)', b \notin torn \cup wiped, file'[b] # NoFile
             PROVE  RowOk(b)'
  BY DEF RowsFollow
<1>1. Alone(b) /\ file'[b] = file[b]
  BY Growth
<1>2. RowOk(b) /\ Mover(b)' = Mover(b) /\ \A p \in Proc : Item(p)' = Item(p)
  BY <1>1 DEF RowsFollow, Mover, Item
<1> QED BY <1>1, <1>2 DEF RowOk, Entry, Mover

LEMMA KeepsStay ==
    ASSUME RenameKeepsContents, held \subseteq held', formats \subseteq formats', disk' = disk,
           wiped' = wiped
    PROVE  RenameKeepsContents'
<1> USE CatalogConstantsOK
<1>1. 1 .. Len(Shelf) \subseteq BookId
  OBVIOUS
<1> QED BY <1>1, Growth DEF RenameKeepsContents, Contents

LEMMA CatalogueKeeps == IInv /\ Catalogue => IInv'
<1> SUFFICES ASSUME IInv, Catalogue PROVE IInv'
  OBVIOUS
<1>1. PICK p \in Proc : CatRequest(p) \/ CatStep(p)
  BY DEF Catalogue
<1>2. CatOk' /\ CatalogStep
  BY <1>1, CatalogSteps DEF IInv, CatStepOk
<1>3. /\ held' = held \cup {[of |-> b, name |-> NameOf(b)', title |-> book'[b].title] : b \in Books'}
      /\ UNCHANGED <<config, disk, job, asked, mixed, formats, torn, wiped>>
  BY DEF Catalogue
<1>4. SavesOk'
  BY <1>3, SavesSame DEF IInv
<1>5. \A b \in BookId : book[b].st # "free" =>
          /\ book'[b].st # "free"
          /\ b \in Books' => b \in Books /\ file'[b] = file[b]
  BY <1>2 DEF CatalogStep
<1>6. NameTypes'
  <2>1. ASSUME NEW b \in Books'
        PROVE  [of |-> b, name |-> NameOf(b)', title |-> book'[b].title]
                    \in [of : BookId, name : Names, title : Titles]
    <3>1. b \in BookId /\ book'[b] \in BookRow /\ book'[b].author \in AuthorId
      BY <1>2 DEF CatOk, CatTypes, RowsOk, Books, Authors
    <3>2. author'[book'[b].author] \in AuthorRow
      BY <1>2, <3>1 DEF CatOk, CatTypes
    <3> QED BY <3>1, <3>2 DEF NameOf, BookRow, AuthorRow
  <2>2. held' \subseteq [of : BookId, name : Names, title : Titles]
    BY <1>3, <2>1 DEF IInv, NameTypes
  <2> QED BY <1>3, <2>2 DEF IInv, NameTypes
<1>7. held \subseteq held' /\ formats \subseteq formats'
  BY <1>3
<1>8. HistoryOk'
  <2>1. config' \in formats' /\ \A q \in Proc : Renaming(q)' => job'[q].cfg \in formats'
    BY <1>3 DEF IInv, HistoryOk, Renaming
  <2>2. \A b \in Books' : [of |-> b, name |-> NameOf(b)', title |-> book'[b].title] \in held'
    BY <1>3
  <2>3. ASSUME NEW b \in Books', file'[b] # NoFile
        PROVE  file'[b] \in Known(b)'
    <3>1. file'[b] = file[b] /\ b \in BookId
      BY <1>2, <2>3 DEF CatalogStep, Books
    <3>2. b \in Books
      BY <2>3, <3>1 DEF IInv, CatOk, RowsOk
    <3> QED BY <1>7, <2>3, <3>1, <3>2, Growth DEF IInv, HistoryOk
  <2>4. \A q \in Proc : TodoOk(q)'
    BY <1>3, <1>5, <1>7, MovesStay DEF IInv
  <2> QED BY <2>1, <2>2, <2>3, <2>4 DEF HistoryOk
<1>9. DiskOk'
  BY <1>3, <1>7, DiskGrows DEF IInv
<1>10. RowsFollow'
  BY <1>2, <1>3, <1>7, RowsStay DEF IInv, CatalogStep
<1>11. RenameKeepsContents'
  BY <1>3, <1>7, KeepsStay DEF IInv
<1> QED BY <1>2, <1>4, <1>6, <1>8, <1>9, <1>10, <1>11 DEF IInv

\* A job goes on without having moved a file or updated a row.
LEMMA QuietJob ==
    ASSUME IInv, NEW p \in Proc, NEW w \in Job, job' = [job EXCEPT ![p] = w],
           job[p].pc # "row", w.pc # "row",
           UNCHANGED <<author, book, file, proc, shared, disk, held, torn, wiped>>,
           formats \subseteq formats', formats' \subseteq Settings,
           config' \in formats', asked' \in Settings,
           w.pc \in {"rows", "move"} => w.cfg \in formats',
           w.pc = "move" => w.todo # <<>> /\ \A k \in DOMAIN w.todo : MoveOk(w.todo[k]),
           SavesOk'
    PROVE  IInv'
<1>1. CatOk'
  BY CatalogSame DEF IInv
<1>2. NameTypes'
  BY DEF IInv, NameTypes
<1>3. job'[p] = w /\ \A q \in Proc \ {p} : job'[q] = job[q]
  BY DEF IInv, NameTypes
<1>4. Books' = Books /\ \A b \in Books : NameOf(b)' = NameOf(b)
  BY DEF Books, NameOf
<1>5. /\ \A b : Known(b) \subseteq Known(b)'
      /\ \A b \in BookId : Alone(b)' => Alone(b)
  BY Growth
<1>6. \A i : MoveOk(i) => MoveOk(i)'
  BY <1>4, <1>5 DEF MoveOk
<1>7. HistoryOk'
  <2>1. \A b \in Books' : [of |-> b, name |-> NameOf(b)', title |-> book'[b].title] \in held'
    BY <1>4 DEF IInv, HistoryOk
  <2>2. \A b \in Books' : file'[b] # NoFile => file'[b] \in Known(b)'
    BY <1>4, <1>5 DEF IInv, HistoryOk
  <2>3. \A q \in Proc : Renaming(q)' => job'[q].cfg \in formats'
    BY <1>3 DEF IInv, HistoryOk, Renaming
  <2>4. ASSUME NEW q \in Proc PROVE TodoOk(q)'
    <3>1. CASE q = p
      BY <1>3, <1>6, <3>1 DEF TodoOk
    <3>2. CASE q # p
      <4>1. TodoOk(q)
        BY DEF IInv, HistoryOk
      <4> QED BY <1>3, <1>6, <3>2, <4>1 DEF TodoOk
    <3> QED BY <3>1, <3>2
  <2> QED BY <2>1, <2>2, <2>3, <2>4 DEF HistoryOk
<1>8. DiskOk'
  BY DiskGrows DEF IInv
<1>9. RowsFollow'
  <2> SUFFICES ASSUME NEW b \in BookId, Alone(b)', b \notin torn \cup wiped, file[b] # NoFile
               PROVE  RowOk(b)'
    BY DEF RowsFollow
  <2>1. RowOk(b)
    BY <1>5 DEF IInv, RowsFollow
  <2>2. Mover(b)' = Mover(b) /\ \A q \in Mover(b) : Item(q)' = Item(q)
    BY <1>3 DEF Mover, Item
  <2> QED BY <2>1, <2>2 DEF RowOk, Entry
<1>10. RenameKeepsContents'
  BY KeepsStay DEF IInv
<1> QED BY <1>1, <1>2, <1>7, <1>8, <1>9, <1>10 DEF IInv

LEMMA NoWorkIsJob == NoWork \in Job
<1>1. <<>> \in Seq(Move)
  OBVIOUS
<1> QED BY <1>1, NamingConstantsOK DEF NoWork, Job, Settings

LEMMA UpdateSettingsKeeps == ASSUME IInv, NEW p \in Proc, UpdateSettings(p) PROVE IInv'
<1>1. PICK c \in Change :
        /\ Work(p, [NoWork EXCEPT !.pc = "saveFolder", !.cfg = Over(config, c)])
        /\ asked' = Over(config, c)
  BY DEF UpdateSettings
<1> DEFINE cfg == Over(config, c)
           w == [NoWork EXCEPT !.pc = "saveFolder", !.cfg = cfg]
<1>2. cfg \in Settings
  BY DEF IInv, NameTypes, Change, Over, Settings
<1> HIDE DEF cfg
<1>3. w \in Job /\ w.pc = "saveFolder" /\ w.cfg = cfg
  BY <1>2, NoWorkIsJob DEF Job
<1> HIDE DEF w
<1>4. job' = [job EXCEPT ![p] = w] /\ job[p].pc = "idle" /\ asked' = cfg /\ mixed' = (Saving # {})
      /\ UNCHANGED <<author, book, file, proc, shared, disk, held, torn, wiped, formats, config>>
  BY <1>1 DEF UpdateSettings, Work, NoWork, w, cfg
<1>5. job'[p] = w /\ \A q \in Proc \ {p} : job'[q] = job[q]
  BY <1>4 DEF IInv, NameTypes
<1>6. SavesOk'
  <2>1. CASE Saving = {}
    <3>1. Saving' = {p}
      BY <1>3, <1>5, <2>1 DEF Saving
    <3> QED BY <1>3, <1>4, <1>5, <2>1, <3>1 DEF SavesOk
  <2>2. CASE Saving # {}
    BY <1>4, <2>2 DEF SavesOk
  <2> QED BY <2>1, <2>2
<1>7. config' \in formats' /\ formats' \subseteq Settings /\ asked' \in Settings
  BY <1>2, <1>4 DEF IInv, NameTypes, HistoryOk
<1> QED BY <1>3, <1>4, <1>6, <1>7, QuietJob

LEMMA SaveSettingsKeeps == ASSUME IInv, NEW p \in Proc, SaveSettings(p) PROVE IInv'
<1>1. p \in Saving /\ job[p] \in Job /\ config \in Settings /\ asked \in Settings
      /\ formats \subseteq Settings /\ config \in formats
      /\ UNCHANGED <<author, book, file, proc, shared, disk, held, torn, wiped, asked>>
  BY DEF SaveSettings, catVars, IInv, NameTypes, HistoryOk
<1>2. job[p].pc \in {"saveFolder", "saveFile"} /\ job[p].cfg \in Settings
  BY <1>1 DEF Saving, Job
<1> DEFINE w == IF job[p].pc = "saveFolder" THEN [job[p] EXCEPT !.pc = "saveFile"] ELSE NoWork
           new == IF job[p].pc = "saveFolder" THEN [config EXCEPT !.folder = job[p].cfg.folder]
                  ELSE [config EXCEPT !.file = job[p].cfg.file]
<1>3. new \in Settings
  BY <1>1, <1>2 DEF Settings
<1>4. /\ w \in Job
      /\ job[p].pc = "saveFolder" => w.pc = "saveFile" /\ w.cfg = job[p].cfg
      /\ job[p].pc = "saveFile" => w.pc = "idle"
  BY <1>1, <1>2, NoWorkIsJob DEF Job, NoWork
<1>5. CASE config' = new /\ Work(p, w) /\ formats' = formats \cup {config'} /\ UNCHANGED mixed
  <2>1. job' = [job EXCEPT ![p] = w] /\ job'[p] = w /\ \A q \in Proc \ {p} : job'[q] = job[q]
    BY <1>5 DEF Work, IInv, NameTypes
  <2>2. SavesOk'
    <3>1. CASE mixed
      BY <1>5, <3>1 DEF SavesOk
    <3>2. CASE ~mixed
      <4>1. Saving = {p} /\ job[p].cfg = asked /\ mixed \in BOOLEAN
            /\ (job[p].pc = "saveFile" => config.folder = asked.folder)
        BY <1>1, <3>2 DEF IInv, SavesOk
      <4>2. CASE job[p].pc = "saveFolder"
        <5>1. Saving' = {p} /\ config'.folder = asked.folder
          BY <1>1, <1>4, <1>5, <2>1, <4>1, <4>2 DEF Saving, Settings
        <5> QED BY <1>1, <1>4, <1>5, <2>1, <3>2, <4>1, <4>2, <5>1 DEF SavesOk
      <4>3. CASE job[p].pc = "saveFile"
        <5>1. Saving' = {}
          BY <1>4, <2>1, <4>1, <4>3 DEF Saving
        <5>2. config' = asked
          BY <1>1, <1>5, <4>1, <4>3 DEF Settings
        <5> QED BY <1>1, <1>5, <4>1, <5>1, <5>2 DEF SavesOk
      <4> QED BY <1>2, <4>2, <4>3
    <3> QED BY <3>1, <3>2 DEF IInv, SavesOk
  <2> HIDE DEF w, new
  <2>3. formats \subseteq formats' /\ formats' \subseteq Settings /\ config' \in formats'
    BY <1>1, <1>3, <1>5
  <2> QED BY <1>1, <1>2, <1>4, <2>1, <2>2, <2>3, QuietJob
<1>6. CASE mixed' = TRUE /\ Work(p, NoWork) /\ UNCHANGED <<config, formats>>
  <2>1. SavesOk'
    BY <1>6 DEF SavesOk
  <2>2. NoWork.pc = "idle" /\ job' = [job EXCEPT ![p] = NoWork]
    BY <1>6 DEF NoWork, Work
  <2> QED BY <1>1, <1>2, <1>6, <2>1, <2>2, NoWorkIsJob, QuietJob
<1> QED BY <1>5, <1>6 DEF SaveSettings

LEMMA RenameAllKeeps == ASSUME IInv, NEW p \in Proc, RenameAll(p) PROVE IInv'
<1> DEFINE w == [NoWork EXCEPT !.pc = "rows", !.cfg = config]
<1>1. w \in Job /\ w.pc = "rows" /\ w.cfg = config
  BY NoWorkIsJob DEF Job, IInv, NameTypes
<1>2. job' = [job EXCEPT ![p] = w] /\ job[p].pc = "idle"
      /\ UNCHANGED <<author, book, file, proc, shared, disk, held, torn, wiped, formats,
                     config, asked, mixed>>
  BY DEF RenameAll, Work, NoWork
<1> HIDE DEF w
<1>3. job'[p] = w /\ \A q \in Proc \ {p} : job'[q] = job[q]
  BY <1>2 DEF IInv, NameTypes
<1>4. SavesOk'
  BY <1>1, <1>2, <1>3, SavesSame DEF IInv
<1>5. config' \in formats' /\ formats' \subseteq Settings /\ asked' \in Settings
  BY <1>2 DEF IInv, NameTypes, HistoryOk
<1> QED BY <1>1, <1>2, <1>4, <1>5, QuietJob

\* After a file comes the next one, or the job is over.
LEMMA AfterFile ==
    ASSUME NameTypes, HistoryOk, NEW p \in Proc, job[p].pc \in {"move", "row"}, NextFile(p)
    PROVE  \E w \in Job :
              /\ job' = [job EXCEPT ![p] = w] /\ w.pc \in {"idle", "move"}
              /\ w.pc = "move" => /\ w.cfg = job[p].cfg /\ w.todo # <<>>
                                  /\ \A k \in DOMAIN w.todo : MoveOk(w.todo[k])
<1> DEFINE todo == job[p].todo
<1>1. job[p] \in Job /\ todo \in Seq(Move) /\ todo # <<>>
      /\ \A k \in DOMAIN todo : MoveOk(todo[k])
  <2>1. job[p] \in Job /\ TodoOk(p)
    BY DEF NameTypes, HistoryOk
  <2> QED BY <2>1 DEF TodoOk, Job
<1>2. CASE Len(todo) = 1
  <2>1. job' = [job EXCEPT ![p] = NoWork] /\ NoWork.pc = "idle"
    BY <1>2 DEF NextFile, Work, NoWork
  <2> QED BY <2>1, NoWorkIsJob
<1>3. CASE Len(todo) # 1
  <2> DEFINE w == [job[p] EXCEPT !.pc = "move", !.todo = Tail(todo)]
  <2>1. /\ Tail(todo) \in Seq(Move) /\ Len(Tail(todo)) = Len(todo) - 1
        /\ \A k \in 1 .. Len(Tail(todo)) : Tail(todo)[k] = todo[k + 1]
    BY <1>1, HeadTailProperties
  <2>2. w \in Job /\ w.pc = "move" /\ w.cfg = job[p].cfg /\ w.todo = Tail(todo)
    BY <1>1, <2>1 DEF Job
  <2>3. Len(todo) \in Nat /\ Len(todo) # 0 /\ DOMAIN todo = 1 .. Len(todo)
    BY <1>1, LenProperties, EmptySeq
  <2>4. Tail(todo) # <<>> /\ DOMAIN Tail(todo) = 1 .. Len(Tail(todo))
    <3>1. Len(Tail(todo)) # 0
      BY <1>3, <2>1, <2>3
    <3>2. Len(<<>>) = 0
      OBVIOUS
    <3> QED BY <2>1, <3>1, <3>2, LenProperties
  <2>5. \A k \in DOMAIN Tail(todo) : MoveOk(Tail(todo)[k])
    <3> SUFFICES ASSUME NEW k \in 1 .. Len(Tail(todo)) PROVE MoveOk(Tail(todo)[k])
      BY <2>4
    <3>1. k + 1 \in DOMAIN todo /\ Tail(todo)[k] = todo[k + 1]
      BY <2>1, <2>3
    <3> QED BY <1>1, <3>1
  <2>6. job' = [job EXCEPT ![p] = w]
    <3>1. job' = [job EXCEPT ![p] = [job[p] EXCEPT !.pc = "move", !.todo = Tail(@)]]
      BY <1>3 DEF NextFile, Work
    <3>2. w = [job[p] EXCEPT !.pc = "move", !.todo = Tail(@)]
      BY <1>1 DEF Job
    <3> QED BY <3>1, <3>2
  <2> HIDE DEF w
  <2> QED BY <2>2, <2>4, <2>5, <2>6
<1> QED BY <1>2, <1>3

LEMMA RenameFailsKeeps == ASSUME IInv, NEW p \in Proc, RenameFails(p) PROVE IInv'
<1>1. /\ job[p].pc = "move" /\ NextFile(p)
      /\ UNCHANGED <<author, book, file, proc, shared, disk, held, torn, wiped, formats,
                     config, asked, mixed>>
  BY DEF RenameFails, catVars
<1>2. PICK w \in Job :
        /\ job' = [job EXCEPT ![p] = w] /\ w.pc \in {"idle", "move"}
        /\ w.pc = "move" => /\ w.cfg = job[p].cfg /\ w.todo # <<>>
                            /\ \A k \in DOMAIN w.todo : MoveOk(w.todo[k])
  BY <1>1, AfterFile DEF IInv
<1>3. job'[p] = w /\ \A q \in Proc \ {p} : job'[q] = job[q]
  BY <1>2 DEF IInv, NameTypes
<1>4. SavesOk'
  BY <1>1, <1>2, <1>3, SavesSame DEF IInv
<1>5. config' \in formats' /\ formats' \subseteq Settings /\ asked' \in Settings
      /\ job[p].cfg \in formats'
  BY <1>1 DEF IInv, NameTypes, HistoryOk, Renaming
<1> QED BY <1>1, <1>2, <1>4, <1>5, QuietJob

LEMMA SelectFilesKeeps == ASSUME IInv, NEW p \in Proc, SelectFiles(p) PROVE IInv'
<1> DEFINE due == {b \in Books : file[b] # NoFile /\ Wanted(job[p].cfg, b) # file[b]}
           item(b) == [of |-> b, from |-> file[b], to |-> Wanted(job[p].cfg, b)]
<1>1. PICK s \in [1 .. Cardinality(due) -> due] :
        Work(p, IF due = {} THEN NoWork
                ELSE [job[p] EXCEPT !.pc = "move", !.todo = [i \in DOMAIN s |-> item(s[i])]])
  BY DEF SelectFiles
<1>2. /\ job[p].pc = "rows" /\ job[p] \in Job /\ job[p].cfg \in formats
      /\ UNCHANGED <<author, book, file, proc, shared, disk, held, torn, wiped, formats,
                     config, asked, mixed>>
  BY DEF SelectFiles, catVars, IInv, NameTypes, HistoryOk, Renaming
<1>3. ASSUME NEW b \in due
      PROVE  item(b) \in Move /\ MoveOk(item(b))
  <2>1. b \in Books /\ b \in BookId /\ file[b] # NoFile /\ file[b] \in Known(b)
    BY DEF IInv, HistoryOk, Books
  <2>2. Wanted(job[p].cfg, b) \in Known(b)
    <3>1. [of |-> b, name |-> NameOf(b), title |-> book[b].title] \in held
      BY <2>1 DEF IInv, HistoryOk
    <3> QED BY <1>2, <3>1 DEF Known, Wanted
  <2>3. file[b] \in Path /\ Wanted(job[p].cfg, b) \in Path
    BY <2>1, <2>2, KnownPath DEF IInv
  <2>4. book[b].st # "free"
    BY <2>1 DEF Books
  <2> QED BY <2>1, <2>2, <2>3, <2>4 DEF Move, MoveOk
<1>4. Cardinality(due) \in Nat /\ (due # {} => Cardinality(due) # 0)
  <2>1. IsFiniteSet(due)
    <3>1. due \subseteq BookId
      BY DEF Books
    <3> QED BY <3>1, FS_Subset, CatalogConstantsOK
  <2> QED BY <2>1, FS_CardinalityType, FS_EmptySet
<1>5. CASE due = {}
  <2>1. job' = [job EXCEPT ![p] = NoWork] /\ NoWork.pc = "idle"
    BY <1>1, <1>5 DEF Work, NoWork
  <2>2. SavesOk'
    <3>1. job'[p] = NoWork /\ \A q \in Proc \ {p} : job'[q] = job[q]
      BY <2>1 DEF IInv, NameTypes
    <3> QED BY <1>2, <2>1, <3>1, SavesSame DEF IInv
  <2>3. config' \in formats' /\ formats' \subseteq Settings /\ asked' \in Settings
    BY <1>2 DEF IInv, NameTypes, HistoryOk
  <2> QED BY <1>2, <2>1, <2>2, <2>3, NoWorkIsJob, QuietJob
<1>6. CASE due # {}
  <2> DEFINE todo == [i \in DOMAIN s |-> item(s[i])]
             w == [job[p] EXCEPT !.pc = "move", !.todo = todo]
  <2>1. DOMAIN s = 1 .. Cardinality(due) /\ \A i \in DOMAIN s : s[i] \in due
    OBVIOUS
  <2>2. DOMAIN todo = 1 .. Cardinality(due) /\ \A i \in DOMAIN todo : todo[i] = item(s[i])
    BY <2>1
  <2>3. \A i \in DOMAIN todo : todo[i] \in Move /\ MoveOk(todo[i])
    BY <1>3, <2>1, <2>2
  <2>4. todo \in Seq(Move)
    <3> HIDE DEF todo, due
    <3>1. \A i \in 1 .. Cardinality(due) : todo[i] \in Move
      BY <2>2, <2>3
    <3>2. todo = [i \in 1 .. Cardinality(due) |-> todo[i]]
      BY <2>2 DEF todo
    <3> QED BY <1>4, <3>1, <3>2, IsASeq
  <2>5. todo # <<>>
    <3>1. 1 \in DOMAIN todo
      BY <1>4, <1>6, <2>2
    <3>2. DOMAIN <<>> = {}
      OBVIOUS
    <3> HIDE DEF todo
    <3> QED BY <3>1, <3>2
  <2> HIDE DEF todo, due
  <2>6. w \in Job /\ w.pc = "move" /\ w.cfg = job[p].cfg /\ w.todo = todo
    BY <1>2, <2>4 DEF Job
  <2>7. job' = [job EXCEPT ![p] = w]
    BY <1>1, <1>6 DEF Work, todo
  <2> HIDE DEF w
  <2>8. SavesOk'
    <3>1. job'[p] = w /\ \A q \in Proc \ {p} : job'[q] = job[q]
      BY <2>7 DEF IInv, NameTypes
    <3> QED BY <1>2, <2>6, <3>1, SavesSame DEF IInv
  <2>9. config' \in formats' /\ formats' \subseteq Settings /\ asked' \in Settings
    BY <1>2 DEF IInv, NameTypes, HistoryOk
  <2> QED BY <1>2, <2>3, <2>5, <2>6, <2>7, <2>8, <2>9, QuietJob
<1> QED BY <1>5, <1>6

-----------------------------------------------------------------------------
(* Steps that move a file or change its row. *)

LEMMA ItemOk ==
    ASSUME IInv, NEW p \in Proc, job[p].pc \in {"move", "row"}
    PROVE  /\ Item(p) \in Move /\ MoveOk(Item(p)) /\ Item(p).of \in BookId
           /\ Item(p).from \in Path /\ Item(p).to \in Path /\ Item(p).to # NoFile
<1> DEFINE todo == job[p].todo
<1>1. todo \in Seq(Move) /\ todo # <<>> /\ \A k \in DOMAIN todo : MoveOk(todo[k])
  <2>1. TodoOk(p) /\ job[p] \in Job
    BY DEF IInv, NameTypes, HistoryOk
  <2> QED BY <2>1 DEF TodoOk, Job
<1>2. 1 \in DOMAIN todo /\ Head(todo) = todo[1]
  BY <1>1, LenProperties, EmptySeq
<1>3. Item(p) \in Move /\ MoveOk(Item(p))
  <2>1. Head(todo) \in Move
    BY <1>1, HeadTailProperties
  <2> QED BY <1>1, <1>2, <2>1 DEF Item
<1>4. Item(p).to # NoFile
  BY <1>3, KnownPath DEF MoveOk, IInv
<1> QED BY <1>3, <1>4 DEF Move

\* A file is moved from one place of a book to another.
LEMMA MoveFile ==
    ASSUME IInv, NEW c \in BookId, NEW x \in Known(c), NEW y \in Known(c), At(x) # {},
           disk' = Moved(x, y), UNCHANGED <<held, formats, wiped>>
    PROVE  /\ DiskOk' /\ RenameKeepsContents'
           /\ disk' \subseteq [at : Path, of : BookId]
           /\ \A b \in BookId \ {c} : \A path : Alone(b) /\ Entry(path, b) \in disk => Entry(path, b) \in disk'
           /\ Alone(c) => Entry(y, c) \in disk' /\ Entry(x, c) \in disk
<1>1. PICK e \in disk : e.at = x
  BY DEF At
<1>2. disk \subseteq [at : Path, of : BookId] /\ y \in Path
  BY KnownPath DEF IInv, NameTypes
<1>3. \A d, f \in disk : d.at = f.at \/ d.of = f.of => d = f
  BY DEF IInv, DiskOk
<1>4. At(x) = {e} /\ [e EXCEPT !.at = y] = Entry(y, e.of) /\ e = Entry(x, e.of) /\ e.of \in BookId
  <2>1. e \in [at : Path, of : BookId]
    BY <1>2
  <2>2. At(x) = {e}
    BY <1>1, <1>3 DEF At
  <2> QED BY <1>1, <2>1, <2>2 DEF Entry
<1>5. disk' = {Entry(y, e.of)} \cup {d \in disk : d.at \notin {x, y}}
  BY <1>4 DEF Moved
<1>6. \A b : Known(b)' = Known(b)
  BY DEF Known
<1>7. \A b \in BookId : Alone(b)' => Alone(b)
  BY Growth
<1>8. \A b \in BookId : Alone(b) => \A d \in disk : d.of = b <=> d.at \in Known(b)
  BY DEF IInv, DiskOk
<1>9. Entry(y, e.of).at = y /\ Entry(y, e.of).of = e.of
  BY DEF Entry
<1>10. \A b \in BookId \ {c} : Alone(b) => x \notin Known(b) /\ y \notin Known(b) /\ e.of # b
  BY <1>1, <1>8, AloneKnows
<1>11. Alone(c) => e.of = c
  BY <1>1, <1>8
<1>12. DiskOk'
  <2>1. ASSUME NEW d \in disk', NEW f \in disk', d.at = f.at \/ d.of = f.of
        PROVE  d = f
    <3>1. CASE d = Entry(y, e.of) /\ f # Entry(y, e.of)
      <4>1. f \in disk /\ f.at \notin {x, y}
        BY <1>5, <3>1
      <4>2. f.of = e.of
        BY <1>9, <2>1, <3>1, <4>1
      <4> QED BY <1>1, <1>3, <4>1, <4>2
    <3>2. CASE f = Entry(y, e.of) /\ d # Entry(y, e.of)
      <4>1. d \in disk /\ d.at \notin {x, y}
        BY <1>5, <3>2
      <4>2. d.of = e.of
        BY <1>9, <2>1, <3>2, <4>1
      <4> QED BY <1>1, <1>3, <4>1, <4>2
    <3>3. CASE d # Entry(y, e.of) /\ f # Entry(y, e.of)
      <4>1. d \in disk /\ f \in disk
        BY <1>5, <3>3
      <4> QED BY <1>3, <2>1, <4>1
    <3> QED BY <3>1, <3>2, <3>3
  <2>2. ASSUME NEW d \in disk'
        PROVE  \E b \in BookId : d.at \in Known(b)'
    <3>1. CASE d = Entry(y, e.of)
      BY <1>6, <1>9, <3>1
    <3>2. CASE d # Entry(y, e.of)
      <4>1. d \in disk
        BY <1>5, <3>2
      <4> QED BY <1>6, <4>1 DEF IInv, DiskOk
    <3> QED BY <3>1, <3>2
  <2>3. ASSUME NEW d \in disk', NEW b \in BookId, Alone(b)'
        PROVE  d.of = b <=> d.at \in Known(b)'
    <3>1. Alone(b)
      BY <1>7, <2>3
    <3>2. CASE d = Entry(y, e.of)
      BY <1>6, <1>9, <1>10, <1>11, <3>1, <3>2
    <3>3. CASE d # Entry(y, e.of)
      <4>1. d \in disk
        BY <1>5, <3>3
      <4> QED BY <1>6, <1>8, <3>1, <4>1
    <3> QED BY <3>2, <3>3
  <2> QED BY <2>1, <2>2, <2>3 DEF DiskOk
<1>13. \A b \in BookId \ {c} : \A path : Alone(b) /\ Entry(path, b) \in disk => Entry(path, b) \in disk'
  <2> SUFFICES ASSUME NEW b \in BookId \ {c}, NEW path, Alone(b), Entry(path, b) \in disk
               PROVE  Entry(path, b) \in disk'
    OBVIOUS
  <2>1. Entry(path, b).at = path /\ Entry(path, b).of = b
    BY DEF Entry
  <2>2. path \in Known(b)
    BY <1>8, <2>1
  <2> QED BY <1>5, <1>10, <2>1, <2>2
<1>14. RenameKeepsContents'
  <2> SUFFICES ASSUME NEW b \in 1 .. Len(Shelf), Alone(b)', b \notin wiped PROVE b \in Contents'
    BY DEF RenameKeepsContents
  <2>1. b \in BookId /\ Alone(b)
    BY <1>7, CatalogConstantsOK
  <2>2. PICK d \in disk : d.of = b
    BY <2>1 DEF IInv, RenameKeepsContents, Contents
  <2>3. CASE b = c
    BY <1>5, <1>9, <1>11, <2>1, <2>3 DEF Contents
  <2>4. CASE b # c
    <3>1. d = Entry(d.at, b)
      <4>1. d \in [at : Path, of : BookId]
        BY <1>2
      <4> QED BY <2>2, <4>1 DEF Entry
    <3>2. d \in disk'
      BY <1>13, <2>1, <2>4, <3>1
    <3> QED BY <2>2, <3>2 DEF Contents
  <2> QED BY <2>3, <2>4
<1>15. disk' \subseteq [at : Path, of : BookId]
  BY <1>2, <1>4, <1>5 DEF Entry
<1> QED BY <1>1, <1>4, <1>5, <1>11, <1>12, <1>13, <1>14, <1>15

LEMMA JobMoves ==
    ASSUME IInv, NEW p \in Proc, NEW w \in Job, job' = [job EXCEPT ![p] = w],
           UNCHANGED <<author, book, held, formats, config>>,
           \A b \in BookId : file'[b] = NoFile <=> file[b] = NoFile,
           \A b \in Books : file'[b] # NoFile => file'[b] \in Known(b),
           w.pc # "idle" => w.cfg \in formats,
           w.pc # "idle" => w.todo # <<>> /\ \A k \in DOMAIN w.todo :
                w.todo[k].of \in BookId /\ MoveOk(w.todo[k])
    PROVE  HistoryOk'
<1>1. job'[p] = w /\ \A q \in Proc \ {p} : job'[q] = job[q]
  BY DEF IInv, NameTypes
<1>2. Books' = Books /\ (\A b \in Books : NameOf(b)' = NameOf(b)) /\ \A b : Known(b)' = Known(b)
  BY DEF Books, NameOf, Known
<1>3. \A i : i.of \in BookId /\ MoveOk(i) => MoveOk(i)'
  BY <1>2 DEF MoveOk
<1>4. ASSUME NEW q \in Proc PROVE TodoOk(q)'
  <2>1. CASE q = p
    BY <1>1, <1>3, <2>1 DEF TodoOk
  <2>2. CASE q # p /\ job[q].pc \in {"move", "row"}
    <3> PICK todo : todo = job[q].todo
      OBVIOUS
    <3>1. todo # <<>> /\ \A k \in DOMAIN todo : MoveOk(todo[k])
      BY <2>2 DEF IInv, HistoryOk, TodoOk
    <3>2. \A k \in DOMAIN todo : todo[k].of \in BookId
      <4>1. todo \in Seq(Move)
        BY DEF IInv, NameTypes, Job
      <4>2. \A k \in DOMAIN todo : todo[k] \in Move
        BY <4>1, LenProperties, ElementOfSeq
      <4> QED BY <4>2 DEF Move
    <3>3. todo = job'[q].todo
      BY <1>1, <2>2
    <3>4. \A k \in DOMAIN todo : MoveOk(todo[k])'
      BY <1>3, <3>1, <3>2, <3>3
    <3> QED BY <3>1, <3>3, <3>4 DEF TodoOk
  <2>3. CASE q # p /\ job[q].pc \notin {"move", "row"}
    BY <1>1, <2>3 DEF TodoOk
  <2> QED BY <2>1, <2>2, <2>3
<1>5. \A b \in Books' : [of |-> b, name |-> NameOf(b)', title |-> book'[b].title] \in held'
  BY <1>2 DEF IInv, HistoryOk
<1>6. \A b \in Books' : file'[b] # NoFile => file'[b] \in Known(b)'
  BY <1>2
<1>7. \A q \in Proc : Renaming(q)' => job'[q].cfg \in formats'
  BY <1>1 DEF IInv, HistoryOk, Renaming
<1> QED BY <1>4, <1>5, <1>6, <1>7 DEF IInv, HistoryOk

LEMMA RenameFileKeeps == ASSUME IInv, NEW p \in Proc, RenameFile(p) PROVE IInv'
<1> DEFINE i == Item(p)
           c == i.of
           w == [job[p] EXCEPT !.pc = "row"]
<1>1. /\ job[p].pc = "move" /\ job[p] \in Job /\ At(i.from) # {} /\ disk' = Moved(i.from, i.to)
      /\ job' = [job EXCEPT ![p] = w]
      /\ torn' = IF Moving(c) THEN torn \cup {c} ELSE torn
      /\ UNCHANGED <<author, book, file, proc, shared, wiped, held, formats,
                     config, asked, mixed>>
  BY DEF RenameFile, catVars, Work, IInv, NameTypes
<1>2. c \in BookId /\ i.from \in Known(c) /\ i.to \in Known(c)
  BY <1>1, ItemOk DEF MoveOk
<1>3. w \in Job /\ w.pc = "row" /\ w.cfg = job[p].cfg /\ w.todo = job[p].todo
  BY <1>1 DEF Job
<1> HIDE DEF w
<1>4. job'[p] = w /\ \A q \in Proc \ {p} : job'[q] = job[q]
  BY <1>1 DEF IInv, NameTypes
<1>5. CatOk' /\ SavesOk'
  BY <1>1, <1>3, <1>4, CatalogSame, SavesSame DEF IInv
<1>6. /\ DiskOk' /\ RenameKeepsContents'
      /\ disk' \subseteq [at : Path, of : BookId]
      /\ \A b \in BookId \ {c} : \A path : Alone(b) /\ Entry(path, b) \in disk => Entry(path, b) \in disk'
      /\ Alone(c) => Entry(i.to, c) \in disk' /\ Entry(i.from, c) \in disk
  <2> HIDE DEF i, c
  <2> QED BY <1>1, <1>2, MoveFile
<1>7. NameTypes'
  BY <1>1, <1>3, <1>6 DEF IInv, NameTypes
<1>8. HistoryOk'
  <2>1. w.cfg \in formats
    BY <1>1, <1>3 DEF IInv, HistoryOk, Renaming
  <2>2. w.todo # <<>> /\ \A k \in DOMAIN w.todo : w.todo[k].of \in BookId /\ MoveOk(w.todo[k])
    <3> DEFINE todo == job[p].todo
    <3>1. todo # <<>> /\ \A k \in DOMAIN todo : MoveOk(todo[k])
      BY <1>1 DEF IInv, HistoryOk, TodoOk
    <3>2. \A k \in DOMAIN todo : todo[k].of \in BookId
      <4>1. todo \in Seq(Move)
        BY <1>1 DEF Job
      <4>2. \A k \in DOMAIN todo : todo[k] \in Move
        BY <4>1, LenProperties, ElementOfSeq
      <4> QED BY <4>2 DEF Move
    <3> QED BY <1>3, <3>1, <3>2
  <2>3. \A b \in Books : file'[b] # NoFile => file'[b] \in Known(b)
    BY <1>1 DEF IInv, HistoryOk
  <2> QED BY <1>1, <1>3, <2>1, <2>2, <2>3, JobMoves
<1>9. Item(p)' = i /\ \A q \in Proc \ {p} : Item(q)' = Item(q)
  BY <1>3, <1>4 DEF Item
<1>10. RowsFollow'
  <2> SUFFICES ASSUME NEW b \in BookId, Alone(b)', b \notin (torn \cup wiped)', file[b] # NoFile
               PROVE  RowOk(b)'
    BY <1>1 DEF RowsFollow
  <2>1. Alone(b) /\ b \notin torn \cup wiped
    BY <1>1, Growth
  <2>2. RowOk(b)
    BY <2>1 DEF IInv, RowsFollow
  <2>3. CASE b # c
    <3>1. Mover(b)' = Mover(b)
      BY <1>1, <1>4, <1>9, <2>3 DEF Mover
    <3>2. \A q \in Mover(b) : q # p /\ Item(q)' = Item(q)
      BY <1>1, <1>9, <2>3 DEF Mover
    <3>3. \A path : Entry(path, b) \in disk => Entry(path, b) \in disk'
      BY <1>6, <2>1, <2>3
    <3> QED BY <1>1, <2>2, <3>1, <3>2, <3>3 DEF RowOk, Entry
  <2>4. CASE b = c
    <3>1. Mover(c) = {}
      BY <1>1, <2>4 DEF Moving, Mover
    <3>2. Mover(c)' = {p}
      <4>1. p \in Mover(c)'
        BY <1>3, <1>4, <1>9 DEF Mover
      <4>2. \A q \in Proc \ {p} : q \notin Mover(c)'
        BY <1>4, <1>9, <3>1 DEF Mover
      <4> QED BY <4>1, <4>2 DEF Mover
    <3>3. Entry(file[c], c) \in disk /\ Entry(i.from, c) \in disk /\ Entry(i.to, c) \in disk'
      BY <1>6, <2>1, <2>2, <2>4, <3>1 DEF RowOk
    <3>4. file[c] = i.from
      <4>1. Entry(file[c], c) = Entry(i.from, c)
        <5>1. Entry(file[c], c).of = Entry(i.from, c).of
          BY DEF Entry
        <5> QED BY <3>3, <5>1 DEF IInv, DiskOk
      <4> QED BY <4>1 DEF Entry
    <3> QED BY <1>1, <1>9, <2>4, <3>2, <3>3, <3>4 DEF RowOk, Entry
  <2> QED BY <2>3, <2>4
<1> QED BY <1>5, <1>6, <1>7, <1>8, <1>10 DEF IInv

\* The job has left its file: what that means for the other books.
LEMMA Leaving ==
    ASSUME IInv, NEW p \in Proc, job[p].pc = "row", NextFile(p),
           UNCHANGED <<author, book, held, formats, config, asked, mixed>>,
           \A b \in BookId : file'[b] = NoFile <=> file[b] = NoFile,
           \A b \in Books : file'[b] # NoFile => file'[b] \in Known(b)
    PROVE  /\ HistoryOk' /\ SavesOk' /\ job' \in [Proc -> Job]
           /\ \A b \in BookId : Mover(b)' = Mover(b) \ {p}
           /\ \A b \in BookId \ {Item(p).of} : p \notin Mover(b)
           /\ \A b \in BookId : \A q \in Mover(b)' : Item(q)' = Item(q)
<1>1. PICK w \in Job :
        /\ job' = [job EXCEPT ![p] = w] /\ w.pc \in {"idle", "move"}
        /\ w.pc = "move" => /\ w.cfg = job[p].cfg /\ w.todo # <<>>
                            /\ \A k \in DOMAIN w.todo : MoveOk(w.todo[k])
  BY AfterFile DEF IInv
<1>2. job'[p] = w /\ (\A q \in Proc \ {p} : job'[q] = job[q]) /\ job' \in [Proc -> Job]
  BY <1>1 DEF IInv, NameTypes
<1>3. SavesOk'
  BY <1>1, <1>2, SavesSame DEF IInv
<1>4. \A k \in DOMAIN w.todo : w.todo[k].of \in BookId
  <2>1. w.todo \in Seq(Move)
    BY DEF Job
  <2>2. \A k \in DOMAIN w.todo : w.todo[k] \in Move
    BY <2>1, LenProperties, ElementOfSeq
  <2> QED BY <2>2 DEF Move
<1>5. job[p].cfg \in formats
  BY DEF IInv, HistoryOk, Renaming
<1>6. HistoryOk'
  <2>1. w.pc # "idle" => w.cfg \in formats
    BY <1>1, <1>5
  <2>2. w.pc # "idle" => w.todo # <<>> /\ \A k \in DOMAIN w.todo :
            w.todo[k].of \in BookId /\ MoveOk(w.todo[k])
    BY <1>1, <1>4
  <2> QED BY <1>1, <2>1, <2>2, JobMoves
<1>7. \A q \in Proc \ {p} : Item(q)' = Item(q)
  BY <1>2 DEF Item
<1>8. \A b \in BookId : Mover(b)' = Mover(b) \ {p}
  BY <1>1, <1>2, <1>7 DEF Mover
<1>9. \A b \in BookId \ {Item(p).of} : p \notin Mover(b)
  BY DEF Mover
<1>10. \A b \in BookId : \A q \in Mover(b)' : Item(q)' = Item(q)
  BY <1>7, <1>8 DEF Mover
<1> QED BY <1>2, <1>3, <1>6, <1>8, <1>9, <1>10

LEMMA UpdateRowKeeps == ASSUME IInv, NEW p \in Proc, UpdateRow(p) PROVE IInv'
<1>0. PICK i, c : i = Item(p) /\ c = i.of
  OBVIOUS
<1>1. /\ job[p].pc = "row" /\ NextFile(p)
      /\ file' = IF file[c] = NoFile THEN file ELSE [file EXCEPT ![c] = i.to]
      /\ UNCHANGED <<author, book, proc, shared, disk, held, torn, wiped, formats,
                     config, asked, mixed>>
  BY <1>0 DEF UpdateRow
<1>2. c \in BookId /\ i.to \in Known(c) /\ i.to \in Path /\ i.to # NoFile
      /\ (c \in Books => file[c] # NoFile)
  BY <1>0, <1>1, ItemOk DEF MoveOk
<1>3. file \in [BookId -> Path] /\ file' \in [BookId -> Path]
      /\ \A b \in BookId : file'[b] = IF b = c /\ file[c] # NoFile THEN i.to ELSE file[b]
  BY <1>1, <1>2 DEF IInv, CatOk, CatTypes
<1>4. \A b \in BookId : file'[b] = NoFile <=> file[b] = NoFile
  BY <1>2, <1>3
<1>5. Books' = Books /\ Authors' = Authors /\ (\A n : Named(n)' = Named(n)) /\ Books \subseteq BookId
  BY <1>1 DEF Books, Authors, Named
<1>6. \A b \in Books : file'[b] # NoFile => file'[b] \in Known(b)
  BY <1>2, <1>3, <1>5 DEF IInv, HistoryOk
<1>7. CatOk'
  <2>1. CatTypes' /\ RowsOk'
    BY <1>1, <1>3, <1>4, <1>5 DEF IInv, CatOk, CatTypes, RowsOk
  <2>2. InsertsOk' /\ NoTwins'
    BY <1>1, <1>5 DEF IInv, CatOk, InsertsOk, Inserting, NoTwins
  <2> QED BY <2>1, <2>2 DEF CatOk
<1>8. /\ HistoryOk' /\ SavesOk' /\ job' \in [Proc -> Job]
      /\ \A b \in BookId : Mover(b)' = Mover(b) \ {p}
      /\ \A b \in BookId \ {c} : p \notin Mover(b)
      /\ \A b \in BookId : \A q \in Mover(b)' : Item(q)' = Item(q)
  BY <1>0, <1>1, <1>4, <1>6, Leaving
<1>9. NameTypes' /\ DiskOk' /\ RenameKeepsContents'
  BY <1>1, <1>8, DiskGrows, KeepsStay DEF IInv, NameTypes
<1>10. RowsFollow'
  <2> SUFFICES ASSUME NEW b \in BookId, Alone(b)', b \notin torn \cup wiped, file'[b] # NoFile
               PROVE  RowOk(b)'
    BY <1>1 DEF RowsFollow
  <2>1. RowOk(b)
    BY <1>1, <1>4, Growth DEF IInv, RowsFollow
  <2>2. CASE b # c
    <3>1. Mover(b)' = Mover(b) /\ file'[b] = file[b] /\ \A q \in Mover(b) : Item(q)' = Item(q)
      BY <1>3, <1>8, <2>2
    <3> QED BY <1>1, <2>1, <3>1 DEF RowOk, Entry
  <2>3. CASE b = c
    <3>1. p \in Mover(c)
      BY <1>0, <1>1 DEF Mover
    <3>2. Mover(c)' = {}
      BY <1>8, <2>1, <2>3, <3>1 DEF RowOk
    <3>3. Entry(i.to, c) \in disk /\ file'[c] = i.to
      BY <1>0, <1>3, <1>4, <2>1, <2>3, <3>1 DEF RowOk
    <3> QED BY <1>1, <2>3, <3>2, <3>3 DEF RowOk, Entry
  <2> QED BY <2>2, <2>3
<1> QED BY <1>7, <1>8, <1>9, <1>10 DEF IInv

LEMMA RenameBackKeeps == ASSUME IInv, NEW p \in Proc, RenameBack(p) PROVE IInv'
<1>0. PICK i, c : i = Item(p) /\ c = i.of
  OBVIOUS
<1>1. /\ job[p].pc = "row" /\ NextFile(p)
      /\ \/ At(i.to) # {} /\ disk' = Moved(i.to, i.from) /\ torn' = torn
         \/ disk' = disk /\ torn' = torn \cup {c}
      /\ UNCHANGED <<author, book, file, proc, shared, held, wiped, formats,
                     config, asked, mixed>>
  BY <1>0 DEF RenameBack, catVars
<1>2. c \in BookId /\ i.to \in Known(c) /\ i.from \in Known(c)
  BY <1>0, <1>1, ItemOk DEF MoveOk
<1>3. p \in Mover(c)
  BY <1>0, <1>1 DEF Mover
<1>4. CatOk'
  BY <1>1, CatalogSame DEF IInv
<1>5. /\ HistoryOk' /\ SavesOk' /\ job' \in [Proc -> Job]
      /\ \A b \in BookId : Mover(b)' = Mover(b) \ {p}
      /\ \A b \in BookId \ {c} : p \notin Mover(b)
      /\ \A b \in BookId : \A q \in Mover(b)' : Item(q)' = Item(q)
  <2>1. \A b \in Books : file'[b] # NoFile => file'[b] \in Known(b)
    BY <1>1 DEF IInv, HistoryOk
  <2> QED BY <1>0, <1>1, <2>1, Leaving
<1>6. /\ DiskOk' /\ RenameKeepsContents'
      /\ disk' \subseteq [at : Path, of : BookId]
      /\ \A b \in BookId \ {c} : \A path : Alone(b) /\ Entry(path, b) \in disk => Entry(path, b) \in disk'
      /\ Alone(c) /\ c \notin torn' => Entry(i.from, c) \in disk'
  <2>1. CASE disk' = disk /\ torn' = torn \cup {c}
    <3>1. DiskOk' /\ RenameKeepsContents'
      BY <1>1, <2>1, DiskGrows, KeepsStay DEF IInv
    <3> QED BY <1>1, <2>1, <3>1 DEF IInv, NameTypes
  <2>2. CASE At(i.to) # {} /\ disk' = Moved(i.to, i.from)
    <3> QED BY <1>1, <1>2, <2>2, MoveFile
  <2> QED BY <1>1, <2>1, <2>2
<1>7. NameTypes'
  BY <1>1, <1>5, <1>6 DEF IInv, NameTypes
<1>8. RowsFollow'
  <2> SUFFICES ASSUME NEW b \in BookId, Alone(b)', b \notin (torn \cup wiped)', file[b] # NoFile
               PROVE  RowOk(b)'
    BY <1>1 DEF RowsFollow
  <2>1. RowOk(b) /\ Alone(b)
    BY <1>1, Growth DEF IInv, RowsFollow
  <2>2. CASE b # c
    <3>1. Mover(b)' = Mover(b) /\ \A q \in Mover(b) : Item(q)' = Item(q)
      BY <1>5, <2>2
    <3>2. \A path : Entry(path, b) \in disk => Entry(path, b) \in disk'
      BY <1>6, <2>1, <2>2
    <3> QED BY <1>1, <2>1, <3>1, <3>2 DEF RowOk, Entry
  <2>3. CASE b = c
    <3>1. Mover(c)' = {}
      BY <1>3, <1>5, <2>1, <2>3 DEF RowOk
    <3>2. file[c] = i.from
      BY <1>0, <1>3, <2>1, <2>3 DEF RowOk
    <3>4. Entry(i.from, c) \in disk'
      BY <1>6, <2>1, <2>3
    <3> QED BY <1>1, <2>3, <3>1, <3>2, <3>4 DEF RowOk, Entry
  <2> QED BY <2>2, <2>3
<1> QED BY <1>4, <1>5, <1>6, <1>7, <1>8 DEF IInv

\* Files go with a folder, and are noted.
LEMMA RemoveFolderKeeps == ASSUME IInv, NEW p \in Proc, RemoveFolder(p) PROVE IInv'
<1> USE CatalogConstantsOK
<1>1. /\ disk' \subseteq disk /\ wiped' = wiped \cup {d.of : d \in disk \ disk'}
      /\ UNCHANGED <<author, book, file, shared, config, job, asked, mixed, formats, held, torn>>
      /\ proc' = proc \/ \E a \in Authors : Become(p, [Idle EXCEPT !.pc = "purge", !.id = a])
  BY DEF RemoveFolder
<1>2. CatOk'
  <2>1. CASE proc' = proc
    BY <1>1, <2>1, CatalogSame DEF IInv
  <2>2. CASE proc' # proc
    <3>1. PICK a \in Authors : Become(p, [Idle EXCEPT !.pc = "purge", !.id = a])
      BY <1>1, <2>2
    <3>2. CatTypes /\ a \in Nat /\ "purge" \in CatPC
      BY DEF IInv, CatOk, Authors, CatPC
    <3>3. Turns(p, {"purge"})
      BY <3>1, <3>2, Becoming
    <3>4. Turns(p, CatPC \ {"insert"})
      BY <3>2, <3>3 DEF Turns
    <3>5. CatStepOk
      BY <1>1, <3>4, TurnStep DEF IInv, UNCHANGEDrows
    <3> QED BY <3>5 DEF CatStepOk
  <2> QED BY <2>1, <2>2
<1>3. SavesOk'
  BY <1>1, SavesSame DEF IInv
<1>4. NameTypes'
  BY <1>1 DEF IInv, NameTypes
<1>5. /\ Books' = Books /\ (\A b \in Books : NameOf(b)' = NameOf(b))
      /\ (\A b : Known(b)' = Known(b)) /\ \A b \in BookId : Alone(b)' => Alone(b)
  <2>1. UNCHANGED <<author, book, held, formats>>
    BY <1>1
  <2>2. /\ Books' = Books /\ (\A b \in Books : NameOf(b)' = NameOf(b))
        /\ \A b : Known(b)' = Known(b)
    BY <2>1 DEF Books, NameOf, Known
  <2>3. \A b \in BookId : Alone(b)' => Alone(b)
    BY <2>1, Growth
  <2> QED BY <2>2, <2>3
<1>6. HistoryOk'
  <2>1. \A q \in Proc : TodoOk(q)'
    BY <1>1, <1>5, MovesStay DEF IInv
  <2> QED BY <1>1, <1>5, <2>1 DEF IInv, HistoryOk, Renaming
<1>7. DiskOk'
  BY <1>1, <1>5 DEF IInv, DiskOk
<1>8. \A d \in disk : d \in disk' \/ d.of \in wiped'
  BY <1>1
<1>9. RowsFollow'
  <2> SUFFICES ASSUME NEW b \in BookId, Alone(b)', b \notin (torn \cup wiped)', file[b] # NoFile
               PROVE  RowOk(b)'
    BY <1>1 DEF RowsFollow
  <2>1. RowOk(b)
    BY <1>1, <1>5 DEF IInv, RowsFollow
  <2>2. Mover(b)' = Mover(b) /\ \A q \in Proc : Item(q)' = Item(q)
    BY <1>1 DEF Mover, Item
  <2>3. ASSUME NEW path, Entry(path, b) \in disk PROVE Entry(path, b) \in disk'
    <3>1. Entry(path, b).of = b
      BY DEF Entry
    <3> QED BY <1>8, <2>3, <3>1
  <2> QED BY <1>1, <2>1, <2>2, <2>3 DEF RowOk, Entry, Mover
<1>10. RenameKeepsContents'
  <2> SUFFICES ASSUME NEW b \in 1 .. Len(Shelf), Alone(b)', b \notin wiped' PROVE b \in Contents'
    BY DEF RenameKeepsContents
  <2>1. b \in Contents
    BY <1>1, <1>5 DEF IInv, RenameKeepsContents
  <2>2. PICK d \in disk : d.of = b
    BY <2>1 DEF Contents
  <2>3. d \in disk'
    BY <1>8, <2>2
  <2> QED BY <2>2, <2>3 DEF Contents
<1> QED BY <1>2, <1>3, <1>4, <1>6, <1>7, <1>9, <1>10 DEF IInv

LEMMA ImportFileKeeps == ASSUME IInv, ImportFile PROVE IInv'
<1>1. PICK b \in Books : LET path == Wanted(config, b) IN
        /\ file[b] = NoFile
        /\ \A d \in disk : d.at # path /\ d.of # b
        /\ \A o \in Books : file[o] # path
        /\ file' = [file EXCEPT ![b] = path]
        /\ disk' = disk \cup {[at |-> path, of |-> b]}
        /\ UNCHANGED <<author, book, proc, requests, shared, config, job, faults, asked,
                       mixed, formats, held, torn, wiped>>
  BY DEF ImportFile
<1>2. PICK path, e : path = Wanted(config, b) /\ e = Entry(path, b)
  OBVIOUS
<1>3. /\ file[b] = NoFile /\ (\A d \in disk : d.at # path /\ d.of # b)
      /\ file' = [file EXCEPT ![b] = path] /\ disk' = disk \cup {e}
      /\ e.at = path /\ e.of = b /\ b \in BookId
      /\ UNCHANGED <<author, book, proc, shared, config, job, asked,
                     mixed, formats, held, torn, wiped>>
  BY <1>1, <1>2 DEF Entry, Books
<1>4. path \in Known(b)
  <2>1. [of |-> b, name |-> NameOf(b), title |-> book[b].title] \in held /\ config \in formats
    BY DEF IInv, HistoryOk
  <2> QED BY <1>2, <2>1 DEF Known, Wanted
<1>5. path \in Path /\ path # NoFile
  BY <1>4, KnownPath DEF IInv
<1>6. file' \in [BookId -> Path] /\ \A c \in BookId : file'[c] = IF c = b THEN path ELSE file[c]
  BY <1>3, <1>5 DEF IInv, CatOk, CatTypes
<1>7. /\ Books' = Books /\ Authors' = Authors /\ (\A n : Named(n)' = Named(n))
      /\ (\A c : Known(c)' = Known(c)) /\ \A c \in Books : NameOf(c)' = NameOf(c)
  BY <1>3 DEF Books, Authors, Named, Known, NameOf
<1>8. CatOk'
  <2>1. CatTypes' /\ RowsOk'
    BY <1>3, <1>6, <1>7 DEF IInv, CatOk, CatTypes, RowsOk, Books
  <2>2. InsertsOk' /\ NoTwins'
    BY <1>3, <1>7 DEF IInv, CatOk, InsertsOk, Inserting, NoTwins
  <2> QED BY <2>1, <2>2 DEF CatOk
<1>9. SavesOk'
  BY <1>3, SavesSame DEF IInv
<1>10. NameTypes'
  <2>1. e \in [at : Path, of : BookId]
    BY <1>2, <1>3, <1>5 DEF Entry
  <2> QED BY <1>3, <2>1 DEF IInv, NameTypes
<1>11. HistoryOk'
  <2>1. \A c \in Books' : [of |-> c, name |-> NameOf(c)', title |-> book'[c].title] \in held'
    BY <1>3, <1>7 DEF IInv, HistoryOk
  <2>2. \A c \in Books' : file'[c] # NoFile => file'[c] \in Known(c)'
    BY <1>4, <1>6, <1>7 DEF IInv, HistoryOk, Books
  <2>3. config' \in formats' /\ \A p \in Proc : Renaming(p)' => job'[p].cfg \in formats'
    BY <1>3 DEF IInv, HistoryOk, Renaming
  <2>4. \A p \in Proc : TodoOk(p)'
    <3>1. \A c \in BookId : book[c].st # "free" =>
              /\ book'[c].st # "free"
              /\ c \in Books' => c \in Books /\ (file[c] # NoFile => file'[c] # NoFile)
      BY <1>3, <1>5, <1>6, <1>7
    <3> QED BY <1>3, <3>1, MovesStay DEF IInv
  <2> QED BY <2>1, <2>2, <2>3, <2>4 DEF HistoryOk
<1>12. \A c \in BookId : Alone(c)' => Alone(c)
  BY <1>3, Growth
<1>13. DiskOk'
  <2>1. \A d, f \in disk' : d.at = f.at \/ d.of = f.of => d = f
    BY <1>3 DEF IInv, DiskOk
  <2>2. \A d \in disk' : \E c \in BookId : d.at \in Known(c)'
    BY <1>3, <1>4, <1>7 DEF IInv, DiskOk
  <2>3. ASSUME NEW d \in disk', NEW c \in BookId, Alone(c)'
        PROVE  d.of = c <=> d.at \in Known(c)'
    <3>1. CASE d = e
      <4>1. path \in Known(c) => c = b
        BY <1>3, <1>4, <1>12, <2>3, AloneKnows
      <4> QED BY <1>3, <1>4, <1>7, <3>1, <4>1
    <3>2. CASE d # e
      BY <1>3, <1>7, <1>12, <2>3, <3>2 DEF IInv, DiskOk
    <3> QED BY <3>1, <3>2
  <2> QED BY <2>1, <2>2, <2>3 DEF DiskOk
<1>14. \A c \in BookId : Mover(c)' = Mover(c) /\ \A p \in Proc : Item(p)' = Item(p)
  BY <1>3 DEF Mover, Item
<1>15. Mover(b) = {}
  <2> SUFFICES ASSUME NEW p \in Mover(b) PROVE FALSE
    OBVIOUS
  <2>1. p \in Proc /\ job[p].pc = "row" /\ Item(p).of = b
    BY DEF Mover
  <2>2. MoveOk(Item(p))
    BY <2>1, ItemOk
  <2> QED BY <1>3, <2>1, <2>2 DEF MoveOk
<1>16. RowsFollow'
  <2> SUFFICES ASSUME NEW c \in BookId, Alone(c)', c \notin torn \cup wiped, file'[c] # NoFile
               PROVE  RowOk(c)'
    BY <1>3 DEF RowsFollow
  <2>1. CASE c = b
    <3>1. Mover(b)' = {} /\ file'[b] = path
      BY <1>3, <1>6, <1>14, <1>15
    <3>2. Entry(path, b) \in disk'
      BY <1>2, <1>3
    <3> QED BY <2>1, <3>1, <3>2 DEF RowOk, Entry
  <2>2. CASE c # b
    <3>1. RowOk(c) /\ file'[c] = file[c] /\ disk \subseteq disk'
      BY <1>3, <1>6, <1>12, <2>2 DEF IInv, RowsFollow
    <3> QED BY <1>14, <3>1 DEF RowOk, Entry, Mover
  <2> QED BY <2>1, <2>2
<1>17. RenameKeepsContents'
  <2>1. Contents \subseteq Contents' /\ 1 .. Len(Shelf) \subseteq BookId
    BY <1>3, CatalogConstantsOK DEF Contents
  <2> QED BY <1>3, <1>12, <2>1 DEF IInv, RenameKeepsContents
<1> QED BY <1>8, <1>9, <1>10, <1>11, <1>13, <1>16, <1>17 DEF IInv

LEMMA CrashKeeps == ASSUME IInv, Crash PROVE IInv'
<1>1. /\ proc' = [p \in Proc |-> Idle] /\ job' = [p \in Proc |-> NoWork]
      /\ mixed' = (mixed \/ Saving # {})
      /\ torn' = torn \cup {Item(p).of : p \in {q \in Proc : job[q].pc = "row"}}
      /\ UNCHANGED <<author, book, file, shared, config, disk, asked, formats, held, wiped>>
  BY DEF Crash
<1>2. Idle \in Process /\ Idle.pc = "idle" /\ NoWork \in Job /\ NoWork.pc = "idle"
  BY NoWorkIsJob DEF Idle, Process, CatPC, Names, Titles, NoWork
<1>3. /\ Books' = Books /\ Authors' = Authors /\ (\A n : Named(n)' = Named(n))
      /\ (\A c : Known(c)' = Known(c)) /\ \A c \in Books : NameOf(c)' = NameOf(c)
  BY <1>1 DEF Books, Authors, Named, Known, NameOf
<1>4. CatOk'
  <2>1. CatTypes' /\ RowsOk'
    BY <1>1, <1>2, <1>3 DEF IInv, CatOk, CatTypes, RowsOk
  <2>2. InsertsOk'
    BY <1>1, <1>2 DEF InsertsOk, Inserting
  <2>3. NoTwins'
    BY <1>1, <1>3 DEF IInv, CatOk, NoTwins
  <2> QED BY <2>1, <2>2, <2>3 DEF CatOk
<1>5. SavesOk'
  <2>1. Saving' = {}
    BY <1>1, <1>2 DEF Saving
  <2> QED BY <1>1, <2>1 DEF IInv, SavesOk
<1>6. NameTypes'
  BY <1>1, <1>2 DEF IInv, NameTypes
<1>7. HistoryOk'
  <2>1. /\ \A c \in Books' : [of |-> c, name |-> NameOf(c)', title |-> book'[c].title] \in held'
        /\ \A c \in Books' : file'[c] # NoFile => file'[c] \in Known(c)'
    BY <1>1, <1>3 DEF IInv, HistoryOk
  <2>2. \A p \in Proc : ~Renaming(p)' /\ TodoOk(p)'
    BY <1>1, <1>2 DEF Renaming, TodoOk
  <2> QED BY <1>1, <2>1, <2>2 DEF IInv, HistoryOk
<1>8. DiskOk' /\ RenameKeepsContents'
  BY <1>1, DiskGrows, KeepsStay DEF IInv
<1>9. RowsFollow'
  <2> SUFFICES ASSUME NEW b \in BookId, Alone(b)', b \notin (torn \cup wiped)', file[b] # NoFile
               PROVE  RowOk(b)'
    BY <1>1 DEF RowsFollow
  <2>1. Mover(b) = {}
    BY <1>1 DEF Mover
  <2>2. Entry(file[b], b) \in disk
    BY <1>1, <2>1, Growth DEF IInv, RowsFollow, RowOk
  <2>3. Mover(b)' = {}
    BY <1>1, <1>2 DEF Mover
  <2> QED BY <1>1, <2>2, <2>3 DEF RowOk, Entry
<1> QED BY <1>4, <1>5, <1>6, <1>7, <1>8, <1>9 DEF IInv

LEMMA StutterKeeps == ASSUME IInv, UNCHANGED vars PROVE IInv'
<1>1. UNCHANGED <<author, book, file, proc, shared, config, disk, job, asked,
                  mixed, formats, held, torn, wiped>>
  BY DEF vars, catVars, nameVars
<1>2. CatOk' /\ SavesOk' /\ DiskOk' /\ RenameKeepsContents'
  BY <1>1, CatalogSame, SavesSame, DiskGrows, KeepsStay DEF IInv
<1>3. NameTypes' /\ RowsFollow'
  BY <1>1, RowsStay DEF IInv, NameTypes
<1>4. HistoryOk'
  <2>1. \A p \in Proc : TodoOk(p)'
    BY <1>1, MovesStay DEF IInv, Books
  <2>2. Books' = Books /\ (\A b \in Books : NameOf(b)' = NameOf(b)) /\ \A b : Known(b)' = Known(b)
    BY <1>1 DEF Books, NameOf, Known
  <2> QED BY <1>1, <2>1, <2>2 DEF IInv, HistoryOk, Renaming
<1> QED BY <1>2, <1>3, <1>4 DEF IInv

-----------------------------------------------------------------------------
(* Theorems. *)

LEMMA StepKeeps == IInv /\ [Next]_vars => IInv'
<1> SUFFICES ASSUME IInv, [Next]_vars PROVE IInv'
  OBVIOUS
<1>1. CASE Catalogue
  BY <1>1, CatalogueKeeps
<1>2. CASE \E p \in Proc : NameStep(p)
  <2>1. PICK p \in Proc : NameStep(p)
    BY <1>2
  <2>2. CASE UpdateSettings(p) \/ SaveSettings(p) \/ RenameAll(p) \/ SelectFiles(p)
    BY <2>2, UpdateSettingsKeeps, SaveSettingsKeeps, RenameAllKeeps, SelectFilesKeeps
  <2>3. CASE RenameFile(p) \/ RenameFails(p) \/ UpdateRow(p) \/ RenameBack(p)
                \/ RemoveFolder(p)
    BY <2>3, RenameFileKeeps, RenameFailsKeeps, UpdateRowKeeps, RenameBackKeeps,
       RemoveFolderKeeps
  <2> QED BY <2>1, <2>2, <2>3 DEF NameStep
<1>3. CASE ImportFile \/ Crash
  BY <1>3, ImportFileKeeps, CrashKeeps
<1>4. CASE UNCHANGED vars
  BY <1>4, StutterKeeps
<1> QED BY <1>1, <1>2, <1>3, <1>4 DEF Next

\* The inductive invariant holds in every reachable state.
THEOREM CatalogInvariant == Spec => []IInv
BY FirstOk, StepKeeps, PTL DEF Spec

\* Every book has an author, only books have files, and no place two.
THEOREM CatalogTypes == Spec => []TypeOK
<1>1. IInv => TypeOK
  BY DEF IInv, CatOk, RowsOk, DiskOk, TypeOK
<1> QED BY <1>1, CatalogInvariant, PTL

\* However many requests look an author up side by side, two of one name come
\* only of a race both have lost, or of a renamed author.
THEOREM FindOrCreateMakesOne == Spec => []NoTwins
<1>1. IInv => NoTwins
  BY DEF IInv, CatOk
<1> QED BY <1>1, CatalogInvariant, PTL

\* Rename jobs keep the row of every file that shares no path in step with the
\* disk, unless the file is being moved, its move was cut in two, by a move back
\* that failed among others, or it went with the folder of an author.
THEOREM RowsKeepPointing == Spec => []RowsPointToFiles
<1>1. IInv => RowsPointToFiles
  <2> SUFFICES ASSUME IInv, NEW b \in Books, file[b] # NoFile, ~Moving(b), b \notin torn \cup wiped, Alone(b)
               PROVE  [at |-> file[b], of |-> b] \in disk
    BY DEF RowsPointToFiles
  <2>1. b \in BookId /\ Mover(b) = {}
    BY DEF Books, Mover, Moving
  <2> QED BY <2>1 DEF IInv, RowsFollow, RowOk, Entry
<1> QED BY <1>1, CatalogInvariant, PTL

\* No number of renames, faults and restarts loses the file of a book that
\* shares no path with another and went with no author's folder.
THEOREM RenamesLoseNothing == Spec => []RenameKeepsContents
<1>1. IInv => RenameKeepsContents
  BY DEF IInv
<1> QED BY <1>1, CatalogInvariant, PTL

\* Unless two requests saved at once or one was cut short, the settings are
\* those of one request.
THEOREM SettingsStayWhole == Spec => []SettingsOfOneRequest
<1>1. IInv => SettingsOfOneRequest
  BY DEF IInv, SavesOk, SettingsOfOneRequest
<1> QED BY <1>1, CatalogInvariant, PTL
=================================================================================
