--------------------------- MODULE LibraryScanner ---------------------------
(***************************************************************************)
(* The library on disk and in the database: root_folders, authors, books   *)
(* and book_files, the scans of internal/core/library that bring the rows  *)
(* in line with the files, any number side by side, and what the user does *)
(* meanwhile: files come, change and go, authors are deleted.              *)
(*                                                                         *)
(* A path is a sequence of names.  Every step is one statement (there is   *)
(* one connection, so statements do not overlap) or one look at the disk.  *)
(* A walk reads directories and visits files in any order, which covers    *)
(* the lexical one whatever the names are.                                 *)
(***************************************************************************)
EXTENDS Naturals, Sequences, FiniteSets, SequencesExt

CONSTANTS
    Name,           \* names of directories, authors, titles and files
    Unknown,        \* "Unknown Author"
    NoName,         \* the empty string
    Lower,          \* LOWER() on names
    Alike,          \* pairs of names: LIKE 'a' accepts the different name b
    Longer,         \* pairs of names: LIKE 'a%' does
    Hidden,         \* names that begin with a dot
    Dashed,         \* what a file name "Author - Title" says, for such names
    Folder,         \* sanitizeFolderName of an author's name; it may leave nothing
    Place,          \* paths of files of a supported format: directory and base name
    Content,        \* what a file may hold
    Cut, Absent,    \* a file cut off by a failed copy; no file
    Size, Meta,     \* of a content: its size, and the metadata in it
    Roots,          \* the root folders' paths
    Library,        \* what is on disk before the first scan
    Scan,           \* scans that may run side by side
    AuthorScans,    \* whether the user also scans an author's folder
    MaxScans, MaxChanges    \* of scans, and of the user's doings beside them

Info == [author : Name \cup {NoName, Unknown}, title : Name \cup {NoName}]

ASSUME ConstantsOK ==
    /\ NoName \notin Name /\ Unknown \in Name
    /\ Lower \in [Name -> Name]
    /\ Alike \subseteq Name \X Name /\ Longer \subseteq Name \X Name
    /\ Hidden \subseteq Name
    /\ DOMAIN Dashed \subseteq Name /\ Dashed \in [DOMAIN Dashed -> Info]
    /\ Folder \in [Name -> Name \cup {NoName}]
    /\ Place \subseteq [dir : Seq(Name), base : Name]
    /\ Cut \notin Content /\ Absent \notin Content \cup {Cut}
    /\ Size \in [Content \cup {Cut} -> Nat]
    /\ Meta \in [Content \cup {Cut} -> Info]
    /\ Roots \in Seq(Seq(Name) \ {<<>>})
    /\ \A i, j \in DOMAIN Roots : Roots[i] = Roots[j] => i = j
    /\ Library \in [Place -> Content \cup {Absent}]
    /\ AuthorScans \in BOOLEAN
    /\ {MaxScans, MaxChanges} \subseteq Nat

VARIABLES
    root,       \* root_folders: id and path
    author,     \* authors: id, name and path
    book,       \* books: id, author and title
    file,       \* book_files: place, book and size
    lastId,     \* the AUTOINCREMENT counters
    disk,       \* the content of each place
    scan,       \* the scans
    deleting,   \* the author whose folder is gone and whose row is not, or 0
    scans, changes,
    \* history: scanned folders that nothing has disturbed since, and scans
    \* that something did disturb
    mirrored, stale

tables   == <<root, author, book, file, lastId>>
history  == <<mirrored, stale>>
bounds   == <<scans, changes>>
scanVars == <<tables, disk, scan, deleting, bounds, history>>

-----------------------------------------------------------------------------
(* Paths *)

NoPlace == [dir |-> <<>>, base |-> NoName]
Full(p) == Append(p.dir, p.base)

Under(dir, p)  == IsPrefix(dir, p.dir)
Within(dir, p) == SubSeq(p.dir, Len(dir) + 1, Len(p.dir))

\* path LIKE prefix || '%': letters are alike in both cases, a '_' in the prefix
\* stands for any, and its last name may be cut short.
Like(prefix, path) ==
    LET n == Len(prefix)
        Accepts(i, pairs) == path[i] = prefix[i] \/ <<prefix[i], path[i]>> \in pairs
    IN  /\ Len(path) >= n
        /\ \A i \in 1..n - 1 : Accepts(i, Alike)
        /\ Accepts(n, Longer)

\* WalkDir skips hidden directories, the one it starts from included.
Walkable(dir, p) ==
    /\ Under(dir, p)
    /\ \A i \in Len(dir)..Len(p.dir) : p.dir[i] \notin Hidden

NoInfo == [author |-> NoName, title |-> NoName]

\* Mutant: the author's folder is taken for a part of the root.
parsePathForBookInfo_deep(dir, p) ==
    LET parts == Within(dir, p) IN
    IF Len(parts) < 2 THEN [author |-> NoName, title |-> p.base]
    ELSE [author |-> parts[1], title |-> parts[2]]

\* What the path says of author and title, relative to where the scan began.
parsePathForBookInfo(dir, p) ==
    LET parts == Within(dir, p) IN
    CASE parts = <<>> /\ p.base \in DOMAIN Dashed -> Dashed[p.base]
      [] parts = <<>> -> [author |-> NoName, title |-> p.base]
      [] Len(parts) = 1 -> [author |-> parts[1], title |-> p.base]
      [] OTHER -> [author |-> parts[1], title |-> parts[2]]

\* The metadata in the file go before the path; a file without a title has its
\* own name for one.
Discovered(dir, p) ==
    LET said == parsePathForBookInfo(dir, p)
        meta == IF disk[p] = Absent THEN NoInfo ELSE Meta[disk[p]]
        name == IF meta.author # NoName THEN meta.author ELSE said.author
    IN  [author |-> IF name = NoName THEN Unknown ELSE name,
         title  |-> CASE meta.title # NoName -> meta.title
                      [] meta.title = NoName /\ said.title # NoName -> said.title
                      [] OTHER -> p.base]

OnDisk(p) == disk[p] # Absent
Row(p)    == {f \in file : f.place = p}
Paths     == {f.place : f \in file}

SameName(x, y) == Lower[x] = Lower[y]

AuthorsNamed(n)     == {a \in author : SameName(a.name, n)}
BooksTitled(id, t)  == {b \in book : b.author = id /\ SameName(b.title, t)}

\* Books called t of an author whose folder is dir.
BooksIn(dir, t) ==
    {b \in book : b.title = t /\ \E a \in author : a.id = b.author /\ a.path = dir}

\* matchFileToBook: the file name in the author's folder, else the folder's
\* name in its parent.
Matches(p) ==
    LET byFile == BooksIn(p.dir, p.base) IN
    IF byFile # {} THEN byFile ELSE BooksIn(Front(p.dir), Last(p.dir))

-----------------------------------------------------------------------------
Idle == [pc |-> "idle", root |-> <<>>, existing |-> {}, dirs |-> {}, todo |-> {},
         found |-> {}, at |-> NoPlace, size |-> 0, info |-> NoInfo,
         author |-> 0, book |-> 0, missed |-> {}]

Init ==
    /\ root = {[id |-> i, path |-> Roots[i]] : i \in DOMAIN Roots}
    /\ author = {} /\ book = {} /\ file = {}
    /\ lastId = [root |-> Cardinality(root), author |-> 0, book |-> 0]
    /\ disk = Library
    /\ scan = [s \in Scan |-> Idle]
    /\ deleting = 0
    /\ scans = 0 /\ changes = 0
    /\ mirrored = {} /\ stale = {}

Running == {s \in Scan : scan[s].pc # "idle"}

\* What a scan in progress has read is no longer what it would read now.
Disturbed == mirrored' = {} /\ stale' = Running'

Become(s, r) == scan' = [scan EXCEPT ![s] = r]

\* On to the next entry, with nothing kept of the last file.
BackToWalk(r) == [r EXCEPT !.pc = "walk", !.at = NoPlace, !.size = 0,
                           !.info = NoInfo, !.author = 0, !.book = 0]

DiskBecomes(d) ==
    /\ disk' = d
    /\ scan' = [s \in Scan |-> [scan[s] EXCEPT
                   !.missed = @ \cup {p \in scan[s].existing : d[p] = Absent}]]
    /\ Disturbed

(* Of the actions of a scan, only those named after a statement that writes *)
(* change the tables.                                                       *)
Reads(s, r) ==
    /\ Become(s, r)
    /\ UNCHANGED <<tables, disk, deleting, bounds, history>>

-----------------------------------------------------------------------------
(* ScanPath *)

\* ScanRootFolder, ScanAuthorFolder, the new root folder and the end of an
\* import: the path to scan is read first.
ScanBegin(s, dir) ==
    /\ scan[s].pc = "idle" /\ scans < MaxScans
    /\ \/ \E r \in root : r.path = dir
       \/ AuthorScans /\ \E a \in author : a.path = dir
    /\ scans' = scans + 1
    /\ Become(s, [Idle EXCEPT !.pc = "snapshot", !.root = dir])
    /\ UNCHANGED <<tables, disk, deleting, changes, mirrored, stale>>

\* SELECT path FROM book_files WHERE path LIKE root%.
Snapshot(s) ==
    LET r   == scan[s]
        old == {p \in Paths : Like(r.root, Full(p))}
    IN
    /\ r.pc = "snapshot"
    /\ Reads(s, [r EXCEPT !.pc = "walk",
                 !.existing = old,
                 !.dirs = {p.dir : p \in {q \in Place : Walkable(r.root, q)}},
                 !.missed = {p \in old : ~OnDisk(p)}])

ReadDir(s, dir) ==
    LET r == scan[s] IN
    /\ r.pc = "walk" /\ dir \in r.dirs
    /\ Reads(s, [r EXCEPT !.dirs = @ \ {dir},
                 !.todo = @ \cup {p \in Place : p.dir = dir /\ OnDisk(p)}])

\* The directory cannot be read, or only in part: the error is logged, and of
\* what is below it only what was listed is met.
ReadDirFails(s, dir) ==
    LET r == scan[s] IN
    /\ r.pc = "walk" /\ dir \in r.dirs /\ changes < MaxChanges
    /\ changes' = changes + 1
    /\ \E listed \in SUBSET {p \in Place : p.dir = dir /\ OnDisk(p)},
          lost \in SUBSET {d \in r.dirs : IsPrefix(dir, d)} :
        /\ dir \in lost
        /\ Become(s, [r EXCEPT !.dirs = @ \ lost, !.todo = @ \cup listed,
                               !.missed = @ \cup {p \in r.existing : Under(dir, p)}])
    /\ Disturbed
    /\ UNCHANGED <<tables, disk, deleting, scans>>

\* Mutant: only the files that are added count as found.
Visit_foundNew(s, p) ==
    LET r    == scan[s]
        next == [r EXCEPT !.todo = @ \ {p},
                          !.found = IF p \in r.existing THEN @ ELSE @ \cup {p}]
    IN
    /\ r.pc = "walk" /\ p \in r.todo
    /\ Reads(s, IF OnDisk(p)
                THEN [next EXCEPT !.at = p, !.size = Size[disk[p]],
                      !.pc = IF p \in r.existing THEN "compare" ELSE "match"]
                ELSE next)

\* The file is found even if the os.Stat that follows no longer finds it.
Visit(s, p) ==
    LET r    == scan[s]
        next == [r EXCEPT !.todo = @ \ {p}, !.found = @ \cup {p}]
    IN
    /\ r.pc = "walk" /\ p \in r.todo
    /\ Reads(s, IF OnDisk(p)
                THEN [next EXCEPT !.at = p, !.size = Size[disk[p]],
                      !.pc = IF p \in r.existing THEN "compare" ELSE "match"]
                ELSE next)

\* updateFileIfChanged: SELECT size, and
Compare(s) ==
    LET r == scan[s] IN
    /\ r.pc = "compare"
    /\ IF \E f \in Row(r.at) : f.size # r.size
       THEN Reads(s, [r EXCEPT !.pc = "update"])
       ELSE Reads(s, BackToWalk(r))

\* Mutant: the file is hashed anew but the size is kept.
UpdateFile_hashOnly(s) ==
    LET r == scan[s] IN
    /\ r.pc = "update"
    /\ Become(s, BackToWalk(r))
    /\ UNCHANGED <<tables, disk, deleting, bounds, history>>

\* UPDATE book_files SET size.
UpdateFile(s) ==
    LET r == scan[s] IN
    /\ r.pc = "update"
    /\ file' = {IF f.place = r.at THEN [f EXCEPT !.size = r.size] ELSE f : f \in file}
    /\ Become(s, BackToWalk(r))
    /\ UNCHANGED <<root, author, book, lastId, disk, deleting, bounds, history>>

\* matchFileToBook: two reads, of which the second is made when the first
\* finds nothing.
Match(s) ==
    LET r == scan[s] IN
    /\ r.pc = "match"
    /\ \/ \E b \in Matches(r.at) : Reads(s, [r EXCEPT !.pc = "insert", !.book = b.id])
       \/ Matches(r.at) = {} /\ Reads(s, [r EXCEPT !.pc = "discover"])

\* discoverBookFromFile up to the SELECT of findOrCreateAuthor.
Discover(s) ==
    LET r    == scan[s]
        info == Discovered(r.root, r.at)
        same == AuthorsNamed(info.author)
    IN
    /\ r.pc = "discover"
    /\ \/ \E a \in same : Reads(s, [r EXCEPT !.pc = "title", !.info = info, !.author = a.id])
       \/ same = {} /\ Reads(s, [r EXCEPT !.pc = "newAuthor", !.info = info])

\* INSERT INTO authors: no column but foreign_id is UNIQUE, so it succeeds.
CreateAuthor(s) ==
    LET r  == scan[s]
        id == lastId.author + 1
    IN
    /\ r.pc = "newAuthor"
    /\ author' = author \cup {[id |-> id, name |-> r.info.author,
                               path |-> Append(r.root, r.info.author)]}
    /\ lastId' = [lastId EXCEPT !.author = id]
    /\ Become(s, [r EXCEPT !.pc = "title", !.author = id])
    /\ UNCHANGED <<root, book, file, disk, deleting, bounds, history>>

FindBook(s) ==
    LET r    == scan[s]
        same == BooksTitled(r.author, r.info.title)
    IN
    /\ r.pc = "title"
    /\ \/ \E b \in same : Reads(s, [r EXCEPT !.pc = "insert", !.book = b.id,
                                          !.author = 0, !.info = NoInfo])
       \/ same = {} /\ Reads(s, [r EXCEPT !.pc = "newBook"])

\* INSERT INTO books: the foreign key refuses an author deleted meanwhile.
CreateBook(s) ==
    LET r  == scan[s]
        id == lastId.book + 1
    IN
    /\ r.pc = "newBook"
    /\ IF \E a \in author : a.id = r.author
       THEN /\ book' = book \cup {[id |-> id, author |-> r.author, title |-> r.info.title]}
            /\ lastId' = [lastId EXCEPT !.book = id]
            /\ Become(s, [r EXCEPT !.pc = "insert", !.book = id,
                             !.author = 0, !.info = NoInfo])
       ELSE Become(s, BackToWalk(r)) /\ UNCHANGED <<book, lastId>>
    /\ UNCHANGED <<root, author, file, disk, deleting, bounds, history>>

\* Mutant: the path is not UNIQUE.
AddFile_twice(s) ==
    LET r == scan[s] IN
    /\ r.pc = "insert"
    /\ file' = IF \E b \in book : b.id = r.book
               THEN file \cup {[place |-> r.at, book |-> r.book, size |-> r.size]}
               ELSE file
    /\ Become(s, BackToWalk(r))
    /\ UNCHANGED <<root, author, book, lastId, disk, deleting, bounds, history>>

\* INSERT INTO book_files: the path is UNIQUE, the book a foreign key.
AddFile(s) ==
    LET r == scan[s] IN
    /\ r.pc = "insert"
    /\ file' = IF r.at \notin Paths /\ \E b \in book : b.id = r.book
               THEN file \cup {[place |-> r.at, book |-> r.book, size |-> r.size]}
               ELSE file
    /\ Become(s, BackToWalk(r))
    /\ UNCHANGED <<root, author, book, lastId, disk, deleting, bounds, history>>

Gone(r) == r.existing \ r.found

\* removeFile, for a path of the snapshot that the walk has not met.
RemoveRow(s, p) ==
    LET r == scan[s] IN
    /\ r.pc = "walk" /\ r.dirs = {} /\ r.todo = {} /\ p \in Gone(r)
    /\ file' = file \ Row(p)
    /\ Become(s, [r EXCEPT !.existing = @ \ {p}])
    /\ UNCHANGED <<root, author, book, lastId, disk, deleting, bounds, history>>

ScanEnd(s) ==
    LET r == scan[s] IN
    /\ r.pc = "walk" /\ r.dirs = {} /\ r.todo = {} /\ Gone(r) = {}
    /\ Become(s, Idle)
    /\ IF s \in stale THEN Disturbed
                      ELSE mirrored' = mirrored \cup {r.root} /\ stale' = stale
    /\ UNCHANGED <<tables, disk, deleting, bounds>>

\* The client that asked for the scan goes away: every later statement fails,
\* and the walk ends at its next entry without removing anything.
ScanAborted(s) ==
    /\ s \in Running /\ changes < MaxChanges
    /\ changes' = changes + 1
    /\ Become(s, Idle)
    /\ Disturbed
    /\ UNCHANGED <<tables, disk, deleting, scans>>

ScanStep(s) ==
    \/ \E dir \in {r.path : r \in root} \cup {a.path : a \in author} : ScanBegin(s, dir)
    \/ Snapshot(s)
    \/ \E dir \in scan[s].dirs : ReadDir(s, dir) \/ ReadDirFails(s, dir)
    \/ \E p \in scan[s].todo : Visit(s, p)
    \/ Compare(s) \/ UpdateFile(s)
    \/ Match(s) \/ Discover(s) \/ CreateAuthor(s)
    \/ FindBook(s) \/ CreateBook(s) \/ AddFile(s)
    \/ \E p \in scan[s].existing : RemoveRow(s, p)
    \/ ScanEnd(s) \/ ScanAborted(s)

-----------------------------------------------------------------------------
(* The user *)

\* A file appears, is replaced or goes, by other means than this program.
FileChanges(p, c) ==
    /\ changes < MaxChanges /\ disk[p] # c
    /\ changes' = changes + 1
    /\ DiskBecomes([disk EXCEPT ![p] = c])
    /\ UNCHANGED <<tables, deleting, scans>>

FirstRoot == {r \in root : \A q \in root : r.id <= q.id}

\* deleteAuthorFiles: the folder called like the author in the first root,
\* whatever the author's path; the root itself if nothing is left of the name.
DeleteAuthorFiles(a) ==
    LET folders == {IF Folder[a.name] = NoName THEN r.path
                    ELSE Append(r.path, Folder[a.name]) : r \in FirstRoot} IN
    /\ deleting = 0 /\ changes < MaxChanges
    /\ changes' = changes + 1
    /\ deleting' = a.id
    /\ DiskBecomes([p \in Place |-> IF \E d \in folders : Under(d, p) THEN Absent ELSE disk[p]])
    /\ UNCHANGED <<tables, scans>>

\* DELETE FROM authors: books and book_files go with it.
DeleteAuthorRow(id) ==
    /\ author' = {a \in author : a.id # id}
    /\ book' = {b \in book : b.author # id}
    /\ file' = {f \in file : \E b \in book' : b.id = f.book}

\* Delete without the files, and its end with them.
DeleteAuthor(id) ==
    /\ \/ deleting = id /\ UNCHANGED changes
       \/ deleting = 0 /\ changes < MaxChanges /\ changes' = changes + 1
    /\ DeleteAuthorRow(id)
    /\ deleting' = 0
    /\ UNCHANGED <<root, lastId, disk, scan, scans>>
    /\ Disturbed

User ==
    \/ \E p \in Place, c \in Content \cup {Absent} : FileChanges(p, c)
    \/ \E a \in author : DeleteAuthorFiles(a)
    \/ \E id \in {a.id : a \in author} \cup ({deleting} \ {0}) : DeleteAuthor(id)

Next == (\E s \in Scan : ScanStep(s)) \/ User

Spec == Init /\ [][Next]_scanVars

-----------------------------------------------------------------------------
\* Types, and the keys the schema declares: ids and paths are unique, a file
\* has a book and a book an author.
TypeOK ==
    /\ root \in SUBSET [id : 1..lastId.root, path : Seq(Name)]
    /\ author \in SUBSET [id : 1..lastId.author, name : Name, path : Seq(Name)]
    /\ book \in SUBSET [id : 1..lastId.book, author : {a.id : a \in author}, title : Name]
    /\ file \in SUBSET [place : Place, book : {b.id : b \in book}, size : Nat]
    /\ Cardinality(Paths) = Cardinality(file)
    /\ disk \in [Place -> Content \cup {Cut, Absent}]
    /\ \A s \in Scan :
        /\ scan[s].pc \in {"idle", "snapshot", "walk", "compare", "update", "match",
                           "discover", "newAuthor", "title", "newBook", "insert"}
        /\ scan[s].pc \in {"compare", "update", "match", "insert"} => scan[s].at \in Place
        /\ scan[s].missed \subseteq Place
    /\ stale \subseteq Running

\* The rows below a folder are its files, each with the file's size.
Mirror(dir) ==
    LET files == {p \in Place : Walkable(dir, p) /\ OnDisk(p)} IN
    /\ {p \in Paths : Like(dir, Full(p))} = files
    /\ \A f \in file : f.place \in files => f.size = Size[disk[f.place]]

\* What a scan is for: files and authors may change at any moment, but once the
\* scans that were at work then have ended, and with them those that met them,
\* any later scan leaves the rows below its folder equal to its files, however
\* many others are at work beside it.
UndisturbedScansMirror == stale = {} => \A dir \in mirrored : Mirror(dir)

\* A scan removes a row only if its file was off the disk, or in a directory
\* that could not be read, at some moment since the scan began; a file that was
\* there to be read all the time keeps its row.
OnlyMissedFilesRemoved ==
    [][ author' = author =>
            \A p \in Paths \ Paths' : \E s \in Scan : p \in scan[s].missed ]_scanVars

\* findOrCreateAuthor: an author is created once ("UNIQUE race: author may
\* have been created concurrently", scanner.go).
OneAuthorPerName == \A a, b \in author : SameName(a.name, b.name) => a = b

\* A file in an author's folder belongs to that author whoever scans it when,
\* and whatever the files were before, as long as its metadata name no
\* other author and only roots are scanned.
FiledUnderItsFolder ==
    \A f \in file, r \in root :
        (Under(r.path, f.place) /\ f.place.dir # r.path) =>
            \E b \in book, a \in author :
                b.id = f.book /\ a.id = b.author
                    /\ SameName(a.name, Within(r.path, f.place)[1])
=============================================================================
