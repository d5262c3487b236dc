---------------------------------- MODULE Naming ----------------------------------
(***************************************************************************)
(* internal/core/naming: the settings in the config table and the job that *)
(* renames every file after them, beside the changes of the catalog.       *)
(*                                                                         *)
(* A path is the folder and the name a pair of templates makes of an       *)
(* author's name and a title. The job reads the settings, then the rows,   *)
(* once; for each file it moves the file and then updates the row. There   *)
(* is one root folder, a book is in no series, and each book has its own   *)
(* content, named by the book's id.                                        *)
(***************************************************************************)
EXTENDS Catalog

CONSTANTS
    FolderFormat, FileFormat,           \* templates for the folder and the name
    Defaults,                           \* defaultSettings
    MaxFaults                           \* bound

VARIABLES
    config,     \* the config table: the naming.* rows
    disk,       \* the files under the root
    job,        \* what each request for the naming engine is doing
    \* History: the bound; the settings last asked for, whether other saves,
    \* a failure or a restart got in between; the settings that were stored; the
    \* names each book has had; the books whose move was cut in two, by a crash,
    \* another job's move of the same file, or a move back that failed; the books
    \* whose file went with the folder of an author.
    faults, asked, mixed, formats, held, torn, wiped

nameVars == <<config, disk, job, faults, asked, mixed, formats, held, torn, wiped>>
vars == <<catVars, nameVars>>

-----------------------------------------------------------------------------
\* Format: "$Author" or a fixed folder; "$Title" or "$Author - $Title".
Format(s, n, t) ==
    [dir  |-> IF s.folder = "$Author" THEN n ELSE "books",
     name |-> IF s.file = "$Title" THEN <<t>> ELSE <<n, t>>]

\* The library a start finds is in order: no two books are at one place.
FirstPath(i) == Format(Defaults, Shelf[i].name, Shelf[i].title)

ASSUME NamingConstantsOK ==
    /\ Defaults \in [folder : FolderFormat, file : FileFormat]
    /\ MaxFaults \in Nat
    /\ \A i, j \in 1 .. Len(Shelf) : FirstPath(i) = FirstPath(j) => i = j

NameOf(b) == author[book[b].author].name
Wanted(s, b) == Format(s, NameOf(b), book[b].title)

NoWork == [pc |-> "idle", cfg |-> Defaults, todo |-> <<>>]

At(path) == {d \in disk : d.at = path}
Contents == {d.of : d \in disk}

\* os.Rename: whatever is at the new place is replaced.
Moved(from, to) == {[d EXCEPT !.at = to] : d \in At(from)}
                   \cup {d \in disk : d.at \notin {from, to}}

Init ==
    /\ CatInit([i \in 1 .. Len(Shelf) |-> FirstPath(i)])
    /\ config = Defaults
    /\ disk = {[at |-> file[b], of |-> b] : b \in Books}
    /\ job = [p \in Proc |-> NoWork]
    /\ faults = 0
    /\ asked = Defaults /\ mixed = FALSE /\ formats = {Defaults}
    /\ held = {[of |-> b, name |-> NameOf(b), title |-> book[b].title] : b \in Books}
    /\ torn = {} /\ wiped = {}

Work(p, w) == job' = [job EXCEPT ![p] = w]
Fault == faults < MaxFaults /\ faults' = faults + 1

-----------------------------------------------------------------------------
(* NamingHandler.UpdateSettings. *)

Saving == {p \in Proc : job[p].pc \in {"saveFolder", "saveFile"}}

\* A request names the settings it changes; the others are loaded.
Change == [folder : FolderFormat \cup {"keep"}, file : FileFormat \cup {"keep"}]
Over(base, c) == [folder |-> IF c.folder = "keep" THEN base.folder ELSE c.folder,
                  file   |-> IF c.file = "keep" THEN base.file ELSE c.file]

\* Mutant: what the request does not name is reset.
UpdateSettings_resets(p) ==
    /\ Request(p) /\ job[p] = NoWork
    /\ \E c \in Change :
        /\ Work(p, [NoWork EXCEPT !.pc = "saveFolder", !.cfg = Over(Defaults, c)])
        /\ asked' = Over(config, c)
    /\ mixed' = (Saving # {})
    /\ UNCHANGED <<author, book, file, proc, shared, config, disk, faults, formats, held, torn,
                   wiped>>

UpdateSettings(p) ==
    /\ Request(p) /\ job[p] = NoWork
    /\ \E c \in Change :
        /\ Work(p, [NoWork EXCEPT !.pc = "saveFolder", !.cfg = Over(config, c)])
        /\ asked' = Over(config, c)
    /\ mixed' = (Saving # {})
    /\ UNCHANGED <<author, book, file, proc, shared, config, disk, faults, formats, held, torn,
                   wiped>>

\* SaveSettings: one INSERT OR REPLACE for each setting; a failure stops it.
SaveSettings(p) ==
    /\ p \in Saving
    /\ \/ /\ config' = IF job[p].pc = "saveFolder" THEN [config EXCEPT !.folder = job[p].cfg.folder]
                       ELSE [config EXCEPT !.file = job[p].cfg.file]
          /\ Work(p, IF job[p].pc = "saveFolder" THEN [job[p] EXCEPT !.pc = "saveFile"] ELSE NoWork)
          /\ formats' = formats \cup {config'}
          /\ UNCHANGED <<faults, mixed>>
       \/ /\ Fault /\ mixed' = TRUE
          /\ Work(p, NoWork)
          /\ UNCHANGED <<config, formats>>
    /\ UNCHANGED <<catVars, disk, asked, held, torn, wiped>>

-----------------------------------------------------------------------------
(* renameAll. *)

RenameAll(p) ==
    /\ Request(p) /\ job[p] = NoWork
    /\ Work(p, [NoWork EXCEPT !.pc = "rows", !.cfg = config])
    /\ UNCHANGED <<author, book, file, proc, shared, config, disk, faults, asked, mixed, formats,
                   held, torn, wiped>>

\* The rows in the order of their ids, which is that of the books here. A file
\* that is named as it should be is skipped.
SelectFiles(p) ==
    LET due == {b \in Books : file[b] # NoFile /\ Wanted(job[p].cfg, b) # file[b]}
        item(b) == [of |-> b, from |-> file[b], to |-> Wanted(job[p].cfg, b)]
    IN  /\ job[p].pc = "rows"
        /\ \E s \in [1 .. Cardinality(due) -> due] :
            /\ \A i, j \in DOMAIN s : i < j => s[i] < s[j]
            /\ Work(p, IF due = {} THEN NoWork
                       ELSE [job[p] EXCEPT !.pc = "move", !.todo = [i \in DOMAIN s |-> item(s[i])]])
        /\ UNCHANGED <<catVars, config, disk, faults, asked, mixed, formats, held, torn, wiped>>

Item(p) == Head(job[p].todo)
NextFile(p) == Work(p, IF Len(job[p].todo) = 1 THEN NoWork
                       ELSE [job[p] EXCEPT !.pc = "move", !.todo = Tail(@)])

Moving(b) == \E p \in Proc : job[p].pc = "row" /\ Item(p).of = b

RenameFile(p) ==
    /\ job[p].pc = "move"
    /\ At(Item(p).from) # {}
    /\ disk' = Moved(Item(p).from, Item(p).to)
    /\ Work(p, [job[p] EXCEPT !.pc = "row"])
    /\ torn' = IF Moving(Item(p).of) THEN torn \cup {Item(p).of} ELSE torn
    /\ UNCHANGED <<catVars, config, faults, asked, mixed, formats, held, wiped>>

\* Mutant: a file that could not be moved has its row updated.
RenameFails_goesOn(p) ==
    /\ job[p].pc = "move"
    /\ IF At(Item(p).from) = {} THEN UNCHANGED faults ELSE Fault
    /\ Work(p, [job[p] EXCEPT !.pc = "row"])
    /\ UNCHANGED <<catVars, config, disk, asked, mixed, formats, held, torn, wiped>>

\* The file is not there, or the file system refuses, as where another job has
\* removed the new directory before a file was in it: the file is skipped.
RenameFails(p) ==
    /\ job[p].pc = "move"
    /\ IF At(Item(p).from) = {} THEN UNCHANGED faults ELSE Fault
    /\ NextFile(p)
    /\ UNCHANGED <<catVars, config, disk, asked, mixed, formats, held, torn, wiped>>

\* path is UNIQUE in book_files.
PathTaken(b, path) == \E o \in Books \ {b} : file[o] = path

\* The UPDATE. The old directory is removed then if it is empty: no file goes with
\* it, but a move back to it will fail.
UpdateRow(p) ==
    LET i == Item(p) IN
    /\ job[p].pc = "row"
    /\ ~PathTaken(i.of, i.to) \/ file[i.of] = NoFile
    /\ file' = IF file[i.of] = NoFile THEN file ELSE [file EXCEPT ![i.of] = i.to]
    /\ NextFile(p)
    /\ UNCHANGED <<author, book, proc, requests, shared, config, disk, faults,
                   asked, mixed, formats, held, torn, wiped>>

\* Mutant: the file is removed, as if it had been copied.
RenameBack_removes(p) ==
    LET i == Item(p) IN
    /\ job[p].pc = "row"
    /\ IF PathTaken(i.of, i.to) /\ file[i.of] # NoFile THEN UNCHANGED faults ELSE Fault
    /\ disk' = disk \ At(i.to)
    /\ NextFile(p)
    /\ UNCHANGED <<catVars, config, asked, mixed, formats, held, torn, wiped>>

\* The UPDATE fails, and the file is moved back. Where that fails too, because
\* its old directory is no longer there or for any other reason, nobody is told:
\* the row and the file part.
RenameBack(p) ==
    LET i == Item(p) IN
    /\ job[p].pc = "row"
    /\ IF PathTaken(i.of, i.to) /\ file[i.of] # NoFile THEN UNCHANGED faults ELSE Fault
    /\ \/ /\ At(i.to) # {}
          /\ disk' = Moved(i.to, i.from)
          /\ UNCHANGED torn
       \/ /\ torn' = torn \cup {i.of}
          /\ UNCHANGED disk
    /\ NextFile(p)
    /\ UNCHANGED <<catVars, config, asked, mixed, formats, held, wiped>>

-----------------------------------------------------------------------------
(* An import gives a book its file, at a place that is free.               *)

ImportFile ==
    \E b \in Books : LET path == Wanted(config, b) IN
        /\ file[b] = NoFile
        /\ \A d \in disk : d.at # path /\ d.of # b
        /\ \A o \in Books : file[o] # path
        /\ file' = [file EXCEPT ![b] = path]
        /\ disk' = disk \cup {[at |-> path, of |-> b]}
        /\ UNCHANGED <<author, book, proc, requests, shared, config, job, faults, asked, mixed,
                       formats, held, torn, wiped>>

\* deleteAuthorFiles: the folder that bears the author's name goes with all that
\* is in it, whoever's it is; the row goes after it. Where the removal fails half
\* way, the author stays.
RemoveFolder(p) ==
    /\ Request(p) /\ job[p] = NoWork
    /\ \E a \in Authors : LET inside == {d \in disk : d.at.dir = author[a].name} IN
        \/ /\ disk' = disk \ inside
           /\ Become(p, [Idle EXCEPT !.pc = "purge", !.id = a])
           /\ UNCHANGED faults
        \/ /\ Fault
           /\ \E lost \in SUBSET inside : disk' = disk \ lost
           /\ UNCHANGED proc
    /\ wiped' = wiped \cup {d.of : d \in disk \ disk'}
    /\ UNCHANGED <<author, book, file, shared, config, job, asked, mixed, formats, held, torn>>

\* The process is killed and started again.
Crash ==
    /\ Fault
    /\ proc' = [p \in Proc |-> Idle]
    /\ job' = [p \in Proc |-> NoWork]
    /\ mixed' = (mixed \/ Saving # {})
    /\ torn' = torn \cup {Item(p).of : p \in {q \in Proc : job[q].pc = "row"}}
    /\ UNCHANGED <<author, book, file, requests, shared, config, disk, asked, formats, held, wiped>>

NameStep(p) ==
    \/ UpdateSettings(p) \/ SaveSettings(p)
    \/ RenameAll(p) \/ SelectFiles(p) \/ RenameFile(p) \/ RenameFails(p)
    \/ UpdateRow(p) \/ RenameBack(p) \/ RemoveFolder(p)

Catalogue ==
    /\ \E p \in Proc : (CatRequest(p) /\ job[p] = NoWork) \/ CatStep(p)
    /\ held' = held \cup {[of |-> b, name |-> NameOf(b)', title |-> book'[b].title] : b \in Books'}
    /\ UNCHANGED <<config, disk, job, faults, asked, mixed, formats, torn, wiped>>

Next == Catalogue \/ (\E p \in Proc : NameStep(p)) \/ ImportFile \/ Crash

Spec == Init /\ [][Next]_vars

-----------------------------------------------------------------------------
(* Properties. *)

\* A book has an author (the foreign key), only a book has a file, and a place of
\* the disk has one file. The theorem CatalogTypes.
TypeOK ==
    /\ \A b \in Books : book[b].author \in Authors
    /\ \A b \in BookId \ Books : file[b] = NoFile
    /\ \A d, e \in disk : d.at = e.at => d = e

\* Two books that have never had names of which formats that were stored make
\* the same path.
Apart(b, c) ==
    \A x, y \in held : x.of = b /\ y.of = c =>
        \A s, r \in formats : Format(s, x.name, x.title) # Format(r, y.name, y.title)
Alone(b) == \A c \in BookId \ {b} : Apart(b, c)

\* The row of a file points to it: after any number of rename jobs, side by
\* side, under changing settings and names, over failed moves and failed UPDATEs
\* whose move was taken back. Not so while the file is being moved, after a crash
\* in the middle of that, where the move back failed as well, where a second job
\* moved the file on before the first had updated its row, where it went with
\* the folder of an author, and where the name of another book got in the way:
\* the job looks at no destination before it moves a file there.
RowsPointToFiles ==
    \A b \in Books : file[b] # NoFile =>
        \/ [at |-> file[b], of |-> b] \in disk
        \/ Moving(b) \/ b \in torn \cup wiped \/ ~Alone(b)

\* The file of a book the library had at first is lost only with the folder of
\* an author who is deleted with it, whatever fails, loses its row or is restarted
\* in the middle of a move, and whether or not a move back succeeds: only a book
\* of the same name, now or at another time, can take its place.
RenameKeepsContents ==
    \A b \in 1 .. Len(Shelf) : Alone(b) => b \in Contents \cup wiped

\* The stored settings are those one request asked for, unless two were saved
\* at once or a save was cut short: the files are never named after a mixture
\* of two requests' templates.
SettingsOfOneRequest == ~mixed /\ Saving = {} => config = asked
================================================================================
