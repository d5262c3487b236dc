---------------------------- MODULE DownloadQueue ----------------------------
(***************************************************************************)
(* A download from the grab to the library: the download_queue rows of     *)
(* internal/wanted, the in-memory direct client that fetches the files     *)
(* (internal/download/direct), the DownloadMonitor command that polls it,  *)
(* restarts what it has lost and imports what is complete, the queue page  *)
(* that polls it too, the user's retry, remove and "wrong content", the    *)
(* library scan an import triggers, and a process that may die anywhere.   *)
(*                                                                         *)
(* Every step is one statement, one access to the client's map or one      *)
(* operation on a file; what a function does with data of its own between  *)
(* two of them is part of the step before.                                 *)
(***************************************************************************)
EXTENDS Naturals, FiniteSets

CONSTANTS
    Book, Item,     \* books, and the downloads the user will ask for
    BookOf,         \* the book each item is grabbed for
    Download,       \* ids the direct client can give out: 1..n
    Monitor,        \* DownloadMonitor commands that may run side by side
    Indexer,        \* items grabbed from an indexer, for a torrent or usenet client
    InPlace,        \* items the client saves under the library's own name
    Guessed,        \* items whose expectedSavePath is where the client saves them
    Misfiled,       \* books whose file the scanner takes for another book's
    UI,             \* whether the queue page is open
    MaxCrashes, MaxCopyFaults, MaxRetries, MaxRemovals, MaxReports,
    MaxHasty        \* items that may be retried in haste

ASSUME ConstantsOK ==
    /\ Book \subseteq Nat \ {0} /\ Item \subseteq Nat \ {0}
    /\ BookOf \in [Item -> Book]
    /\ Download \subseteq Nat \ {0}
    /\ Monitor \cap Nat = {}
    /\ Indexer \subseteq Item /\ InPlace \subseteq Item /\ Guessed \subseteq Item
    /\ Misfiled \subseteq Book
    /\ UI \in BOOLEAN
    /\ {MaxCrashes, MaxCopyFaults, MaxRetries, MaxRemovals, MaxReports,
        MaxHasty} \subseteq Nat

VARIABLES
    row,        \* download_queue: status, external_id and save_path of each item
    filed,      \* book_files: pairs of a book and a path
    content,    \* what is on disk at each path
    writer,     \* who created that file last and is still writing it, or 0
    authorDir,  \* whether the author's directory exists
    dl,         \* the direct client's map and the goroutine of each download
    mon,        \* the DownloadMonitor commands
    page,       \* the status the queue page has read and not yet written back
    req,        \* grabs and retries that have added a download and not yet written it
    report,     \* reports of wrong content that have read a row and not yet deleted it
    scanning,   \* the scans of the library that imports have started
    hasty,      \* items retried while their row had not failed, or twice at once
    had,        \* books that got a file by an import and were not reported since
    crashes, copyFaults, retries, removals, reports

disk     == <<content, writer, authorDir>>
requests == <<req, report, hasty>>
counts   == <<crashes, copyFaults, retries, removals, reports>>
vars     == <<row, filed, disk, dl, mon, page, requests, scanning, had, counts>>

-----------------------------------------------------------------------------
(* Paths. The embedded client downloads into the library's root folder. *)

NoPath    == <<"none", 0>>
RootDir   == <<"dir", 0>>
AuthorDir == <<"dir", 1>>
File      == ({"author", "root"} \X Item) \cup ({"lib"} \X Book)

\* namingEngine.Format: where the library keeps the file of a book.
Dest(b) == <<"lib", b>>

\* The file a download of item i in directory dir is written to.
FileIn(dir, i) ==
    IF dir = RootDir THEN <<"root", i>>
    ELSE IF i \in InPlace THEN Dest(BookOf[i]) ELSE <<"author", i>>

\* expectedSavePath: it lacks the extension the client adds to a bare title.
Expected(i) == IF i \in Guessed THEN FileIn(AuthorDir, i) ELSE <<"bare", i>>

Path == File \cup {NoPath, RootDir, AuthorDir} \cup ({"bare"} \X Item)

Exists(p) ==
    \/ p \in File /\ content[p] # "none"
    \/ p = RootDir
    \/ p = AuthorDir /\ authorDir

BookAt(p) == IF p[1] = "lib" THEN p[2] ELSE BookOf[p[2]]

-----------------------------------------------------------------------------
Active  == {"queued", "downloading"}
InQueue(i) == row[i].status \notin {"unused", "gone"}

\* UPDATE download_queue SET status = s WHERE id = i.
UpdateQueueItemStatus(i, s) ==
    row' = [row EXCEPT ![i].status = IF InQueue(i) THEN s ELSE @]

UpdateQueueItemStatusWithPath(i, s, p) ==
    row' = IF InQueue(i) THEN [row EXCEPT ![i].status = s, ![i].path = p] ELSE row

\* Mutant: a restart forgets the new id.
Relink_noId(i, d) ==
    row' = IF InQueue(i) THEN [row EXCEPT ![i].status = "queued"] ELSE row

\* The last statement of restartDownload: save_path keeps its old value.
Relink(i, d) ==
    row' = IF InQueue(i) THEN [row EXCEPT ![i].ext = d, ![i].status = "queued"]
           ELSE row

FilesOf(b) == {f \in filed : f[1] = b}
Registered(p) == \E f \in filed : f[2] = p

Snapshot(i) == [item |-> i, ext |-> row[i].ext, path |-> row[i].path]
NoRow == [item |-> 0, ext |-> 0, path |-> NoPath]

\* Mutant: no import of what an earlier run left.
PendingRows_none == {}

\* The query of importPendingCompletedDownloads.
PendingRows ==
    {Snapshot(i) : i \in {j \in Item : /\ row[j].status = "completed"
                                       /\ row[j].path # NoPath
                                       /\ FilesOf(BookOf[j]) = {}}}

\* Mutant: queued rows are left out.
ActiveRows_noQueued ==
    {Snapshot(i) : i \in {j \in Item : row[j].status = "downloading"}}

\* The query of ProcessDownloads: no condition on the client.
ActiveRows == {Snapshot(i) : i \in {j \in Item : row[j].status \in Active}}

-----------------------------------------------------------------------------
(* The direct client. *)

InMap == {d \in Download : dl[d].state \notin {"unused", "lost"}}

StatusOf(d) == IF dl[d].state = "streaming" THEN "downloading" ELSE dl[d].state
SavePathOf(d) == IF dl[d].made THEN FileIn(dl[d].dir, dl[d].item) ELSE dl[d].dir

\* Client.Add: a fresh id, an entry in the map, a goroutine.
Add(d, i, dir) ==
    /\ dl[d].state = "unused"
    /\ \A e \in Download : e < d => dl[e].state # "unused"
    /\ dl' = [dl EXCEPT ![d] = [state |-> "queued", item |-> i, dir |-> dir,
                                made |-> FALSE]]

\* downloadFile, up to the response.
Begin(d) ==
    /\ dl[d].state = "queued"
    /\ dl' = [dl EXCEPT ![d].state = "downloading"]
    /\ UNCHANGED disk

\* Mutant: every read error is taken for the end of the file.
Fail_isEnd(d) ==
    /\ dl[d].state \in {"downloading", "streaming"}
    /\ dl' = [dl EXCEPT ![d].state = IF @ = "streaming" THEN "completed" ELSE "failed"]
    /\ UNCHANGED disk

\* No usable response (before the file is made), or a read error after it.
Fail(d) ==
    /\ dl[d].state \in {"downloading", "streaming"}
    /\ dl' = [dl EXCEPT ![d].state = "failed"]
    /\ UNCHANGED disk

\* MkdirAll, os.Create (an existing file is truncated), dl.savePath = filePath.
CreateFile(d) ==
    /\ dl[d].state = "downloading"
    /\ LET p == FileIn(dl[d].dir, dl[d].item) IN
         /\ content' = [content EXCEPT ![p] = "partial"]
         /\ writer' = [writer EXCEPT ![p] = d]
    /\ authorDir' = (authorDir \/ dl[d].dir = AuthorDir)
    /\ dl' = [dl EXCEPT ![d].state = "streaming", ![d].made = TRUE]

\* The file is whole unless it was truncated or unlinked under the writer.
Complete(d) ==
    /\ dl[d].state = "streaming"
    /\ LET p == SavePathOf(d) IN
         content' = [content EXCEPT ![p] = IF writer[p] = d THEN "complete" ELSE @]
    /\ dl' = [dl EXCEPT ![d].state = "completed"]
    /\ UNCHANGED <<writer, authorDir>>

DownloadStep(d) ==
    /\ Begin(d) \/ Fail(d) \/ CreateFile(d) \/ Complete(d)
    /\ UNCHANGED <<row, filed, mon, page, requests, scanning, had, counts>>

-----------------------------------------------------------------------------
(* Requests: any number at a time, none of which waits for another.         *)

\* GrabRelease: the download starts before there is a row for it ...
GrabAdd(i) ==
    /\ row[i].status = "unused"
    /\ \A q \in req : q.item # i
    /\ i \notin Indexer
    /\ \E d \in Download :
         /\ Add(d, i, AuthorDir)
         /\ req' = req \cup {[pc |-> "record", item |-> i, dl |-> d]}
    /\ UNCHANGED <<row, filed, disk, mon, page, report, hasty, scanning, had, counts>>

\* ... which recordDownload inserts.
GrabRecord(q) ==
    /\ q.pc = "record"
    /\ row' = [row EXCEPT ![q.item] = [status |-> "queued", ext |-> q.dl,
                                       path |-> Expected(q.item)]]
    /\ req' = req \ {q}
    /\ UNCHANGED <<filed, disk, dl, mon, page, report, hasty, scanning, had, counts>>

\* grabFromIndexer: the id (0 here) is another client's.
GrabFromIndexer(i) ==
    /\ row[i].status = "unused"
    /\ i \in Indexer
    /\ row' = [row EXCEPT ![i] = [status |-> "queued", ext |-> 0, path |-> NoPath]]
    /\ UNCHANGED <<filed, disk, dl, mon, page, requests, scanning, had, counts>>

\* RetryDownload of any row there is, and whatever else goes on: it asks neither
\* for the status nor for another retry. restartDownload passes no SavePath, so
\* the file goes to the root folder.
RetryAdd(i) ==
    /\ InQueue(i)
    /\ retries < MaxRetries
    /\ retries' = retries + 1
    /\ \E d \in Download :
         /\ Add(d, i, RootDir)
         /\ req' = req \cup {[pc |-> "relink", item |-> i, dl |-> d]}
    /\ hasty' = IF row[i].status = "failed" /\ \A q \in req : q.item # i
                THEN hasty ELSE hasty \cup {i}
    /\ Cardinality(hasty') <= MaxHasty
    /\ UNCHANGED <<row, filed, disk, mon, page, report, scanning, had, crashes,
                   copyFaults, removals, reports>>

RetryRelink(q) ==
    /\ q.pc = "relink"
    /\ Relink(q.item, q.dl)
    /\ req' = req \ {q}
    /\ UNCHANGED <<filed, disk, dl, mon, page, report, hasty, scanning, had, counts>>

RemoveFromQueue(i) ==
    /\ InQueue(i)
    /\ removals < MaxRemovals
    /\ removals' = removals + 1
    /\ row' = [row EXCEPT ![i].status = "gone"]
    /\ UNCHANGED <<filed, disk, dl, mon, page, requests, scanning, had, crashes,
                   copyFaults, retries, reports>>

\* The reports that have read a row which is no more: their DELETE by its id
\* finds nothing, also if the file has got another row since.
RowGone(f) ==
    {IF r.file = f THEN [r EXCEPT !.row = FALSE] ELSE r : r \in report}

\* ReportWrongContent reads one of the book's rows, ...
ReportRead(b) ==
    /\ reports < MaxReports
    /\ reports' = reports + 1
    /\ \E f \in FilesOf(b) :
         report' = report \cup {[n |-> reports, pc |-> "unlink", file |-> f, row |-> TRUE]}
    /\ UNCHANGED <<row, filed, disk, dl, mon, page, req, hasty, scanning, had, crashes,
                   copyFaults, retries, removals>>

\* ... removes what is at its path by now, ...
ReportUnlink(r) ==
    /\ r.pc = "unlink"
    /\ content' = [content EXCEPT ![r.file[2]] = "none"]
    /\ writer' = [writer EXCEPT ![r.file[2]] = 0]
    /\ report' = (report \ {r}) \cup {[r EXCEPT !.pc = "delete"]}
    /\ had' = had \ {r.file[1]}
    /\ UNCHANGED <<row, filed, authorDir, dl, mon, page, req, hasty, scanning, counts>>

\* ... and deletes the row it has read.
ReportDelete(r) ==
    /\ r.pc = "delete"
    /\ filed' = IF r.row THEN filed \ {r.file} ELSE filed
    /\ report' = (IF r.row THEN RowGone(r.file) ELSE report) \ {r, [r EXCEPT !.row = FALSE]}
    /\ UNCHANGED <<row, disk, dl, mon, page, req, hasty, scanning, had, counts>>

\* GetDownloadQueue, for one embedded row: GetStatus ...
PageRead(i) ==
    /\ UI
    /\ page.item = 0
    /\ InQueue(i)
    /\ i \notin Indexer
    /\ row[i].ext \in InMap
    /\ page' = [item |-> i, status |-> StatusOf(row[i].ext)]
    /\ UNCHANGED <<row, filed, disk, dl, mon, requests, scanning, had, counts>>

\* ... and the status, without the path, into the row.
PageWrite ==
    /\ page.item # 0
    /\ UpdateQueueItemStatus(page.item, page.status)
    /\ page' = [item |-> 0, status |-> "none"]
    /\ UNCHANGED <<filed, disk, dl, mon, requests, scanning, had, counts>>

-----------------------------------------------------------------------------
(* DownloadMonitor: ProcessDownloads. *)

IdleMon == [pc |-> "idle", phase |-> "none", todo |-> {}, r |-> NoRow, dl |-> 0,
            seen |-> "none", src |-> NoPath, ok |-> FALSE]

ToNext(m) == [mon EXCEPT ![m].pc = "next", ![m].r = NoRow, ![m].dl = 0,
             ![m].seen = "none", ![m].src = NoPath, ![m].ok = FALSE]

\* importPendingCompletedDownloads reads its rows, ...
MonBegin(m) ==
    /\ mon[m].pc = "idle"
    /\ mon' = [mon EXCEPT ![m].pc = "next", ![m].phase = "pending",
                          ![m].todo = PendingRows]
    /\ UNCHANGED <<row, filed, disk, dl, page, requests, scanning, had, counts>>

\* ... after them ProcessDownloads reads the active ones, ...
MonActive(m) ==
    /\ mon[m].pc = "next"
    /\ mon[m].phase = "pending"
    /\ mon[m].todo = {}
    /\ mon' = [mon EXCEPT ![m].phase = "active", ![m].todo = ActiveRows]
    /\ UNCHANGED <<row, filed, disk, dl, page, requests, scanning, had, counts>>

\* ... and the command is over after these.
MonEnd(m) ==
    /\ mon[m].pc = "next"
    /\ mon[m].phase = "active"
    /\ mon[m].todo = {}
    /\ mon' = [mon EXCEPT ![m] = IdleMon]
    /\ UNCHANGED <<row, filed, disk, dl, page, requests, scanning, had, counts>>

\* os.Stat of a pending row's path.
MonStat(m) ==
    /\ mon[m].pc = "next"
    /\ mon[m].phase = "pending"
    /\ \E r \in mon[m].todo :
         \/ /\ Exists(r.path)
            /\ mon' = [mon EXCEPT ![m].pc = "import", ![m].r = r, ![m].src = r.path,
                                  ![m].todo = @ \ {r}]
            /\ UNCHANGED row
         \/ /\ ~Exists(r.path)
            /\ UpdateQueueItemStatus(r.item, "failed")
            /\ mon' = [mon EXCEPT ![m].todo = @ \ {r}]
    /\ UNCHANGED <<filed, disk, dl, page, requests, scanning, had, counts>>

\* GetStatus of an active row; when the client does not know the id,
\* restartDownload reads the row and adds the download again.
MonPoll(m) ==
    /\ mon[m].pc = "next"
    /\ mon[m].phase = "active"
    /\ \E r \in mon[m].todo :
         \/ /\ r.ext \in InMap
            /\ mon' = [mon EXCEPT ![m].pc = "write", ![m].r = r, ![m].dl = r.ext,
                                  ![m].seen = StatusOf(r.ext),
                                  ![m].src = SavePathOf(r.ext),
                                  ![m].todo = @ \ {r}]
            /\ UNCHANGED dl
         \/ /\ r.ext \notin InMap
            /\ InQueue(r.item)
            /\ \E d \in Download :
                 /\ Add(d, r.item, RootDir)
                 /\ mon' = [mon EXCEPT ![m].pc = "relink", ![m].r = r, ![m].dl = d,
                                       ![m].todo = @ \ {r}]
         \/ /\ r.ext \notin InMap
            /\ ~InQueue(r.item)
            /\ mon' = [mon EXCEPT ![m].todo = @ \ {r}]
            /\ UNCHANGED dl
    /\ UNCHANGED <<row, filed, disk, page, requests, scanning, had, counts>>

MonRelink(m) ==
    /\ mon[m].pc = "relink"
    /\ Relink(mon[m].r.item, mon[m].dl)
    /\ mon' = ToNext(m)
    /\ UNCHANGED <<filed, disk, dl, page, requests, scanning, had, counts>>

\* Status and path into the row. itemToStatus reads the entry's fields without
\* the lock: the path may be newer than the status.
MonWrite(m) ==
    /\ mon[m].pc = "write"
    /\ \E p \in {mon[m].src, SavePathOf(mon[m].dl)} :
         /\ UpdateQueueItemStatusWithPath(mon[m].r.item, mon[m].seen, p)
         /\ mon' = IF mon[m].seen = "completed"
                   THEN [mon EXCEPT ![m].pc = "import", ![m].src = p]
                   ELSE ToNext(m)
    /\ UNCHANGED <<filed, disk, dl, page, requests, scanning, had, counts>>

-----------------------------------------------------------------------------
(* importCompletedDownload. It uses the book of the row and the path found. *)

BookFor(m) == BookOf[mon[m].r.item]
Target(m) == Dest(BookFor(m))

\* The row and the book are read, the author's directory is made, and one
\* book_files row the book may already have is deleted.
MonImport(m) ==
    /\ mon[m].pc = "import"
    /\ \/ /\ ~InQueue(mon[m].r.item)
          /\ mon' = ToNext(m)
          /\ UNCHANGED <<filed, report, authorDir>>
       \/ /\ InQueue(mon[m].r.item)
          /\ authorDir' = TRUE
          /\ mon' = [mon EXCEPT ![m].pc = IF mon[m].src = Target(m) THEN "register"
                                          ELSE "copy"]
          /\ \/ FilesOf(BookFor(m)) = {} /\ UNCHANGED <<filed, report>>
             \/ \E f \in FilesOf(BookFor(m)) : filed' = filed \ {f} /\ report' = RowGone(f)
    /\ UNCHANGED <<row, content, writer, dl, page, req, hasty, scanning, had, counts>>

\* copyFile opens the source and creates (truncates) the destination, in a
\* directory another import may have removed; a directory as the source can be
\* opened but not read.
MonOpen(m) ==
    /\ mon[m].pc = "copy"
    /\ \/ /\ ~Exists(mon[m].src) \/ ~authorDir
          /\ mon' = ToNext(m)
          /\ UNCHANGED <<content, writer>>
       \/ /\ Exists(mon[m].src)
          /\ authorDir
          /\ content' = [content EXCEPT ![Target(m)] = "partial"]
          /\ IF mon[m].src \in File
             THEN /\ writer' = [writer EXCEPT ![Target(m)] = m]
                  /\ mon' = [mon EXCEPT ![m].pc = "copying",
                                        ![m].ok = content[mon[m].src] = "complete"]
             ELSE /\ writer' = [writer EXCEPT ![Target(m)] = 0]
                  /\ mon' = ToNext(m)
    /\ UNCHANGED <<row, filed, authorDir, dl, page, requests, scanning, had, counts>>

\* Mutant: the source is removed on every way out of copyFile.
MonCopy_removes(m) ==
    /\ mon[m].pc = "copying"
    /\ \/ /\ content' = [content EXCEPT ![Target(m)] = "complete",
                                       ![mon[m].src] = "none"]
          /\ mon' = [mon EXCEPT ![m].pc = "register"]
          /\ UNCHANGED copyFaults
       \/ /\ copyFaults < MaxCopyFaults
          /\ copyFaults' = copyFaults + 1
          /\ mon' = ToNext(m)
          /\ content' = [content EXCEPT ![mon[m].src] = "none"]
    /\ UNCHANGED <<row, filed, writer, authorDir, dl, page, requests, scanning, had,
                   crashes, retries, removals, reports>>

\* io.Copy ends, or fails and leaves what it has written. The copy is whole if
\* the source was, all along (an unlinked source can still be read).
MonCopy(m) ==
    /\ mon[m].pc = "copying"
    /\ \/ /\ content' = [content EXCEPT ![Target(m)] =
                IF /\ writer[Target(m)] = m
                   /\ mon[m].ok
                   /\ content[mon[m].src] # "partial"
                THEN "complete" ELSE @]
          /\ mon' = [mon EXCEPT ![m].pc = "register"]
          /\ UNCHANGED copyFaults
       \/ /\ copyFaults < MaxCopyFaults
          /\ copyFaults' = copyFaults + 1
          /\ mon' = ToNext(m)
          /\ UNCHANGED content
    /\ UNCHANGED <<row, filed, writer, authorDir, dl, page, requests, scanning, had,
                   crashes, retries, removals, reports>>

\* os.Stat and the INSERT: book_files.path is UNIQUE.
MonRegister(m) ==
    /\ mon[m].pc = "register"
    /\ \/ /\ ~Exists(Target(m)) \/ Registered(Target(m))
          /\ mon' = ToNext(m)
          /\ UNCHANGED <<filed, had>>
       \/ /\ Exists(Target(m)) /\ ~Registered(Target(m))
          /\ filed' = filed \cup {<<BookFor(m), Target(m)>>}
          /\ had' = had \cup {BookFor(m)}
          /\ mon' = [mon EXCEPT ![m].pc = "finish"]
    /\ UNCHANGED <<row, disk, dl, page, requests, scanning, counts>>

\* The row is completed, ...
MonComplete(m) ==
    /\ mon[m].pc = "finish"
    /\ UpdateQueueItemStatus(mon[m].r.item, "completed")
    /\ mon' = [mon EXCEPT ![m].pc = "clean"]
    /\ UNCHANGED <<filed, disk, dl, page, requests, scanning, had, counts>>

\* ... a source of its own is removed, and the author's directory with it if
\* that was the last file there, and a scan of the library is started.
MonClean(m) ==
    /\ mon[m].pc = "clean"
    /\ IF mon[m].src # Target(m) /\ mon[m].src \in File
       THEN /\ content' = [content EXCEPT ![mon[m].src] = "none"]
            /\ writer' = [writer EXCEPT ![mon[m].src] = 0]
            /\ authorDir' = (authorDir /\ (mon[m].src[1] = "root" \/
                             \E p \in File : p[1] # "root" /\ content'[p] # "none"))
       ELSE UNCHANGED disk
    /\ scanning' = [scanning EXCEPT !.due = TRUE]
    /\ mon' = ToNext(m)
    /\ UNCHANGED <<row, filed, dl, page, requests, had, counts>>

MonitorStep(m) ==
    \/ MonBegin(m) \/ MonActive(m) \/ MonEnd(m) \/ MonStat(m) \/ MonPoll(m)
    \/ MonRelink(m) \/ MonWrite(m) \/ MonImport(m) \/ MonOpen(m) \/ MonCopy(m)
    \/ MonRegister(m) \/ MonComplete(m) \/ MonClean(m)

-----------------------------------------------------------------------------
(* The scans of the root folder that imports start, as one scan that goes   *)
(* on until the last of them ends: a step of any of them is a step of it.   *)
(* LibraryScanner models what a single scan does.                           *)

NoScan == [due |-> FALSE, on |-> FALSE, listed |-> {}, met |-> NoPath, missed |-> {}]

\* ScanPath reads the paths of the rows, ...
ScanBegin ==
    /\ scanning.due
    /\ scanning' = [scanning EXCEPT !.due = FALSE, !.on = TRUE,
                                    !.listed = @ \cup {f[2] : f \in filed}]
    /\ UNCHANGED <<row, filed, disk, dl, mon, page, requests, had, counts>>

\* ... its walk meets a file and reads what it is, one at a time, ...
ScanMeet(p) ==
    /\ scanning.on
    /\ scanning.met = NoPath
    /\ Exists(p)
    /\ scanning' = [scanning EXCEPT !.met = p]
    /\ UNCHANGED <<row, filed, disk, dl, mon, page, requests, had, counts>>

\* ... or passes where a row says that there is one, ...
ScanMiss(p) ==
    /\ scanning.on
    /\ p \in scanning.listed
    /\ ~Exists(p)
    /\ scanning' = [scanning EXCEPT !.missed = @ \cup {p}]
    /\ UNCHANGED <<row, filed, disk, dl, mon, page, requests, had, counts>>

\* ... the file it has met gets a row (unless it has one: the path is UNIQUE), ...
addNewFile ==
    /\ scanning.met # NoPath
    /\ LET p == scanning.met IN
         filed' = IF Registered(p) THEN filed
                  ELSE filed \cup {<<IF BookAt(p) \in Misfiled THEN 0 ELSE BookAt(p), p>>}
    /\ scanning' = [scanning EXCEPT !.met = NoPath]
    /\ UNCHANGED <<row, disk, dl, mon, page, requests, had, counts>>

\* ... and the row of a path that was missed goes, whether or not there is a
\* file again and whoever wrote the row.
removeFile(f) ==
    /\ f[2] \in scanning.missed
    /\ filed' = filed \ {f}
    /\ report' = RowGone(f)
    /\ scanning' = [scanning EXCEPT !.missed = @ \ {f[2]}]
    /\ UNCHANGED <<row, disk, dl, mon, page, req, hasty, had, counts>>

ScanEnd ==
    /\ scanning.on
    /\ scanning' = [NoScan EXCEPT !.due = scanning.due]
    /\ UNCHANGED <<row, filed, disk, dl, mon, page, requests, had, counts>>

-----------------------------------------------------------------------------
\* The process dies and starts again: rows and files are left, the client's
\* map is empty and no id in the rows is known to it any more.
Crash ==
    /\ crashes < MaxCrashes
    /\ crashes' = crashes + 1
    /\ dl' = [d \in Download |-> IF dl[d].state = "unused" THEN dl[d]
                                 ELSE [dl[d] EXCEPT !.state = "lost"]]
    /\ writer' = [p \in File |-> 0]
    /\ mon' = [m \in Monitor |-> IdleMon]
    /\ page' = [item |-> 0, status |-> "none"]
    /\ req' = {} /\ report' = {}
    /\ scanning' = NoScan
    /\ UNCHANGED <<row, filed, content, authorDir, hasty, had, copyFaults, retries,
                   removals, reports>>

Init ==
    /\ row = [i \in Item |-> [status |-> "unused", ext |-> 0, path |-> NoPath]]
    /\ filed = {}
    /\ content = [p \in File |-> "none"]
    /\ writer = [p \in File |-> 0]
    /\ authorDir = FALSE
    /\ dl = [d \in Download |-> [state |-> "unused", item |-> 0, dir |-> RootDir,
                                 made |-> FALSE]]
    /\ mon = [m \in Monitor |-> IdleMon]
    /\ page = [item |-> 0, status |-> "none"]
    /\ req = {} /\ report = {} /\ hasty = {}
    /\ scanning = NoScan
    /\ had = {}
    /\ crashes = 0 /\ copyFaults = 0 /\ retries = 0 /\ removals = 0 /\ reports = 0

Request ==
    \/ \E q \in req : GrabRecord(q) \/ RetryRelink(q)
    \/ \E r \in report : ReportUnlink(r) \/ ReportDelete(r)

Scan ==
    \/ ScanBegin \/ addNewFile \/ ScanEnd
    \/ \E p \in File : ScanMeet(p) \/ ScanMiss(p)
    \/ \E f \in filed : removeFile(f)

Next ==
    \/ \E d \in Download : DownloadStep(d)
    \/ \E m \in Monitor : MonitorStep(m)
    \/ \E i \in Item : \/ GrabAdd(i) \/ GrabFromIndexer(i) \/ RetryAdd(i)
                       \/ RemoveFromQueue(i) \/ PageRead(i)
    \/ Request \/ PageWrite
    \/ \E b \in Book : ReportRead(b)
    \/ Scan
    \/ Crash

Spec == Init /\ [][Next]_vars

\* The scheduler runs DownloadMonitor every 30 seconds (Scheduler shows that
\* each such command runs and ends). The HTTP client's timeout ends a download.
Fairness ==
    /\ \A m \in Monitor : WF_vars(MonitorStep(m))
    /\ \A d \in Download : WF_vars(DownloadStep(d))
    /\ WF_vars(Request)
    /\ WF_vars(PageWrite)
    /\ WF_vars(ScanBegin) /\ WF_vars(ScanEnd)

FairSpec == Spec /\ Fairness

-----------------------------------------------------------------------------
TypeOK ==
    /\ row \in [Item -> [status : {"unused", "queued", "downloading", "completed",
                                   "failed", "gone"},
                         ext : Download \cup {0}, path : Path]]
    /\ filed \subseteq (Book \cup {0}) \X File
    /\ content \in [File -> {"none", "partial", "complete"}]
    /\ writer \in [File -> Download \cup Monitor \cup {0}]
    /\ authorDir \in BOOLEAN
    /\ dl \in [Download -> [state : {"unused", "queued", "downloading", "streaming",
                                     "completed", "failed", "lost"},
                            item : Item \cup {0}, dir : {RootDir, AuthorDir},
                            made : BOOLEAN]]
    /\ \A m \in Monitor :
         /\ mon[m].pc \in {"idle", "next", "write", "relink", "import", "copy",
                           "copying", "register", "finish", "clean"}
         /\ mon[m].pc \notin {"idle", "next"} => mon[m].r.item \in Item
         /\ mon[m].pc = "write" => mon[m].dl \in InMap
         /\ mon[m].src \in Path
    /\ page.item \in Item \cup {0}
    /\ \A q \in req : q.item \in Item /\ q.dl \in InMap
    /\ \A r \in report : r.file \in Book \X File /\ (r.row => r.file \in filed)
    /\ scanning.met \in File \cup {NoPath} /\ scanning.missed \subseteq File
    /\ hasty \subseteq Item
    /\ had \subseteq Book

\* What an import registers is a whole file: not one a crash or a failed
\* download left behind, nor a copy that was cut short. (A hasty retry can
\* truncate the file under an import; see OneDownloadPerItem.)
ImportsAreWhole ==
    [][\A m \in Monitor :
         mon[m].pc = "register" /\ mon'[m].pc = "finish" =>
             content[Target(m)] = "complete" \/ mon[m].r.item \in hasty]_vars

\* "copy instead of move for safety": at every moment of an import, of a retry
\* of it, and after a crash in any of them, a book whose download completed has
\* a whole file somewhere.
CompletedBookIsOnDisk ==
    \A i \in Item : row[i].status = "completed" =>
        \/ \E p \in File : BookAt(p) = BookOf[i] /\ content[p] = "complete"
        \/ \E j \in hasty : BookOf[j] = BookOf[i]

\* A download is restarted only when it is lost: no two goroutines fetch the
\* same item (they would write the same file), whatever the user retries, as long
\* as an item is retried only after its row has failed and one retry at a time,
\* which is what the page offers. Nothing in the code asks for it: of an item
\* retried in haste there are soon two downloads.
LiveOf(i) == {d \in Download : /\ dl[d].item = i
                               /\ dl[d].state \in {"queued", "downloading", "streaming"}}
OneDownloadPerItem == \A i \in Item \ hasty : Cardinality(LiveOf(i)) <= 1

\* A row does not stay queued or downloading for ever, whatever is lost.
DownloadsSettle ==
    \A i \in Item : row[i].status \in Active ~> row[i].status \notin Active

\* A completed download is imported, also after a crash or a failed copy,
\* unless it turns out that its file is gone.
CompletedIsImported ==
    \A i \in Item : row[i].status = "completed" ~>
        FilesOf(BookOf[i]) # {} \/ row[i].status # "completed"

\* importCompletedDownload deletes the book_files row it is about to replace:
\* a book that had a file gets one again.
BookRegainsFile ==
    \A b \in Book : b \in had ~> b \notin had \/ FilesOf(b) # {}

-----------------------------------------------------------------------------
(* What a comment promises and the code does not keep. *)

\* "Get appropriate client - use embedded client for NULL clientID": a row of
\* another client is not fetched by the direct client.
IndexerRowsLeftAlone == \A i \in Indexer : LiveOf(i) = {}
=============================================================================
