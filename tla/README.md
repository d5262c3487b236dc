# Bookaneer in TLA+

Bookaneer is a self-hosted ebook manager: a Go server over one SQLite database,
with an embedded HTTP downloader, a command scheduler, a library of files on
disk, searches of indexers, digital libraries and metadata providers, and a
React client. These modules model the parts of it in which steps of several
actors meet: goroutines, requests, other programs, the process that may die,
and the disk. Paths below are relative to the repository.

## 1. The system

| Part | State it keeps | Operations | Talks to |
|---|---|---|---|
| Scheduler (`internal/scheduler`) | `commands`, `scheduled_tasks` rows; `running` map, `workerSem`, `WaitGroup` | QueueCommand, CancelCommand, TriggerTask, the 1 s loop, executeCommand, recovery at start, Stop | handlers of Wanted (`DownloadGrab`, `DownloadMonitor`) |
| Wanted (`internal/wanted`) | `download_queue`, `book_files`, `search_results`, `history`, `blocklist` rows | search, grab, poll, restart, import, retry, remove, report wrong content | direct client, indexers, libraries, scanner |
| Direct client (`internal/download/direct`) | map of downloads in memory, files being written | Add, GetStatus, Remove, one goroutine per download | HTTP, disk |
| Client resolver (`internal/download`) | cache of clients, the embedded client, `download_clients` rows | getOrCreateClient, getClientByTypes, create/update/delete, GetQueue | database, the clients |
| External clients (`internal/download/{transmission,qbittorrent,sabnzbd,blackhole}`) | session id, login | Add, GetQueue | other programs, a watched folder |
| Indexers (`internal/search`, `internal/newznab`) | `indexers` rows, cached clients | search of all at once, create/update/delete, load at start | HTTP |
| Libraries and metadata (`internal/library`, `internal/metadata`) | provider lists | parallel search, merge, fallback | HTTP |
| Authors and books (`internal/core/author`, `core/book`) | `authors`, `books`, `book_files` rows | find-or-create, update, delete, wishlist | database |
| Naming (`internal/core/naming`) | `naming.*` rows of `config` | save settings, rename every file | disk, `book_files` |
| Library scanner (`internal/core/library`) | `book_files` rows against the disk | ScanPath, addNewFile, updateFileIfChanged, removeFile, discovery of authors and books | disk |
| Root folders (`internal/core/rootfolder`) | `root_folders` rows, every stored path | create, update, delete, MoveRootFolder | disk |
| WebSocket hub (`api/v1/ws`) | set of clients, one buffered channel each | Broadcast, addClient, removeClient, pumps | browsers |
| Process, authentication, notifications, backup (`cmd/bookaneer`, `internal/auth`, `internal/notification`, `handler/system.go`) | API key, first admin, channel rows, backup files | start, EnsureAPIKey, EnsureDefaultAdmin, Update, Backup, Restore | database file, log |
| Path mapping, quality profiles, reader, media files, OPDS | single rows | small services | |
| Web client (`web/src`) | auth, book-release and reader state machines, query caches | user events, polling | REST |

The pieces interact through the database (one connection: `SetMaxOpenConns(1)`
in `internal/database/db.go`, so a statement is atomic and statements of
different goroutines interleave), through files in the root folder (the embedded
client downloads into the library's own root), and through maps in memory that
are to follow tables: downloads, clients, indexers, WebSocket connections.
Nothing takes a transaction around a poll, a restart, an import, a rename or a
find-or-create.

Where it is hard, and what must be true there:

* **Scheduler** - a tick, three goroutines, a cancel, Stop and a crash in any
  order: slots are respected, a row says *running* only if somebody runs it, a
  due time is neither lost nor repeated without cause, every command ends, Stop
  returns and leaves nothing behind.
* **Downloads** - a crash, a lost map, a second pass of the monitor, the queue
  page that writes statuses back, a scan that meets a half-copied file: what is
  imported is whole, a completed book keeps a whole file, no download runs
  twice, every row settles, every completed download is imported.
* **Resolver** - the cache's mutex against the one database connection, a change
  of a row against a request that has read it: no wait in a circle, one client
  for a row, none outdated.
* **External clients** - a session id that rotates under two calls, a release
  that moves between two questions: no false refusal, nothing missed.
* **Searches** - answers that fail, are late and come in any order: a failure
  hides nothing, and the clients asked are those of the stored rows.
* **Catalog and naming** - questions and INSERTs of several requests in any
  order, files moved before their rows: no twins, no file without its row.
* **Scanner** - a snapshot of rows against a walk of the disk, beside other
  scans, files that come and go and authors that are deleted: rows mirror files
  once things are quiet, a file that stayed keeps its row, and a file belongs to
  the author whose folder it is in.
* **Root-folder move** - files first, rows later: a failure or a crash between
  the two, and a second try, lose no file and leave no row without one.
* **Hub** - a full buffer, a removal and a close of the same channel: no panic,
  nothing missed in silence, no connection left behind.
* **Process** - dying between making, storing and showing a key or a password;
  backups of one second; restores and updates side by side.

`PROJECT.json` lists the hazards line by line, with the properties that cover
them.

## 2. The modules

| Module | Purpose |
|---|---|
| `Scheduler` | the command queue and its goroutines |
| `WorkerPool` | what it promises; `Scheduler!ImplementsPool` is the refinement |
| `DownloadQueue` | a download from the grab to the library |
| `ExternalClients` | calls of the four client types that talk to other programs |
| `DownloadClients` | extends it: the rows, the cache, its mutex, the connection, the embedded client |
| `Indexers` | the indexers table, the cached clients, the search of all of them |
| `BookSearch` | extends it: libraries, the search for a book, metadata providers |
| `Catalog` | authors, books, the wishlist |
| `Naming` | extends it: settings, the files on disk, the rename of all of them |
| `LibraryScanner` | the library on disk and in the database, and the scans |
| `RootFolderMove` | extends it: moving, creating, editing, deleting root folders; crashes |
| `Hub` | the WebSocket connections |
| `Server` | extends it: the process from start to death, backup, restore, updates |
| `SchedulerProofs`, `DownloadQueueProofs`, `DownloadClientsProofs`, `BookSearchProofs`, `NamingProofs`, `LibraryProofs`, `RootFolderMoveProofs`, `ServerProofs` | theorems |
| `MC*`, `MC*_*.cfg` | instances for TLC |

Definitions commented "Mutant" are the mutations that the properties are tested
with; nothing in a specification uses them.

### 2.1 Scheduler

State: `status`, `name`, `origin`, `inserted` are the `commands` table, `due`
the rows of `scheduled_tasks` whose `next_run_at` has passed; `loop`, `picked`,
`batch`, `task` are the local state of `run`; `pc`, `cmd`, `cancelled` the
goroutines of `executeCommand` and their contexts; `running`, `sem`, `wg` the
map, the semaphore and the WaitGroup; `stop`, `canceller` a call of Stop and of
CancelCommand between their steps.

One action per point at which another actor can get in between: each SQL
statement, each access to the map under `mu`, each channel operation. `Spawn`
is the send on `workerSem` with `wg.Add` and `go`: nothing that another actor
can see the difference of lies between. The deferred calls of `executeCommand`
are `Untrack`, `Release` and `Done`, in the order in which they run. A statement
that the code only logs the failure of has a failing disjunct
(`StatementFails`). `Crash` leaves the database alone; `Start` recovers it.

Notes. The context given to `Start` is never cancelled (`main` passes
`context.Background()`), so the case `ctx.Done()` is not taken. `Worker`
is a set of goroutine identities: `Spawn` needs one that is idle, and one more
than `MaxConcurrent` suffices, since a goroutine gives its slot back one step
before it ends. Where that step is long delayed `Spawn` waits; no property
depends on it. The REST API of this commit does not call QueueCommand,
TriggerTask, CancelCommand or Stop; they are exported and tested
(`scheduler_test.go`), and the model has them.

`WorkerPool` knows goroutines at work, goroutines alive and a phase; it has no
queue, semaphore or counter. `Scheduler` maps its slot holders to `busy`, its
live goroutines to `alive`, and the loop with Stop to `phase`. What the mapping
shows is what the three mechanisms together must not break: no goroutine starts
after Stop has returned, and never more than the slots are at work.

### 2.2 DownloadQueue

State: `row` is `download_queue`, `filed` is `book_files`; `content`, `writer`
and `authorDir` are the disk; `dl` is the direct client's map together with the
goroutine of each download; `mon` the local state of each `DownloadMonitor`
command; `page` the status the queue page has read and not written; `req` the
grabs and retries between their two steps, any number of them; `report` the
reports of wrong content under way; `scanning` the scans that imports have
started. `had` and `hasty` are history: books that have got a file, and items
retried before their row had failed or by two requests at once.

Paths are abstract. A download goes to `<<"author", i>>` (the author's
directory, at the grab), to `<<"root", i>>` (a restart or a retry passes no
`SavePath`), or straight to the library's name `<<"lib", b>>` for the items in
`InPlace`. `Guessed` are the items whose expected path, which the grab stores
before the client has chosen a name, is where the client saves them; for the
others it is a path that never exists (the title without its extension). A file
is `partial` from its creation to its last byte; `writer` says whose bytes make
it whole, so that two writers of one file, or an unlinked one, leave it partial.
A copy is whole if its source was whole when opened and was not truncated since.

The monitor: `MonBegin` (pending rows) - `MonStat` - import; then `MonActive`
(active rows) - `MonPoll` - `MonWrite` or `MonRelink` - import; `MonEnd`. The
import: `MonImport` (reads, mkdir, DELETE of an old row) - `MonOpen`, `MonCopy`
(copyFile) - `MonRegister` (stat, INSERT) - `MonComplete` (UPDATE) - `MonClean`
(remove the source, and its directory if that is empty then; start a scan).

Requests lock nothing and wait for nobody. `RetryAdd` is RetryDownload as it is:
it looks at no status and at no other retry, so that a row may be retried while
it is downloading, and twice at once. The page of this commit offers it for
failed rows only and disables it while one is under way
(`web/src/components/wanted/QueueCards.tsx:277-285`); `MaxHasty` says for how many
items a run goes beyond that. A report is `ReportRead` (a row of the book) -
`ReportUnlink` (what is at its path by now) - `ReportDelete` (that row, by its id).

Abstractions, and why they are safe. One author, so one author directory. The
statuses `paused` and `sent` are not written by this path. Progress and error
texts are dropped, and the second UPDATE that stores an error message with the
status just written. The page's SELECT and GetStatus are one step: the status of
an id that was replaced in the row does not change any more. The stat and the
UPDATE of a pending row whose file is gone are one step. `itemToStatus` reads the
entry after the lock is released: `MonWrite` may write a path newer than the
status it saw. The scans that imports start are one scan that goes on until the last of
them ends: `ScanBegin` reads the rows, `ScanMeet` finds a file and `addNewFile`
gives it a row, `ScanMiss` finds that a listed path has no file and `removeFile`
deletes its row, whatever has come back since; `ScanEnd`. `Misfiled` are the
books whose library name the scanner cannot match (it looks for the bare title,
the default name is `$Author - $Title`). Path mapping is the identity, as it is
for local paths. Disk errors are those of the copy. An item in `Indexer` is sent to another client,
which is external; its id is unknown to the direct client.

### 2.3 ExternalClients and DownloadClients

A process is a request or a command. `conn` is who holds the one database
connection, `mu` who holds the service's mutex for writing; a lookup under the
read lock is a step that needs `mu` free, a write-locked section is entered in
one step and left in another. `made` lists what each client instance was made
from and by which kind of request; `cache` and `embedded` hold instances.
`getClientByTypes` keeps its rows open, and with them the connection, until it
has its client (`ByTypes` sets `conn`); `ListClients` and `GetClient` let go of
it first, which is why what they resolve may be outdated (`Readers`).

`Use` enters a client's method; from there the process is in `ExternalClients`:
Transmission's session id in `session` with the 409 and its one retry
(`TrSend`, `TrStore`), qBittorrent's login, SABnzbd's queue and then history,
blackhole's file. SABnzbd is asked for `QueueLimit` entries of its queue and
`HistoryLimit` of its history (100 and 50 in the code) and answers with any that
many; its history may hold any releases to begin with. The other programs move by
themselves: `TrRotate`, `SabMoves`. A call that fails may have been carried out.
`rotated`, `had`, `cut` (calls that a limit kept something from) and `dropped`
are history.

Left out: `SendGrab`, `CreateGrab`, `ListGrabs` (rows nothing else reads) and
`TestClient`. By reading: `CreateClientRequest` has no `downloadDir`, so that an
update through the API clears the column; the UI offers `nzbget`, for which no
factory exists (in the model's row types); and an invalidation is undone by a
GetQueue that has read the row before it, until the next change
(`StaleOnlyByReaders` says by whom alone).

### 2.4 Indexers and BookSearch

`fan[p]` holds the goroutines request `p` has started: which sources are still
to answer, what has come, whether one has failed. Answers come in any order; the
channel has room for all, so answering is one step. A change of an indexer is
its statement, then `Drop` and `loadClient`, each under the lock; `raced` is
history: ids that two requests were changing at once. `Restart` loads the map
from the table.

The search for a book asks the libraries and the indexers at once, by ISBN and,
if that brings no ebook, by title, then deletes the book's `search_results` and
inserts the new ones row by row (`BookFound`, `SaveOne`); `torn` is history.
Metadata requests walk the providers in order: a search merges, a fetch takes
the first answer. `heard` is history: what the sources have answered.

The error branch of `loadClient` is left out because it is dead: the two factories
that are registered always give a client (`newznab/client.go:18`,
`torznab/client.go:8`). Left out as well: order, scores and sizes of results; the rows that are saved are
read by nothing in this commit. By reading: Prowlarr's format is understood by
`CreateIndexer` only, so its PUT is refused; the client asks for `o=json` and
parses XML.

### 2.5 Catalog and Naming

`author`, `book`, `file` are the tables, ids are never given twice. A request is
a `kind` and a `pc`: `byFid`, `byName`, `insert`, `refindFid`, `refindName`,
`reread` for an author, `bookFid`, `bookAuthor`, `bookInsert` for a book,
`wishName` in front of both. Each is one statement. `shared` is history: names
that two requests have inserted at once, or an UPDATE has made equal. `Naming`
adds the settings (two of them, the templates of folder and file), the disk
(which book's content lies where) and `renameAll`: settings, rows, then for each
file the rename and the UPDATE, and back if that fails. The rename back may fail
as well: the code ignores its error, and the file stays where its row does not
point (`RenameBack`; such a book is in `torn`). The directory that is removed
after the UPDATE, if it is empty, holds no file and is not in the model.

Deleting an author is `DeleteAuthor`, or with `deleteFiles` first `RemoveFolder`
(the folder of the author's name, or on a failure any part of it; the books whose
file went with it are in `wiped`, which is history) and then, if nothing failed,
`PurgeAuthor`, the DELETE. Removing a book from
the wishlist is the look for a file (`RemoveFromWishlist`) and the DELETE
(`DropBook`), two steps with nothing that keeps an import from coming between: no
property speaks of it, since all that holds is the look itself.

Left out: editions, ratings, the lists and their filters, series, more than one
root and more than one file of a book. By reading: `UpdateAuthor` stores any
name; a book's empty foreign id is stored as the empty string, which is UNIQUE,
so that a second such book is refused; `naming.enabled` is looked at by nobody;
`renameAll` does not look whether the destination is taken (in the model:
`Moved` replaces it, and the properties except books that have shared a name).

Two rename jobs may run side by side with different settings. When one moves a
file between the other's move and its UPDATE, both UPDATEs succeed and the later
one decides the row, wherever the file lies: the books this happens to are in
`torn` with those a crash has cut, and `RowsPointToFiles` excepts them.

### 2.6 LibraryScanner

State: `root`, `author`, `book`, `file` are the tables `root_folders`, `authors`,
`books`, `book_files`, and `lastId` their AUTOINCREMENT counters; `disk` gives
the content of each place (a directory and the name of a supported file in it);
`scan` is the local state of each `ScanPath`; `deleting` an author between the
removal of the folder and the DELETE of the row. `mirrored` and `stale` are
history: the folders scanned since the last disturbance, and the scans that met
it; `missed` in a scan is history too.

A scan is `ScanBegin` - `Snapshot` (the SELECT of known paths) - `ReadDir`,
`Visit` (WalkDir) - then, for a known path, `Compare` and `UpdateFile`, for
another `Match`, or `Discover` - `CreateAuthor` - `FindBook` - `CreateBook`, and
`AddFile` - finally `RemoveRow` for each path not met, and `ScanEnd`. Each is one
statement or one look at the disk. `ReadDirFails` is a directory that cannot be
read: the walk logs it and goes on, and what is below it, or what is below some
of its subdirectories, counts as missing. `ScanAborted` is the request that goes
away.
The statement that fails on a key or a foreign key is part of `CreateBook` and
`AddFile`. The user's part: `FileChanges`, `DeleteAuthorFiles`, `DeleteAuthor`.

Abstractions. The walk's order is left open, which includes the lexical one.
Names are values; `Lower`, `Hidden`, `Dashed` and `Longer` say what LOWER, the
leading dot, the `Author - Title` split and `LIKE 'path%'` do with them; `Alike`
are the names LIKE takes for one another (case, and `_` for any character),
`Folder` is what `sanitizeFolderName` makes of an author's name, which may be
nothing, so that the folder is the root itself. A `%` in a stored path, which
would match across separators, is left out.
`sort_title`, hashes, series and formats are dropped. The two SELECTs of
`matchFileToBook` are one step. One author is deleted at a time. `AuthorScans`
allows `ScanAuthorFolder` beside scans of roots.

### 2.7 RootFolderMove

`move` is the local state of each `MoveRootFolder`: `MoveBegin` - `ListAuthors` -
for each folder `SkipFolder`, `RenameFolder`, or `CopyFolder` with `OpenFile`
(truncates the destination), `CopyFile` or `CopyFails`, and `RemoveOld` - then
`Commit` (three UPDATEs in one transaction) or `Rollback` - `MoveReturns`.
`CreateRoot`, `UpdateRoot`, `DeleteRoot` are the other requests, `Crash` ends
every scan and request. `owned` (contents the user has not removed) and `meddled`
(something else was at work during a move, or the user edited) are history.

Whether two roots are on one device is open: `RenameFolder` and `CopyFolder` are
both enabled. `Rebase` is the SUBSTR of the transaction; `Swap` says what it
makes of a name that only begins with the root's.

### 2.8 Hub and Server

A connection has a reader, a writer, a channel (`send`, `closed`) and a place in
`clients`; `removals` counts the goroutines `go h.removeClient(c)` that have not
run. Broadcast holds the read lock throughout and never blocks, so it is one
step; `removeClient` is one, under the lock. `conn` says whether the peer is
there; its deadlines are `ReadFails`, `PingFails` and a failing `WriteMessage`.
Nobody calls Broadcast in this commit: it is an event that may come at any time.

`Server` is the process: `boot` is where `run` is, `db` the content of the
database as one value (key, admin's password, one notification channel), `copy`
and `zip` the two files of a backup, named by the second. Requests are
`UpdateChannel` - `StoreChannel`, `Backup` (VACUUM INTO) - `CreateZip` -
`WriteZip` - `ServeZip` - `RemoveZip` - `RemoveCopy`, `Restore` - `Extract`.
`Die` may come anywhere and takes the hub with it; `InstallRestored` is the user
who starts again with the restored file, as the answer of Restore asks for.

`ShowKey` prints the key, or, when it cannot be read back, goes on without a word.

By reading: the branch of `EnsureAPIKey` that returns "check api key" is not
reached, since any read error replaces the key (`unread` counts these); a
password whose process dies between the INSERT and the log is known to nobody;
the error of `zw.Close` is ignored, so that a full disk makes a cut archive that
is served (a fault in the model); an archive that failed stays in `backups/`;
`Dispatch` of notifications has no caller, and with it no retry of webhooks.

## 3. What TLC checks

| Run | Question | Bounds |
|---|---|---|
| `safety` | Are slots, rows and due times safe over a crash and a failed statement? | 3 goroutines, 2 slots, 4 rows, 1 crash, 1 fault |
| `progress` | Does every command end, is every due task queued, does Stop return and leave nothing, and is each step one of `WorkerPool`? | 2 goroutines, 1 slot, 2 rows, 1 cancel, 1 stop, 1 crash |
| `import` | Are only whole files imported, and does no step lose the last whole file or run a download twice? | 2 items of one book (one an indexer's), 4 downloads, crash, failed copy |
| `recovers` | Does a download settle and get imported, and is it started only once, over a crash, a failed copy, a retry and a removal? | 1 item saved in place, 4 downloads, 1 crash, 1 failed copy, 1 removal, 1 retry, also in haste |
| `page` | Do the page's stale writes keep a row from settling? | 1 item, page open, 4 downloads, crash, failed copy, removal, report |
| `scan` | Do scans leave rows equal to files, remove only what was gone, and file under the folder's author? | 3 scans, 2 side by side; 3 places (author folder, dashed name in the root, hidden folder), 2 contents; 1 change, author deletion, unreadable directory or abort |
| `move` | Does a move, broken off and repeated, lose a file or a row's file? | 1 mover, 2 moves, 2 scans, 4 places (2 authors, old and new root), 1 edit of the root folders, 1 fault, 1 crash |
| `clients` | One client for a row, no wait in a circle, none outdated without reason; does a call miss or refuse without cause? | 2 requests, 1 row of any of 6 types, 4 instances, 2 releases, lists of one entry, 2 changes, 1 session change, 1 failed call |
| `search` | Do cached clients follow the rows, does a failure hide nothing, are saved results those of one search? | 2 requests, 2 changes, 2 indexers, 1 library, 2 metadata providers, 1 restart, 1 failed source |
| `catalog` | Are there twins, rows without files, contents lost to a rename, settings nobody asked for? | 3 requests, 2 at a time; 3 author and 3 book ids, 2 names, 2 titles, 1 foreign id, an author deleted with folder, 1 fault or crash |
| `server` | Is the hub safe, are lost clients let go, are logins kept, backups whole, fields of a channel kept? | 2 requests and 2 connections, buffer of 1, 2 seconds; four budgets, see below |
| `late_write` | see *Where the code and its own words differ* | 1 item, page open, 3 downloads |

**Why the bounds are enough.** Each bound leaves room for the shortest story the
property is about, and one actor more than the story needs where that is
affordable.

* `safety`: two slots and three goroutines are the smallest instance in which
  the limit can be exceeded while a slot is being given back; two rows suffice
  for a double dispatch beside another command. The row bound covers the manual
  command, the due time and one repetition for the crash and the fault each, so
  it never stops the loop. In `progress` one manual command is left out, and a
  row remains for the repetition after a crash.
* `import`, `recovers`, `page`: the ids of downloads cover every grab, restart
  and retry of these instances, so `Add` never blocks; two items are what it takes to replace a
  book's file.
* `scan`: two scans race, the change falls anywhere, the third scan is the one
  that must repair. The three places give one author two spellings and one
  folder that is not walked.
* `move`: a first try is broken off (the fault or the crash), a scan follows or
  interferes, a second try must cope; two authors make one folder moved and one
  not.
* `clients`: a race over a row takes two requests; the update and the deletion
  in between are the two changes. Two requests make two instances at most, so
  that four never block. With two releases and lists of one entry an answer is cut
  short, and is not where one release moves between the two questions.
* `search`: two indexers so that one can fail while the other answers; the
  second request is a search beside a search, or a change beside one.
* `catalog`: twins need two requests that both saw nothing; two rename jobs side by
  side, with settings saved or an author deleted as the third request, make a
  move back fail. Three ids let each of three requests insert.
* `server`: a buffer of one is full after one message, and the second then meets
  a removal under way. `SomeBudgets` splits what happens: connections and
  messages alone, or requests in one second, or fewer requests with two faults
  over two seconds; the hub and the requests share no state but the process's
  death, which all four have.

The bounds are CONSTANTS named `Max...` (or a budget) and stand in guards of
users, programs and faults only, except the supplies of identities (`Worker`,
`Download`, `Instance`, `AuthorId`, `BookId`), which are large enough not to
block. Symmetry (goroutines, scans, processes, releases) is used with safety properties
only. Deadlock is checked except where the system may really rest: after Stop
(`progress`) and where everything that begins with a user has reached its bound
(`scan`, `move`, `clients`, `search`, `catalog`, `server`). That the resolver
cannot block for ever is `LockOrder`, which is stronger than the check there.

**Fairness.** `Scheduler`: the ticker fires, a runnable goroutine runs, handlers
return (the download monitor does no unbounded work and the HTTP client has a
timeout), a supervisor restarts the process (`restart: unless-stopped` in
`docs/docker-deployment.md`); `select` picks at random, so the stop case is not
passed over for ever (strong fairness of `LoopExit`). `DownloadQueue`: the
monitor runs (every 30 s, `scheduled_tasks` in the first migration; `progress`
is why each of these commands is dispatched and ends), a download ends (30
minutes' timeout in `direct/client.go`), a request once begun and a page write
once read go on. `Hub`: both pumps of a connection and the goroutines of
Broadcast run, and the deadlines that the pumps set (`pongWait`, `writeWait`)
expire once the peer is gone. No fairness for users, other programs, crashes or
faults.

### Where the code and its own words differ

One run expects a violation; the counterexample is the explanation, and
`PROJECT.json` quotes the line.

| Run | What happens |
|---|---|
| `late_write` | A stale *downloading* of the page re-opens an imported row; the second import deletes the book's file row and fails to copy. |

Seen in other instances of the same modules, with no run of their own (the name
in parentheses is the definition that TLC refutes there):

* `Scheduler`: the row stays *queued* until the goroutine's UPDATE, so a tick in
  between dispatches the command again, and the first copy to end deletes the
  other's entry in `running` (`ExecutingIsTracked`). The goroutine's UPDATEs
  overwrite *cancelled* (`CancelledStaysCancelled`).
* `DownloadQueue`: a torrent's row is polled with the direct client, which does
  not know its id and fetches the torrent's URL as if it were a book
  (`IndexerRowsLeftAlone`). With a book in `Misfiled`, the scan after one import
  files another import's half-copied file under a book of its own, and the UNIQUE
  path refuses the import from then on (`CompletedIsImported`). With items in
  `InPlace`, a grab under the library's own file name truncates the library's
  copy before the new bytes have come (`CompletedBookIsOnDisk`). Two monitors
  restart a lost download twice (`OneDownloadPerItem` with `Monitor = {m1, m2}`
  and a crash) and import from each other's half-made copies (`ImportsAreWhole`,
  `CompletedBookIsOnDisk`). A row whose path is still the directory is completed by the page
  and never imported (`CompletedIsImported` with `UI = TRUE`). After a crash a
  stale path makes a cut-off file imported (`ImportsAreWhole` with `UI = TRUE` and
  `MaxCrashes = 1`).
* `DownloadQueue`, retries: RetryDownload "re-submits a failed or cancelled
  download" (`internal/wanted/queue.go:128`) but checks for neither, and holds nothing
  against a second request or the monitor. A row retried in haste has two downloads
  that write one file, and the import of one may register what the other has just
  truncated. Without their exemption of items in `hasty`, TLC refutes
  `OneDownloadPerItem` and `ImportsAreWhole` in the instance of `recovers`.
* `ExternalClients`: "GetQueue returns all items in SABnzbd queue and history"
  (`internal/download/sabnzbd/client.go:133`), but it asks for 100 and 50 of them:
  `AllSlotsReturned` is refuted in the instance of `clients`; `NoSlotLost` says what is left of it.
* `LibraryScanner`: two scans of one folder both find no author of a name and
  both insert one: the column the comment relies on is not UNIQUE
  (`OneAuthorPerName`). With `AuthorScans`, a new file in an author's folder is
  filed under the unknown author, because its path is read relative to the folder
  scanned (`FiledUnderItsFolder`). With a pair in `Longer`, a scan of one root
  removes rows of its longer-named sibling (`UndisturbedScansMirror`).
* `RootFolderMove`: a file that lies in the root itself, in no author's folder,
  is not moved, but its row is (`MoveTakesAllFiles` with `AuthorAndOne`). A move
  onto another root's path overwrites that root's files before the transaction
  fails on the UNIQUE path, and with an author deleted in between a content is
  gone (`MoveLosesNothing` with `MaxChanges = 1`, `MaxEdits = 1`). Two moves side
  by side overwrite each other's only whole copies (`MoveLosesNothing` with two
  elements in `Mover`); with one, random behaviours with 8 moves, 8 scans and 4
  faults, crashes and edits show no loss. A retry to
  another target after a half-done move leaves rows without files
  (`RowsFollowFiles` with a third path in `Target`).

By reading: removing a row does not cancel its download although
`docs/api-spec.md:357` says so; a goroutine that is not yet in `running` is
missed by Stop; the row of a command whose last UPDATE fails says *running* until
the next start; `handler/wanted.go:319` promises the next available source, which
the service does not look for; the SUBSTR of a move counts characters where Go
counted bytes; a root folder that cannot be read looks empty to a scan, which
removes its rows (`ReadDirFails` is that step in the model); reading
progress saved with the system's API key belongs to user 0, whom no row of
`users` has, and is refused by the foreign key.

## 4. What is proved

Each theorem holds for every value of the constants that meets the named
assumptions of its module. Fairness and ENABLED are beyond the prover, and so is
induction over data; liveness is therefore TLC's alone.

**`SchedulerProofs`**, for any names, tasks, goroutines, capacity and bounds,
under `ConstantsOK`:

* `PoolInvariant`, `TypeCorrect`: the inductive invariant `IInv` is `TypeOK` and
  `PoolInv`: `wg` is the number of live goroutines, plus one while the loop
  lives; `sem` is the number of goroutines between the send and the deferred
  receive, and at most the capacity; a Stop past its wait has an exited loop and
  no live goroutine. `TypeOK` alone is not inductive (nothing keeps `wg - 1` a
  natural number), and neither are the properties: they speak of handlers and of
  Stop, the code of two counters.
* `ExecutionBounded`: executing goroutines are among those holding a slot, and
  `sem` counts these.
* `StopIsGraceful`: `wg.Wait` returns at zero, where the loop is gone, so that
  nobody can start another goroutine.
* `SchedulerIsAPool`: the refinement. The initial states map to the pool's, and
  each action to a start, an end, a change of phase or a stutter; `IInv` gives
  what the pool's guards ask for (a free slot at a start, nobody alive when it
  closes). A crash is the step that ends everything at once.
* `RunningIsAttended`: inductive with `TypeOK`. The case that needs the care is
  a second copy of a command: each UPDATE to *running* comes with a goroutine
  past it, and each goroutine that leaves that region writes a final status.
* `DueTimesCounted`, with `TasksAreNotRepeated` and `TasksAreNotLost` as its two
  halves: the rows queued for a task plus the due time it is still *owed* lie
  between the due times so far and these plus one for each crash and failed
  statement. A task is owed a row while it is due, except between its INSERT and
  the UPDATE of `next_run_at`, the window in which a crash or a failure repeats
  it. The strengthening also says that the batch of a tick holds due tasks only
  and that a row not yet inserted counts for nobody.

**`ServerProofs`** begins with the hub, under `BufferAssumption`: `HubStepInv`, that
a step of the hub keeps `HubInv`: the types, `HubSafe` (which relates the map,
the channels, the pumps and the removals still to come of each client, and is
inductive with the types), and that a connection not yet made has left no trace.
It is stated of a step, because the hub's variables also change with the process.
Of the process, under `FilesAssumption` as well: `ServerInvariant` and, from it, `HubIsSafe`, `LoginsStay`, `BackupsStayWhole`, `UpdatesKeepOthers`, each for
any number of requests, seconds, faults, starts and deaths. Its parts: `HubInv`
and the types; `DownIsIdle` (no request while the process is down);
`Archives` (VACUUM INTO refuses a name that is taken, so that one second has one
backup under way, whose copy is there until it removes it, and whose archive is
whole when served unless a write failed);
`Restores` (two restores at once know of each other); `Channels` (what an
update has read is what the row holds, unless another update came between);
`Logins` (every copy of the database, the files of unfinished requests included,
has the admin of the database and a key that counts among those in use, and
these, with those that were shown, are at most one more than the reads that
failed).

**`DownloadClientsProofs`**, under `ProcAssumption`, `LimitAssumption` and
`ClientAssumption`, for any lengths of SABnzbd's lists and any limits:
`ResolverInvariant` and, from it, `LocksAreOrdered`, `OneClient`, `StaleClients`,
`SessionIsKept`, `SlotsAreKept`. The parts of the invariant: the types;
`Instances` (they are numbered without gaps, and a request on its way to one has
a row); `Locks` (the two places where the mutex is held, and that the connection
is held on the way to a client only, from which `LockOrder` follows at once);
`Counted` (a row has had one client for each drop, plus the cached one: the
second look under the lock is what keeps it); `Fresh` (who holds the connection
knows the row as it is, because every change needs the connection); `Slots` (of
a call between the queue and the history that was not cut short, what it has and
what the history has cover what there was; `ShownAreThere` and `AllAreShown` are
the lemmas about an answer that may be shorter than the list); `Sessions` (calls that overlap are disturbed together, an
undisturbed one has stored the current id before its second try). None of the
properties is inductive: each speaks of the outcome, its part of the way there.

**`BookSearchProofs`**, under `ProvidersAssumption`, for any number of requests,
sources, answers and restarts: `SearchInvariant` and, from it, `NothingIsHidden`,
`SavedFromOneSearch`, `ClientsFollow`. A step belongs to one request, so that one
part of the invariant is about each request by itself (`Requests`): while it asks,
what it has collected is what the sources have answered; along the list of metadata
providers, `Merged`: what it keeps is the earliest result of each key, each key
heard is among them, and all come from providers before the next
(`MergeKeepsEarliest` is the step). `Caching`: wherever no two requests changed one
indexer, the only change under way finds the row it wrote, and after `Drop` no
client; with none under way the client is the row's. `Saved`: the rows of
`search_results` and those still to be inserted are together the last search's, and
one request at most is inserting.

**`NamingProofs`**, of `Catalog` and `Naming` together, under `CatalogConstantsOK`
(ids are positive, those of books finite; the first library's rows have ids and
its authors different names) and `NamingConstantsOK` (its files lie at different
paths), for any number of requests, names, templates, faults and crashes:
`CatalogInvariant` and, from it, `CatalogTypes`, `FindOrCreateMakesOne`,
`RowsKeepPointing`, `RenamesLoseNothing`, `SettingsStayWhole`.
The parts of the invariant:

* `InsertsOk`: of two requests at the INSERT of one name each knows that it is
  shared, and who is there has seen no author of it. `NoTwins` by itself does not
  say what an INSERT still to come may do.
* `SavesOk`: what a request has not written yet is all that the stored settings
  lack.
* `HistoryOk`, `DiskOk`: a file is, was or will be only at paths in `Known(b)`,
  those that names the book has had and templates once stored make. A book that
  is `Alone` shares none of these with another, so that no rename, whichever book
  it is of and however old the templates it runs with, lands on its file.
  `RenamesLoseNothing` follows: of such a book's own moves each keeps the content,
  and only the deletion of an author's folder takes it off the disk (`wiped`).
* `RowsFollow`: the row of such a book says where its file is, or, while a job is
  between the rename and the UPDATE, where it was, and there is one such job. A
  crash there, a second job that moves the file on, or a move back that fails takes
  the book out of the claim (`torn`), and so does the deletion of the folder its
  file is in, by whichever author's name (`wiped`).

The catalog's steps touch neither disk nor settings. The lemma `Growth` carries
the second half of the invariant over each of them: they add to the names a book
has had, and a book that is `Alone` after the step was so before it.

**`DownloadQueueProofs`**, under `ConstantsOK`: `QueueTypes`, in every behaviour;
and with `OwnFile`, for any number of books, items, ids, crashes, failed copies,
retries of failed rows and removals, and requests side by side, `CalmInvariant`
and, from it, `OneDownload`, `ImportedWhole`, `CompletedOnDisk`. These are about
calm behaviours, and the code enforces none of what that means. `[]Calm` says that
monitors do not overlap (`m, n` both at work are one; what the scheduler does as
long as a run is shorter than its interval), that the page writes nothing back,
and that nobody retries a row that has not failed, or one that another request is
at work on (`hasty = {}`; what the page's button allows, and any other client of
the API need not heed). `OwnFile` says that an item saved under the library's name
for its book is the book's only item. `CompletedOnDisk` also needs that nobody
reports a file. None can go: TLC has a counterexample to `ImportsAreWhole` and
`CompletedBookIsOnDisk` with two monitors, with the page open, and with two items
of a book one of which is in `InPlace`; to `OneDownloadPerItem` with two monitors
(it is not disturbed by the page or the second item); to `OneDownloadPerItem` and
`ImportsAreWhole` with one retry in haste (the definitions except such items, as
told above); and to `CompletedBookIsOnDisk` with a report, which deletes the file
and keeps the row. The parts of the invariant:

* `LinkOk`: a download that is queued or running belongs to a row that names it,
  to a request or to a monitor about to name it there (`Held`), or its row is
  gone; no two are of one item; an id in a row is of that item. A crash makes
  every id unknown, a restart gives the item a new one before the row has it:
  between the two steps only `Held` knows whose it is.
* `ReqOk`, `ListOk`, `WriteOk`, `RelinkOk`, `ImportOk`: what a request or a monitor
  has read still holds when it uses it, or the row was removed meanwhile. A
  monitor's list names each item once; a status *completed* on its way to the row
  is that of a download that has ended; what is imported is whole, nothing is on
  its way for its item, and the copy is the monitor's own until it is registered.
* `FileOk`: a running download is the last writer of its file, the file of an
  ended one whose row is still to hear of it is whole, and the path of a
  completed row is one of its item's (`FilesFor`), not cut off.
* `CoverOk`: the book of a completed row has the library's file, whole, or an item
  whose own file is whole and that no step to come writes to (`Settled`). That is
  what carries a book over an import of its second item, which truncates the copy
  of the first: the source is removed only after the copy is whole again.

None of the three properties is inductive; `CompletedBookIsOnDisk` does not even
say which file is the whole one. Each step of the proof touches one row, one
download or one file, and `Apart` (no two items share a path) keeps the rest.

**`LibraryProofs`**, of `LibraryScanner`, under its `ConstantsOK`, for any number of
scans, roots, files, authors and changes: `LibraryTypes`, `RowsKept`,
`RootsKeepTheirRows`, `ScansMirror`, `FiledAtHome`. The parts of the invariants:

* `Types`: the schema's keys, and what a scan holds at each of its statements. An
  id in a scan may be of a row that is gone, never one still to be given.
* `Watched`: what a walk has not met of its snapshot and has no way to meet any
  more (no directory left to read, not among the entries) was off the disk at some
  moment, or below a directory that could not be read. It is about the folders the
  walk reads, so that `RowsKept` asks for `[]Apart`: the LIKE prefix selects nothing
  outside them.
* `Reached`: with scans of roots only, rows, directories and entries are what the
  walk of some root reaches. `RootsApart`, a condition on the constants, then gives
  `Apart`.
* `Faithful`, for as long as no disturbed scan is at work: of each scan, whatever is
  on the disk below its root is still to be read, still to be visited, in hand, or
  found and `Settled` (a row with the right size); whatever row is below it is of
  a file or about to be removed. Of each scanned folder, `Mirror`. A scan's own
  steps undo neither for another scan (`Benign`): a row is removed only of a file
  that is not there, and an UPDATE writes the size the file has.
* `AtHome`: what a scan has found out for the file in hand (a name, an author's id,
  a book's id) fits the folder the file is in, as long as the row is still there.
  Ids are never used again (`FreshRows`), so that an author deleted between two
  statements cannot come back as another one.

The hypotheses are what the code leaves to the user. `~AuthorScans`: with scans of
authors' folders TLC refutes `FiledUnderItsFolder`, because the path is then read
relative to that folder. `RootsApart`: with the roots `/lib` and `/library` it
refutes `OnlyMissedFilesRemoved` and `UndisturbedScansMirror`. `RootsDisjoint`:
with a root in another it refutes `FiledUnderItsFolder`. `Labelled`: metadata go
before the path.

**`RootFolderMoveProofs`**, of `RootFolderMove`, under `ConstantsOK` and
`MoveConstantsOK`, for any number of files, authors, scans, faults, crashes and
tries: `MovesKeepContents`, `MovedRowsFollowFiles`, `OneScanOneAuthor`,
`PlainLibraryMoves`. The parts of the invariants:

* `Based`: the types; every row, author, root and request lies within the paths
  that root folders are at or are moved to (the *ends*). It needs no hypothesis but
  `~AuthorScans`, `EndsApart` and `RoomToMove`.
* `Tidy`: a cut-off copy has its whole twin, in the folder of an author that the
  running move has still before it; what a copy has done so far is alike in both
  places. `OpenFile` therefore truncates a file only while its source is whole, no
  cut file is ever the source of a copy or a rename, and `RemoveOld` removes copied
  files only.
* `Kept`: with it, every content is whole somewhere, and two whole twins are alike,
  so that a second try that copies over the first loses nothing either.
* `Followed`, for as long as nothing else has been at work during a move: a row
  has a whole file at its place or at the twin of it (`RowsSafe`); authors and rows
  are below a root; the files of the folders a move has behind it are whole on the
  other side (`Processed`), which is what `Commit` relies on when it rewrites the
  rows; after that every row's file is at its place (`DoneOk`).
* `OneName`: between the SELECT and the INSERT of the only scan nobody else makes
  an author, and an author's folder is named after it. Hence `OneHome`.
* `AllHoused`: what a scan has found out for the file in hand is of the author
  whose folder the file is in, so that rows are in authors' folders.

The hypotheses, and what becomes of the properties without them:

* `EndsApart`: there are two ends, and neither reaches into the other, also not by
  LIKE's prefix. With a third, a try that broke off half way to one end, followed
  by a successful one to the other, leaves rows without files; TLC shows it.
* `RoomToMove` says that `Place` has the places files are moved to, `LibraryAlike`
  that two different files are not at the two ends of one move to begin with: the
  second is replaced by the first, as the code does.
* `Solo`: moves come one at a time. Two side by side lose a file, as told above.
* `OneHome`, no two authors whose folders are the two ends of a move: a move would
  merge them. `OneScanOneAuthor` derives it for scans one at a time; two side by
  side may make it false, as the counterexample to `OneAuthorPerName` shows.
* `Housed`, rows are in the folders of authors: the move walks the folders of
  authors and rewrites the paths of all rows below the root. The row of a file that
  lies loose in the root, or is filed under an author whose metadata name differs
  from its folder, is moved without the file. `PlainLibraryMoves` derives it from
  the library: one root, files in folders below it (`Plain`), names that differ in
  more than case, and metadata that name the folder's author or none
  (`OwnLabels`).
* For `MovesKeepContents`, that the user changes no file and deletes no author:
  with an author deleted between two tries a content is lost, as told above, and a
  user may also remove the whole one of two twins.

TLC confirmed the hypotheses, and all parts of the invariants, on the `move` run's
instance (with `Lower` the identity, since `Plain` asks for it), where moves succeed
after crashes. A root folder at `/` itself, the empty path, is left out by
`MoveConstantsOK`.

Model-checked only: the liveness properties.

## 5. Not modelled

* The parsers: EPUB, PDF and MOBI metadata (`internal/core/mediafile`), the HTML and
  JSON of digital libraries, indexers and metadata providers, the templates and
  sanitizing of file names beyond which of them coincide. They compute a value
  from a text, hold no state, and TLC would only compare two spellings of them.
* Covers (`internal/metadata/covers`): the service is constructed nowhere. Path
  mapping: `MapPath` has no caller outside its tests. `notification.Dispatch`, and
  with it the retries of webhooks, has none either.
* Quality profiles, reading progress and bookmarks, editions, lists, statistics,
  OPDS: each operation is one statement or a read, with no second step another
  request could come before.
* The challenge bypass (`internal/bypass`): another program, of which only the answer
  counts, and this is a failed or late source in `BookSearch`.
* Configuration, migrations and wiring at start: they run once, before anything
  else. The part that is stored and shown, keys and passwords, is in `Server`.
* The web client: its state machines drive a page for one user; what it does to
  the server are the requests that the modules admit in any order.
