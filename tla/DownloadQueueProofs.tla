-------------------------- MODULE DownloadQueueProofs --------------------------
(***************************************************************************)
(* Downloads for any number of books, items, ids, crashes, failed copies,  *)
(* retries, removals and reports. The types hold in every behaviour. The   *)
(* other results are about behaviours in which at most one DownloadMonitor *)
(* is at work at a time, the queue page writes nothing back, and a row is  *)
(* retried only when it has failed and no other retry of it is under way   *)
(* (Calm). None of the three is enforced by the code, and without any of   *)
(* them the results are false: two monitors, a page that writes what it    *)
(* once read, or a retry in haste.                                         *)
(***************************************************************************)
EXTENDS DownloadQueue, FiniteSetTheorems, TLAPS

Status == {"unused", "queued", "downloading", "completed", "failed", "gone"}
State == {"unused", "queued", "downloading", "streaming", "completed", "failed", "lost"}
Seen == {"none", "queued", "downloading", "completed", "failed"}
QueueRow == [status : Status, ext : Download \cup {0}, path : Path]
Entry == [state : State, item : Item \cup {0}, dir : {RootDir, AuthorDir}, made : BOOLEAN]
Read == [item : Item, ext : Download \cup {0}, path : Path]
MonPC == {"idle", "next", "write", "relink", "import", "copy", "copying", "register",
          "finish", "clean"}
Command == [pc : MonPC, phase : {"none", "pending", "active"}, todo : SUBSET Read,
            r : Read \cup {NoRow}, dl : Download \cup {0}, seen : Seen, src : Path,
            ok : BOOLEAN]
PageType == [item : Item \cup {0}, status : Seen]
ReqType == [pc : {"record", "relink"}, item : Item, dl : Download]
ReportType == [n : Nat, pc : {"unlink", "delete"}, file : Book \X File, row : BOOLEAN]
ScanType == [due : BOOLEAN, on : BOOLEAN, listed : SUBSET File, met : File \cup {NoPath},
             missed : SUBSET File]

DiskTypes ==
    /\ filed \subseteq (Book \cup {0}) \X File
    /\ content \in [File -> {"none", "partial", "complete"}]
    /\ writer \in [File -> Download \cup Monitor \cup {0}]
    /\ authorDir \in BOOLEAN

\* What each monitor, request and the page know is of the right kind.
WorkTypes ==
    /\ mon \in [Monitor -> Command]
    /\ \A m \in Monitor :
        /\ mon[m].pc \notin {"idle", "next"} => mon[m].r \in Read
        /\ mon[m].pc = "write" => mon[m].dl \in InMap /\ mon[m].seen # "none"
        /\ mon[m].pc = "relink" => mon[m].dl \in Download
    /\ page \in PageType /\ (page.item # 0 => page.status # "none")
    /\ req \subseteq ReqType /\ \A q \in req : q.dl \in InMap

\* Scans, and reports: the row a report has read is there, as long as it says so.
SideTypes ==
    /\ scanning \in ScanType /\ had \subseteq Book /\ hasty \subseteq Item
    /\ reports \in Nat
    /\ report \subseteq ReportType /\ (report # {} => reports > 0)
    /\ \A r \in report : r.row => r.file \in filed

Types ==
    /\ row \in [Item -> QueueRow]
    /\ dl \in [Download -> Entry]
    /\ \A d \in Download : dl[d].state # "unused" => dl[d].item \in Item
    /\ DiskTypes /\ WorkTypes /\ SideTypes

-----------------------------------------------------------------------------
(* Paths *)

\* The library's name of a book may be the file of one item only, and then
\* the book has no other item: no grab truncates what another one has brought.
OwnFile == \A i \in InPlace, j \in Item : BookOf[i] = BookOf[j] => i = j

\* Where the direct client may save item i.
FilesFor(i) == {<<"author", i>>, <<"root", i>>}
               \cup (IF i \in InPlace THEN {Dest(BookOf[i])} ELSE {})

LEMMA Paths ==
    /\ \A b \in Book : Dest(b) \in File /\ Dest(b) \in Path
    /\ \A i \in Item : FilesFor(i) \subseteq File /\ Expected(i) \in Path
    /\ \A i \in Item, dir \in {RootDir, AuthorDir} : FileIn(dir, i) \in FilesFor(i)
    /\ File \subseteq Path /\ {NoPath, RootDir, AuthorDir} \subseteq Path
    /\ File \cap {NoPath, RootDir, AuthorDir} = {}
    /\ \A p \in File : BookAt(p) \in Book
<1>1. \A b \in Book : Dest(b) \in File
  BY DEF Dest, File
<1>2. ASSUME NEW i \in Item PROVE FilesFor(i) \subseteq File
  <2>1. <<"author", i>> \in File /\ <<"root", i>> \in File
    BY DEF File
  <2>2. BookOf[i] \in Book
    BY ConstantsOK
  <2> QED BY <1>1, <2>1, <2>2 DEF FilesFor
<1>3. \A i \in Item, dir \in {RootDir, AuthorDir} : FileIn(dir, i) \in FilesFor(i)
  BY DEF FileIn, FilesFor
<1>4. File \subseteq Path /\ {NoPath, RootDir, AuthorDir} \subseteq Path
  BY DEF Path
<1>5. ASSUME NEW i \in Item PROVE Expected(i) \in Path
  <2>1. <<"bare", i>> \in Path
    BY DEF Path
  <2> QED BY <1>2, <1>3, <1>4, <2>1 DEF Expected
<1>6. File \cap {NoPath, RootDir, AuthorDir} = {}
  BY DEF File, NoPath, RootDir, AuthorDir
<1>7. \A p \in File : BookAt(p) \in Book
  BY ConstantsOK DEF BookAt, File
<1> QED BY <1>1, <1>2, <1>3, <1>4, <1>5, <1>6, <1>7

\* No two items share a file, nor does an item with another's book.
LEMMA Apart ==
    ASSUME OwnFile, NEW i \in Item, NEW j \in Item
    PROVE  /\ \A p \in FilesFor(i) : p \in FilesFor(j) => i = j
           /\ Dest(BookOf[j]) \in FilesFor(i) => i = j
           /\ \A b \in Book : Dest(b) \in FilesFor(i) => b = BookOf[i] /\ i \in InPlace
           /\ \A b, c \in Book : Dest(b) = Dest(c) => b = c
  BY ConstantsOK DEF OwnFile, FilesFor, Dest

LEMMA SavePaths ==
    ASSUME Types, NEW d \in Download, dl[d].state # "unused"
    PROVE  /\ SavePathOf(d) \in Path
           /\ FileIn(dl[d].dir, dl[d].item) \in FilesFor(dl[d].item)
           /\ FileIn(dl[d].dir, dl[d].item) \in File
           /\ dl[d].made => SavePathOf(d) = FileIn(dl[d].dir, dl[d].item)
<1>1. dl[d] \in Entry /\ dl[d].item \in Item /\ dl[d].dir \in {RootDir, AuthorDir}
  BY DEF Types, Entry
<1> QED BY <1>1, Paths DEF SavePathOf

-----------------------------------------------------------------------------
(* Types *)

LEMMA FirstTypes == Init => Types
<1> SUFFICES ASSUME Init PROVE Types
  OBVIOUS
<1>1. row \in [Item -> QueueRow] /\ dl \in [Download -> Entry]
  BY Paths DEF Init, QueueRow, Status, Entry, State
<1>2. DiskTypes
  BY DEF Init, DiskTypes
<1>3. IdleMon \in Command
  BY Paths DEF IdleMon, Command, MonPC, Seen
<1>4. WorkTypes
  BY <1>3 DEF Init, WorkTypes, IdleMon, PageType, ReqType, Seen
<1>5. SideTypes
  BY DEF Init, SideTypes, ScanType, NoScan
<1> QED BY <1>1, <1>2, <1>4, <1>5 DEF Types, Init

\* One entry of the client's map changes.
LEMMA EntrySet ==
    ASSUME Types, NEW d \in Download, NEW e \in Entry, dl' = [dl EXCEPT ![d] = e],
           e.state # "unused" => e.item \in Item
    PROVE  /\ dl' \in [Download -> Entry]
           /\ \A x \in Download : (dl[x].state # "unused")' => (dl[x].item \in Item)'
  BY DEF Types

\* One row changes, in its status, and in its path or its id as well; a row
\* that is not in the queue does not.
RowBecomes(i, s, x, p) ==
    /\ row' \in [Item -> QueueRow] /\ \A j \in Item \ {i} : row'[j] = row[j]
    /\ IF InQueue(i) THEN row'[i].status = s /\ row'[i].ext = x /\ row'[i].path = p
                     ELSE row'[i] = row[i]

LEMMA RowSet ==
    ASSUME Types, NEW i \in Item, NEW r \in QueueRow, row' = [row EXCEPT ![i] = r]
    PROVE  row' \in [Item -> QueueRow] /\ row'[i] = r /\ \A j \in Item \ {i} : row'[j] = row[j]
  BY DEF Types

LEMMA StatusSet ==
    ASSUME Types, NEW i \in Item, NEW s \in Status, UpdateQueueItemStatus(i, s)
    PROVE  RowBecomes(i, s, row[i].ext, row[i].path)
<1> DEFINE r == [row[i] EXCEPT !.status = IF InQueue(i) THEN s ELSE row[i].status]
<1>1. row[i] \in QueueRow
  BY DEF Types
<1>2. r \in QueueRow /\ r.ext = row[i].ext /\ r.path = row[i].path
  BY <1>1 DEF QueueRow
<1>3. r.status = (IF InQueue(i) THEN s ELSE row[i].status)
  BY <1>1 DEF QueueRow
<1>4. row' = [row EXCEPT ![i] = r]
  BY DEF UpdateQueueItemStatus
<1>5. ~InQueue(i) => r = row[i]
  BY <1>1, <1>2, <1>3 DEF QueueRow
<1> HIDE DEF r
<1> QED BY <1>2, <1>3, <1>4, <1>5, RowSet DEF RowBecomes

LEMMA PathSet ==
    ASSUME Types, NEW i \in Item, NEW s \in Status, NEW p \in Path,
           UpdateQueueItemStatusWithPath(i, s, p)
    PROVE  RowBecomes(i, s, row[i].ext, p)
<1> DEFINE r == [row[i] EXCEPT !.status = s, !.path = p]
<1>1. row[i] \in QueueRow
  BY DEF Types
<1>2. r \in QueueRow /\ r.ext = row[i].ext /\ r.path = p /\ r.status = s
  BY <1>1 DEF QueueRow
<1>3. InQueue(i) => row' = [row EXCEPT ![i] = r]
  BY DEF UpdateQueueItemStatusWithPath
<1>4. ~InQueue(i) => row' = row
  BY DEF UpdateQueueItemStatusWithPath
<1> HIDE DEF r
<1> QED BY <1>2, <1>3, <1>4, RowSet DEF RowBecomes, Types

LEMMA IdSet ==
    ASSUME Types, NEW i \in Item, NEW d \in Download, Relink(i, d)
    PROVE  RowBecomes(i, "queued", d, row[i].path)
<1> DEFINE r == [row[i] EXCEPT !.ext = d, !.status = "queued"]
<1>1. row[i] \in QueueRow
  BY DEF Types
<1>2. r \in QueueRow /\ r.ext = d /\ r.path = row[i].path /\ r.status = "queued"
  BY <1>1 DEF QueueRow, Status
<1>3. InQueue(i) => row' = [row EXCEPT ![i] = r]
  BY DEF Relink
<1>4. ~InQueue(i) => row' = row
  BY DEF Relink
<1> HIDE DEF r
<1> QED BY <1>2, <1>3, <1>4, RowSet DEF RowBecomes, Types

LEMMA DownloadTypes == ASSUME Types, NEW d \in Download, DownloadStep(d) PROVE Types'
<1>1. dl[d] \in Entry /\ dl[d].state \notin {"unused", "lost"} /\ dl[d].item \in Item
  BY DEF DownloadStep, Begin, Fail, CreateFile, Complete, Types
<1>2. PICK e \in Entry : /\ dl' = [dl EXCEPT ![d] = e]
                         /\ e.item = dl[d].item /\ e.state \notin {"unused", "lost"}
  <2>1. CASE Begin(d)
    <3>1. [dl[d] EXCEPT !.state = "downloading"] \in Entry
      BY <1>1 DEF Entry, State
    <3> QED BY <1>1, <2>1, <3>1 DEF Begin, Types, Entry
  <2>2. CASE Fail(d)
    <3>1. [dl[d] EXCEPT !.state = "failed"] \in Entry
      BY <1>1 DEF Entry, State
    <3> QED BY <1>1, <2>2, <3>1 DEF Fail, Types, Entry
  <2>3. CASE CreateFile(d)
    <3>1. [dl[d] EXCEPT !.state = "streaming", !.made = TRUE] \in Entry
      BY <1>1 DEF Entry, State
    <3> QED BY <1>1, <2>3, <3>1 DEF CreateFile, Types, Entry
  <2>4. CASE Complete(d)
    <3>1. [dl[d] EXCEPT !.state = "completed"] \in Entry
      BY <1>1 DEF Entry, State
    <3> QED BY <1>1, <2>4, <3>1 DEF Complete, Types, Entry
  <2> QED BY <2>1, <2>2, <2>3, <2>4 DEF DownloadStep
<1>3. InMap' = InMap
  BY <1>1, <1>2 DEF InMap, Types
<1>4. DiskTypes'
  <2>1. DiskTypes /\ filed' = filed
    BY DEF Types, DownloadStep
  <2>2. CASE Begin(d) \/ Fail(d)
    BY <2>1, <2>2 DEF Begin, Fail, disk, DiskTypes
  <2>3. CASE CreateFile(d)
    BY <2>1, <2>3 DEF CreateFile, DiskTypes
  <2>4. CASE Complete(d)
    BY <2>1, <2>4 DEF Complete, DiskTypes
  <2> QED BY <2>2, <2>3, <2>4 DEF DownloadStep
<1>5. WorkTypes'
  BY <1>3 DEF Types, WorkTypes, DownloadStep, requests
<1>6. SideTypes'
  BY DEF Types, SideTypes, DownloadStep, requests, counts
<1> QED BY <1>1, <1>2, <1>4, <1>5, <1>6, EntrySet DEF Types, DownloadStep

\* Add: the entry is new and nothing else of the map changes.
LEMMA Adding ==
    ASSUME Types, NEW d \in Download, NEW i \in Item, NEW dir \in {RootDir, AuthorDir},
           Add(d, i, dir)
    PROVE  /\ dl[d].state = "unused" /\ dl'[d] = [state |-> "queued", item |-> i,
                                                  dir |-> dir, made |-> FALSE]
           /\ \A e \in Download \ {d} : dl'[e] = dl[e]
           /\ dl' \in [Download -> Entry]
           /\ \A x \in Download : (dl[x].state # "unused")' => (dl[x].item \in Item)'
           /\ InMap' = InMap \cup {d}
<1> DEFINE e == [state |-> "queued", item |-> i, dir |-> dir, made |-> FALSE]
<1>1. e \in Entry /\ e.item = i /\ e.state = "queued"
  BY DEF Entry, State
<1>2. dl' = [dl EXCEPT ![d] = e] /\ dl[d].state = "unused"
  BY DEF Add
<1> HIDE DEF e
<1>3. dl' \in [Download -> Entry] /\ \A x \in Download : (dl[x].state # "unused")' => (dl[x].item \in Item)'
  BY <1>1, <1>2, EntrySet
<1>4. dl'[d] = e /\ \A x \in Download \ {d} : dl'[x] = dl[x]
  BY <1>2 DEF Types
<1>5. InMap' = InMap \cup {d}
  BY <1>1, <1>4 DEF InMap
<1> QED BY <1>1, <1>2, <1>3, <1>4, <1>5 DEF e

\* What one monitor knows, and what changes when only that does.
Knows(c, pc, phase, todo, r, d, seen, src, ok) ==
    /\ c \in Command
    /\ c.pc = pc /\ c.phase = phase /\ c.todo = todo /\ c.r = r
    /\ c.dl = d /\ c.seen = seen /\ c.src = src /\ c.ok = ok
OthersStay(m) == mon' \in [Monitor -> Command] /\ \A n \in Monitor \ {m} : mon'[n] = mon[n]

LEMMA MonSet ==
    ASSUME Types, NEW m \in Monitor, NEW c \in Command, mon' = [mon EXCEPT ![m] = c]
    PROVE  OthersStay(m) /\ mon'[m] = c
  BY DEF Types, WorkTypes, OthersStay

LEMMA CmdType == ASSUME Types, NEW m \in Monitor PROVE mon[m] \in Command
  BY DEF Types, WorkTypes

LEMMA NextSet ==
    ASSUME Types, NEW m \in Monitor, mon' = ToNext(m)
    PROVE  /\ OthersStay(m)
           /\ Knows(mon'[m], "next", mon[m].phase, mon[m].todo, NoRow, 0, "none", NoPath, FALSE)
<1> DEFINE c == [mon[m] EXCEPT !.pc = "next", !.r = NoRow, !.dl = 0, !.seen = "none",
                               !.src = NoPath, !.ok = FALSE]
<1>1. Knows(c, "next", mon[m].phase, mon[m].todo, NoRow, 0, "none", NoPath, FALSE)
  BY CmdType, Paths DEF Command, MonPC, Seen, Knows
<1>2. mon' = [mon EXCEPT ![m] = c]
  BY DEF ToNext
<1> HIDE DEF c
<1> QED BY <1>1, <1>2, MonSet DEF Knows

LEMMA BeginSet ==
    ASSUME Types, NEW m \in Monitor, MonBegin(m)
    PROVE  /\ OthersStay(m)
           /\ Knows(mon'[m], "next", "pending", PendingRows, mon[m].r, mon[m].dl, mon[m].seen,
                    mon[m].src, mon[m].ok)
<1> DEFINE c == [mon[m] EXCEPT !.pc = "next", !.phase = "pending", !.todo = PendingRows]
<1>1. PendingRows \subseteq Read
  BY DEF PendingRows, Snapshot, Read, Types, QueueRow
<1>2. Knows(c, "next", "pending", PendingRows, mon[m].r, mon[m].dl, mon[m].seen,
            mon[m].src, mon[m].ok)
  BY <1>1, CmdType DEF Command, MonPC, Knows
<1>3. mon' = [mon EXCEPT ![m] = c]
  BY DEF MonBegin
<1> HIDE DEF c
<1> QED BY <1>2, <1>3, MonSet DEF Knows

LEMMA ActiveSet ==
    ASSUME Types, NEW m \in Monitor, MonActive(m)
    PROVE  /\ OthersStay(m)
           /\ Knows(mon'[m], mon[m].pc, "active", ActiveRows, mon[m].r, mon[m].dl, mon[m].seen,
                    mon[m].src, mon[m].ok)
<1> DEFINE c == [mon[m] EXCEPT !.phase = "active", !.todo = ActiveRows]
<1>1. ActiveRows \subseteq Read
  BY DEF ActiveRows, Snapshot, Read, Types, QueueRow
<1>2. Knows(c, mon[m].pc, "active", ActiveRows, mon[m].r, mon[m].dl, mon[m].seen,
            mon[m].src, mon[m].ok)
  BY <1>1, CmdType DEF Command, Knows
<1>3. mon' = [mon EXCEPT ![m] = c]
  BY DEF MonActive
<1> HIDE DEF c
<1> QED BY <1>2, <1>3, MonSet DEF Knows

LEMMA IdleSet ==
    ASSUME Types, NEW m \in Monitor, MonEnd(m)
    PROVE  OthersStay(m) /\ mon'[m] = IdleMon
<1>1. IdleMon \in Command
  BY Paths DEF IdleMon, Command, MonPC, Seen
<1> QED BY <1>1, MonSet DEF MonEnd

\* A row leaves the list: for good, or to be worked on.
LEMMA DropSet ==
    ASSUME Types, NEW m \in Monitor, NEW r \in mon[m].todo, mon' = [mon EXCEPT ![m].todo = @ \ {r}]
    PROVE  /\ OthersStay(m)
           /\ Knows(mon'[m], mon[m].pc, mon[m].phase, mon[m].todo \ {r}, mon[m].r, mon[m].dl,
                    mon[m].seen, mon[m].src, mon[m].ok)
<1> DEFINE c == [mon[m] EXCEPT !.todo = @ \ {r}]
<1>1. Knows(c, mon[m].pc, mon[m].phase, mon[m].todo \ {r}, mon[m].r, mon[m].dl,
            mon[m].seen, mon[m].src, mon[m].ok)
  BY CmdType DEF Command, Knows
<1>2. mon' = [mon EXCEPT ![m] = c]
  OBVIOUS
<1> HIDE DEF c
<1> QED BY <1>1, <1>2, MonSet DEF Knows

LEMMA ImportSet ==
    ASSUME Types, NEW m \in Monitor, NEW r \in mon[m].todo,
           mon' = [mon EXCEPT ![m].pc = "import", ![m].r = r, ![m].src = r.path, ![m].todo = @ \ {r}]
    PROVE  /\ OthersStay(m)
           /\ Knows(mon'[m], "import", mon[m].phase, mon[m].todo \ {r}, r, mon[m].dl,
                    mon[m].seen, r.path, mon[m].ok)
<1> DEFINE c == [mon[m] EXCEPT !.pc = "import", !.r = r, !.src = r.path, !.todo = @ \ {r}]
<1>1. r \in Read /\ r.path \in Path
  BY CmdType DEF Command, Read
<1>2. Knows(c, "import", mon[m].phase, mon[m].todo \ {r}, r, mon[m].dl,
            mon[m].seen, r.path, mon[m].ok)
  BY <1>1, CmdType DEF Command, Knows, MonPC
<1>3. mon' = [mon EXCEPT ![m] = c]
  OBVIOUS
<1> HIDE DEF c
<1>4. OthersStay(m) /\ mon'[m] = c
  BY <1>2, <1>3, MonSet DEF Knows
<1> QED BY <1>2, <1>4

LEMMA WriteSet ==
    ASSUME Types, NEW m \in Monitor, NEW r \in mon[m].todo, r.ext \in InMap,
           mon' = [mon EXCEPT ![m].pc = "write", ![m].r = r, ![m].dl = r.ext,
                              ![m].seen = StatusOf(r.ext), ![m].src = SavePathOf(r.ext),
                              ![m].todo = @ \ {r}]
    PROVE  /\ OthersStay(m)
           /\ Knows(mon'[m], "write", mon[m].phase, mon[m].todo \ {r}, r, r.ext,
                    StatusOf(r.ext), SavePathOf(r.ext), mon[m].ok)
           /\ StatusOf(r.ext) \in Seen \ {"none"}
<1> DEFINE s == StatusOf(r.ext)
           p == SavePathOf(r.ext)
           c == [mon[m] EXCEPT !.pc = "write", !.r = r, !.dl = r.ext, !.seen = s, !.src = p,
                               !.todo = @ \ {r}]
<1>1. r \in Read /\ r.ext \in Download /\ dl[r.ext].state \notin {"unused", "lost"}
  BY CmdType DEF Command, InMap
<1>2. s \in Seen \ {"none"}
  BY <1>1 DEF StatusOf, Seen, Types, Entry, State
<1>3. p \in Path
  BY <1>1, SavePaths
<1>4. mon' = [mon EXCEPT ![m] = c]
  OBVIOUS
<1> HIDE DEF s, p
<1>5. Knows(c, "write", mon[m].phase, mon[m].todo \ {r}, r, r.ext, s, p, mon[m].ok)
  BY <1>1, <1>2, <1>3, CmdType DEF Command, Knows, MonPC
<1> HIDE DEF c
<1>6. OthersStay(m) /\ mon'[m] = c
  BY <1>4, <1>5, MonSet DEF Knows
<1> QED BY <1>2, <1>5, <1>6 DEF s, p

LEMMA RelinkSet ==
    ASSUME Types, NEW m \in Monitor, NEW r \in mon[m].todo, NEW d \in Download,
           mon' = [mon EXCEPT ![m].pc = "relink", ![m].r = r, ![m].dl = d, ![m].todo = @ \ {r}]
    PROVE  /\ OthersStay(m)
           /\ Knows(mon'[m], "relink", mon[m].phase, mon[m].todo \ {r}, r, d,
                    mon[m].seen, mon[m].src, mon[m].ok)
<1> DEFINE c == [mon[m] EXCEPT !.pc = "relink", !.r = r, !.dl = d, !.todo = @ \ {r}]
<1>1. r \in Read
  BY CmdType DEF Command
<1>2. Knows(c, "relink", mon[m].phase, mon[m].todo \ {r}, r, d, mon[m].seen, mon[m].src, mon[m].ok)
  BY <1>1, CmdType DEF Command, Knows, MonPC
<1>3. mon' = [mon EXCEPT ![m] = c]
  OBVIOUS
<1> HIDE DEF c
<1>4. c \in Command
  BY <1>2 DEF Knows
<1>5. OthersStay(m) /\ mon'[m] = c
  BY <1>3, <1>4, MonSet
<1> QED BY <1>2, <1>5

\* The import goes on, with the path or the answer it has.
LEMMA StepSet ==
    ASSUME Types, NEW m \in Monitor, NEW pc \in MonPC,
           mon' = [mon EXCEPT ![m].pc = pc]
    PROVE  /\ OthersStay(m)
           /\ Knows(mon'[m], pc, mon[m].phase, mon[m].todo, mon[m].r, mon[m].dl, mon[m].seen, mon[m].src, mon[m].ok)
<1> DEFINE c == [mon[m] EXCEPT !.pc = pc]
<1>1. Knows(c, pc, mon[m].phase, mon[m].todo, mon[m].r, mon[m].dl, mon[m].seen, mon[m].src, mon[m].ok)
  BY CmdType DEF Command, Knows
<1>2. mon' = [mon EXCEPT ![m] = c]
  OBVIOUS
<1> HIDE DEF c
<1>3. OthersStay(m) /\ mon'[m] = c
  BY <1>1, <1>2, MonSet DEF Knows
<1> QED BY <1>1, <1>3

LEMMA SourceSet ==
    ASSUME Types, NEW m \in Monitor, NEW pc \in MonPC, NEW p \in Path,
           mon' = [mon EXCEPT ![m].pc = pc, ![m].src = p]
    PROVE  /\ OthersStay(m)
           /\ Knows(mon'[m], pc, mon[m].phase, mon[m].todo, mon[m].r, mon[m].dl, mon[m].seen, p, mon[m].ok)
<1> DEFINE c == [mon[m] EXCEPT !.pc = pc, !.src = p]
<1>1. Knows(c, pc, mon[m].phase, mon[m].todo, mon[m].r, mon[m].dl, mon[m].seen, p, mon[m].ok)
  BY CmdType DEF Command, Knows
<1>2. mon' = [mon EXCEPT ![m] = c]
  OBVIOUS
<1> HIDE DEF c
<1>3. OthersStay(m) /\ mon'[m] = c
  BY <1>1, <1>2, MonSet DEF Knows
<1> QED BY <1>1, <1>3

LEMMA OpenSet ==
    ASSUME Types, NEW m \in Monitor, NEW pc \in MonPC, NEW ok \in BOOLEAN,
           mon' = [mon EXCEPT ![m].pc = pc, ![m].ok = ok]
    PROVE  /\ OthersStay(m)
           /\ Knows(mon'[m], pc, mon[m].phase, mon[m].todo, mon[m].r, mon[m].dl, mon[m].seen, mon[m].src, ok)
<1> DEFINE c == [mon[m] EXCEPT !.pc = pc, !.ok = ok]
<1>1. Knows(c, pc, mon[m].phase, mon[m].todo, mon[m].r, mon[m].dl, mon[m].seen, mon[m].src, ok)
  BY CmdType DEF Command, Knows
<1>2. mon' = [mon EXCEPT ![m] = c]
  OBVIOUS
<1> HIDE DEF c
<1>3. OthersStay(m) /\ mon'[m] = c
  BY <1>1, <1>2, MonSet DEF Knows
<1> QED BY <1>1, <1>3

CmdOk(m) ==
    /\ mon[m].pc \notin {"idle", "next"} => mon[m].r \in Read
    /\ mon[m].pc = "write" => mon[m].dl \in InMap /\ mon[m].seen # "none"
    /\ mon[m].pc = "relink" => mon[m].dl \in Download

LEMMA WorkStep ==
    ASSUME Types, NEW m \in Monitor, OthersStay(m), CmdOk(m)', InMap \subseteq InMap',
           page' = page, req' = req
    PROVE  WorkTypes'
<1>1. \A n \in Monitor : CmdOk(n)'
  BY DEF Types, WorkTypes, OthersStay, CmdOk
<1>2. (mon \in [Monitor -> Command])'
  BY DEF OthersStay
<1> QED BY <1>1, <1>2 DEF Types, WorkTypes, CmdOk

\* Nothing a scan or a report knows changes, and no row of book_files goes.
LEMMA SideStay ==
    ASSUME Types, UNCHANGED <<scanning, report, reports, hasty>>, filed \subseteq filed',
           had' \subseteq Book
    PROVE  SideTypes'
  BY DEF Types, SideTypes

\* A row of book_files goes, and the reports that have read it know.
LEMMA RowGoes ==
    ASSUME Types, NEW f, filed' = filed \ {f}
    PROVE  /\ RowGone(f) \subseteq ReportType /\ (RowGone(f) # {} => report # {})
           /\ \A r \in RowGone(f) : r.row => r.file \in filed'
<1> DEFINE g(r) == IF r.file = f THEN [r EXCEPT !.row = FALSE] ELSE r
<1>1. ASSUME NEW r \in report
      PROVE  g(r) \in ReportType /\ (g(r).row => g(r).file \in filed')
  <2>1. r \in ReportType /\ (r.row => r.file \in filed)
    BY DEF Types, SideTypes
  <2>2. CASE r.file = f
    <3>1. g(r) = [r EXCEPT !.row = FALSE]
      BY <2>2
    <3>2. [r EXCEPT !.row = FALSE] \in ReportType /\ ~[r EXCEPT !.row = FALSE].row
      BY <2>1 DEF ReportType
    <3> QED BY <3>1, <3>2
  <2>3. CASE r.file # f
    <3>1. g(r) = r
      BY <2>3
    <3> QED BY <2>1, <2>3, <3>1
  <2> QED BY <2>2, <2>3
<1>2. RowGone(f) = {g(r) : r \in report}
  BY DEF RowGone
<1> HIDE DEF g
<1> QED BY <1>1, <1>2

LEMMA RequestTypes ==
    ASSUME Types, NEW i \in Item,
           \/ GrabAdd(i) \/ GrabFromIndexer(i) \/ RetryAdd(i) \/ RemoveFromQueue(i)
           \/ PageRead(i)
    PROVE  Types'
<1>1. CASE GrabAdd(i) \/ RetryAdd(i)
  <2>1. PICK d \in Download, dir \in {RootDir, AuthorDir}, pc \in {"record", "relink"} :
          Add(d, i, dir) /\ req' = req \cup {[pc |-> pc, item |-> i, dl |-> d]}
    BY <1>1 DEF GrabAdd, RetryAdd
  <2>2. /\ dl' \in [Download -> Entry] /\ InMap' = InMap \cup {d}
        /\ \A x \in Download : (dl[x].state # "unused")' => (dl[x].item \in Item)'
    BY <2>1, Adding
  <2>3. UNCHANGED <<row, filed, disk, mon, page, report, scanning, had, reports>>
    BY <1>1 DEF GrabAdd, RetryAdd, counts
  <2>4. WorkTypes'
    <3>1. [pc |-> pc, item |-> i, dl |-> d] \in ReqType
      BY DEF ReqType
    <3>2. req' \subseteq ReqType /\ \A q \in req' : q.dl \in InMap'
      BY <2>1, <2>2, <3>1 DEF Types, WorkTypes
    <3> QED BY <2>2, <2>3, <3>2 DEF Types, WorkTypes
  <2>5. SideTypes'
    <3>1. hasty' \subseteq Item
      BY <1>1 DEF GrabAdd, RetryAdd, Types, SideTypes
    <3> QED BY <2>3, <3>1 DEF Types, SideTypes
  <2> QED BY <2>2, <2>3, <2>4, <2>5 DEF Types, DiskTypes, disk
<1>2. CASE GrabFromIndexer(i)
  <2>1. [status |-> "queued", ext |-> 0, path |-> NoPath] \in QueueRow
    BY Paths DEF QueueRow, Status
  <2>2. row' \in [Item -> QueueRow]
    BY <1>2, <2>1 DEF GrabFromIndexer, Types
  <2>3. InMap' = InMap
    BY <1>2 DEF GrabFromIndexer, InMap
  <2> QED BY <1>2, <2>2, <2>3 DEF GrabFromIndexer, Types, DiskTypes, WorkTypes, SideTypes,
                                  disk, requests, counts
<1>3. CASE RemoveFromQueue(i)
  <2>1. row[i] \in QueueRow
    BY DEF Types
  <2>2. [row[i] EXCEPT !.status = "gone"] \in QueueRow
    BY <2>1 DEF QueueRow, Status
  <2>3. row' = [row EXCEPT ![i] = [row[i] EXCEPT !.status = "gone"]]
    BY <1>3 DEF RemoveFromQueue
  <2>4. row' \in [Item -> QueueRow]
    BY <2>2, <2>3 DEF Types
  <2>5. InMap' = InMap
    BY <1>3 DEF RemoveFromQueue, InMap
  <2> QED BY <1>3, <2>4, <2>5 DEF RemoveFromQueue, Types, DiskTypes, WorkTypes, SideTypes,
                                  disk, requests
<1>4. CASE PageRead(i)
  <2>1. row[i].ext \in InMap /\ row[i].ext \in Download /\ page' = [item |-> i, status |-> StatusOf(row[i].ext)]
    BY <1>4 DEF PageRead, InMap
  <2>2. StatusOf(row[i].ext) \in Seen \ {"none"}
    BY <2>1 DEF StatusOf, InMap, Types, Entry, State, Seen
  <2>3. page' \in PageType /\ page'.status # "none"
    BY <2>1, <2>2 DEF PageType
  <2>4. InMap' = InMap
    BY <1>4 DEF PageRead, InMap
  <2> QED BY <1>4, <2>3, <2>4 DEF PageRead, Types, DiskTypes, WorkTypes, SideTypes, disk,
                                  requests, counts
<1> QED BY <1>1, <1>2, <1>3, <1>4

\* The steps of a scan: they write book_files only.
LEMMA ScanTypes ==
    ASSUME Types, Scan
    PROVE  Types' /\ UNCHANGED <<row, content, writer, dl, mon, page, req, hasty, reports>>
<1>1. UNCHANGED <<row, disk, dl, mon, page, req, hasty, had, counts>>
  BY DEF Scan, ScanBegin, ScanMeet, ScanMiss, addNewFile, removeFile, ScanEnd, requests
<1>2. scanning \in ScanType /\ DiskTypes
  BY DEF Types, SideTypes
<1>3. scanning' \in ScanType
  <2>1. \A f \in filed : f[2] \in File
    BY <1>2 DEF DiskTypes
  <2>2. CASE ScanBegin
    BY <1>2, <2>1, <2>2 DEF ScanBegin, ScanType
  <2>3. CASE addNewFile
    BY <1>2, <2>3 DEF addNewFile, ScanType
  <2>4. CASE ScanEnd
    BY <1>2, <2>4 DEF ScanEnd, NoScan, ScanType
  <2>5. CASE \E p \in File : ScanMeet(p) \/ ScanMiss(p)
    BY <1>2, <2>5 DEF ScanMeet, ScanMiss, ScanType
  <2>6. CASE \E f \in filed : removeFile(f)
    BY <1>2, <2>6 DEF removeFile, ScanType
  <2> QED BY <2>2, <2>3, <2>4, <2>5, <2>6 DEF Scan
<1>4. /\ filed' \subseteq (Book \cup {0}) \X File
      /\ report' \subseteq ReportType /\ (report' # {} => report # {})
      /\ \A r \in report' : r.row => r.file \in filed'
  <2>0. /\ filed \subseteq (Book \cup {0}) \X File /\ report \subseteq ReportType
        /\ \A r \in report : r.row => r.file \in filed
    BY <1>2 DEF DiskTypes, Types, SideTypes
  <2>1. CASE \E f \in filed : removeFile(f)
    <3>1. PICK f \in filed : filed' = filed \ {f} /\ report' = RowGone(f)
      BY <2>1 DEF removeFile
    <3> QED BY <2>0, <3>1, RowGoes
  <2>2. CASE addNewFile
    <3>1. scanning.met \in File
      BY <1>2, <2>2 DEF addNewFile, ScanType
    <3>2. BookAt(scanning.met) \in Book
      BY <3>1, Paths
    <3> QED BY <2>0, <2>2, <3>1, <3>2 DEF addNewFile, requests
  <2>3. CASE ScanBegin \/ ScanEnd \/ \E p \in File : ScanMeet(p) \/ ScanMiss(p)
    BY <2>0, <2>3 DEF ScanBegin, ScanEnd, ScanMeet, ScanMiss, requests
  <2> QED BY <2>1, <2>2, <2>3 DEF Scan
<1>5. DiskTypes'
  BY <1>1, <1>2, <1>4 DEF DiskTypes, disk
<1>6. SideTypes'
  BY <1>1, <1>3, <1>4 DEF Types, SideTypes, counts
<1>7. WorkTypes'
  BY <1>1 DEF Types, WorkTypes, InMap
<1> QED BY <1>1, <1>5, <1>6, <1>7 DEF Types, disk, counts

LEMMA LinkTypes ==
    ASSUME Types, NEW q \in req, GrabRecord(q) \/ RetryRelink(q)
    PROVE  Types'
<1>1. q.item \in Item /\ q.dl \in Download
  BY DEF Types, WorkTypes, ReqType
<1>2. row' \in [Item -> QueueRow]
  <2>1. CASE GrabRecord(q)
    <3>1. [status |-> "queued", ext |-> q.dl, path |-> Expected(q.item)] \in QueueRow
      BY <1>1, Paths DEF QueueRow, Status
    <3> QED BY <1>1, <2>1, <3>1 DEF GrabRecord, Types
  <2>2. CASE RetryRelink(q)
    BY <1>1, <2>2, IdSet DEF RetryRelink, RowBecomes
  <2> QED BY <2>1, <2>2
<1>3. /\ req' = req \ {q}
      /\ UNCHANGED <<filed, disk, dl, mon, page, report, hasty, scanning, had, counts>>
  BY DEF GrabRecord, RetryRelink
<1>4. WorkTypes'
  BY <1>3 DEF Types, WorkTypes, InMap
<1>5. SideTypes' /\ DiskTypes'
  BY <1>3 DEF Types, SideTypes, DiskTypes, disk, counts
<1> QED BY <1>2, <1>3, <1>4, <1>5 DEF Types

LEMMA ReportTypes ==
    ASSUME Types,
           \/ \E b \in Book : ReportRead(b)
           \/ \E r \in report : ReportUnlink(r) \/ ReportDelete(r)
    PROVE  Types'
<1>0. /\ UNCHANGED <<row, authorDir, dl, mon, page, req, hasty, scanning>>
      /\ DiskTypes /\ SideTypes
  BY DEF ReportRead, ReportUnlink, ReportDelete, Types, disk
<1>1. CASE \E b \in Book : ReportRead(b)
  <2>0. PICK b \in Book : ReportRead(b)
    BY <1>1
  <2>1. PICK f \in FilesOf(b) :
          report' = report \cup {[n |-> reports, pc |-> "unlink", file |-> f, row |-> TRUE]}
    BY <2>0 DEF ReportRead
  <2>2. UNCHANGED <<filed, disk, had>> /\ reports' = reports + 1
    BY <1>1 DEF ReportRead
  <2>3. f \in filed /\ f \in Book \X File
    BY <1>0, <2>1 DEF FilesOf, DiskTypes
  <2>4. [n |-> reports, pc |-> "unlink", file |-> f, row |-> TRUE] \in ReportType
    BY <1>0, <2>3 DEF ReportType, SideTypes
  <2>5. reports' \in Nat /\ reports' > 0
    BY <1>0, <2>2 DEF SideTypes
  <2>6. SideTypes'
    <3> DEFINE new == [n |-> reports, pc |-> "unlink", file |-> f, row |-> TRUE]
    <3>1. new \in ReportType /\ new.file \in filed
      BY <2>3, <2>4
    <3>2. report' = report \cup {new}
      BY <2>1
    <3> HIDE DEF new
    <3> QED BY <1>0, <2>2, <2>5, <3>1, <3>2 DEF SideTypes
  <2> QED BY <1>0, <2>2, <2>6 DEF Types, WorkTypes, DiskTypes, InMap, disk
<1>2. ASSUME NEW r \in report, ReportUnlink(r) PROVE Types'
  <2>1. r \in ReportType /\ (r.row => r.file \in filed)
    BY <1>0 DEF SideTypes
  <2>2. /\ [r EXCEPT !.pc = "delete"] \in ReportType
        /\ [r EXCEPT !.pc = "delete"].row = r.row /\ [r EXCEPT !.pc = "delete"].file = r.file
    BY <2>1 DEF ReportType
  <2>3. SideTypes'
    BY <1>0, <1>2, <2>1, <2>2 DEF ReportUnlink, SideTypes, counts
  <2>4. DiskTypes'
    BY <1>0, <1>2 DEF ReportUnlink, DiskTypes
  <2> QED BY <1>0, <2>3, <2>4 DEF Types, WorkTypes, InMap
<1>3. ASSUME NEW r \in report, ReportDelete(r) PROVE Types'
  <2>0. UNCHANGED <<disk, had, reports>>
    BY <1>3 DEF ReportDelete, counts
  <2>1. CASE r.row
    <3>1. filed' = filed \ {r.file} /\ report' \subseteq RowGone(r.file)
      BY <1>3, <2>1 DEF ReportDelete
    <3>2. SideTypes'
      BY <1>0, <2>0, <3>1, RowGoes DEF SideTypes
    <3> QED BY <1>0, <2>0, <3>1, <3>2 DEF Types, WorkTypes, DiskTypes, InMap, disk
  <2>2. CASE ~r.row
    <3>1. filed' = filed /\ report' \subseteq report
      BY <1>3, <2>2 DEF ReportDelete
    <3>2. SideTypes'
      BY <1>0, <2>0, <3>1 DEF SideTypes
    <3> QED BY <1>0, <2>0, <3>1, <3>2 DEF Types, WorkTypes, DiskTypes, InMap, disk
  <2> QED BY <2>1, <2>2
<1> QED BY <1>1, <1>2, <1>3

LEMMA OtherTypes ==
    ASSUME Types, \/ Request \/ PageWrite \/ Scan \/ Crash
                  \/ \E b \in Book : ReportRead(b)
    PROVE  Types'
<1>1. CASE PageWrite
  <2>1. page.item \in Item /\ page.status \in Status
    BY <1>1 DEF PageWrite, Types, WorkTypes, PageType, Seen, Status
  <2>2. row' \in [Item -> QueueRow] /\ InMap' = InMap
    BY <1>1, <2>1, StatusSet DEF PageWrite, RowBecomes, InMap
  <2>3. page' \in PageType /\ page'.item = 0
    BY <1>1 DEF PageWrite, PageType, Seen
  <2> QED BY <1>1, <2>2, <2>3 DEF PageWrite, Types, DiskTypes, WorkTypes, SideTypes, disk,
                                  requests, counts
<1>2. CASE Crash
  <2>1. IdleMon \in Command /\ IdleMon.pc = "idle"
    BY Paths DEF IdleMon, Command, MonPC, Seen
  <2>2. \A d \in Download : /\ [dl[d] EXCEPT !.state = "lost"] \in Entry
                            /\ [dl[d] EXCEPT !.state = "lost"].item = dl[d].item
    BY DEF Types, Entry, State
  <2>3. \A d \in Download : dl'[d] \in Entry /\ (dl'[d].state # "unused" => dl'[d].item \in Item)
    BY <1>2, <2>2 DEF Crash, Types
  <2>4. dl' \in [Download -> Entry]
    BY <1>2, <2>3 DEF Crash
  <2>5. WorkTypes'
    BY <1>2, <2>1 DEF Crash, WorkTypes, PageType, ReqType, Seen
  <2>6. DiskTypes'
    BY <1>2 DEF Crash, Types, DiskTypes
  <2>7. SideTypes'
    BY <1>2 DEF Crash, Types, SideTypes, NoScan, ScanType
  <2> QED BY <1>2, <2>3, <2>4, <2>5, <2>6, <2>7 DEF Crash, Types
<1> QED BY <1>1, <1>2, LinkTypes, ReportTypes, ScanTypes DEF Request

LEMMA MonitorTypes == ASSUME Types, NEW m \in Monitor, MonitorStep(m) PROVE Types'
<1>0. /\ UNCHANGED <<page, req, hasty, reports>>
      /\ scanning' = scanning \/ MonClean(m)
      /\ report' = report \/ MonImport(m)
  BY DEF MonitorStep, MonBegin, MonActive, MonEnd, MonStat, MonPoll, MonRelink, MonWrite,
         MonImport, MonOpen, MonCopy, MonRegister, MonComplete, MonClean, counts, requests
<1>00. UNCHANGED <<filed, scanning, report, had>> => SideTypes'
  BY <1>0 DEF Types, SideTypes
<1>1. CASE MonBegin(m) \/ MonActive(m) \/ MonEnd(m)
  <2>1. OthersStay(m) /\ CmdOk(m)'
    BY <1>1, BeginSet, ActiveSet, IdleSet DEF Knows, CmdOk, IdleMon, MonActive
  <2>2. UNCHANGED <<row, filed, disk, dl, scanning, report, had>> /\ InMap' = InMap
    BY <1>1 DEF MonBegin, MonActive, MonEnd, InMap, requests
  <2> QED BY <1>0, <1>00, <2>1, <2>2, WorkStep DEF Types, DiskTypes, disk
<1>2. CASE MonStat(m)
  <2>1. PICK r \in mon[m].todo :
          \/ mon' = [mon EXCEPT ![m].pc = "import", ![m].r = r, ![m].src = r.path, ![m].todo = @ \ {r}]
             /\ UNCHANGED row
          \/ UpdateQueueItemStatus(r.item, "failed") /\ mon' = [mon EXCEPT ![m].todo = @ \ {r}]
    BY <1>2 DEF MonStat
  <2>2. r \in Read /\ mon[m].pc = "next"
    BY <1>2, CmdType DEF Command, MonStat
  <2>3. OthersStay(m) /\ CmdOk(m)'
    <3>1. CASE mon' = [mon EXCEPT ![m].pc = "import", ![m].r = r, ![m].src = r.path,
                                  ![m].todo = @ \ {r}]
      <4>1. OthersStay(m) /\ mon'[m].pc = "import" /\ mon'[m].r = r
        BY <3>1, ImportSet DEF Knows
      <4> QED BY <2>2, <4>1 DEF CmdOk
    <3>2. CASE mon' = [mon EXCEPT ![m].todo = @ \ {r}]
      BY <2>2, <3>2, DropSet DEF Knows, CmdOk
    <3> QED BY <2>1, <3>1, <3>2
  <2>4. row' \in [Item -> QueueRow]
    BY <2>1, <2>2, StatusSet DEF RowBecomes, Status, Read, Types
  <2>5. UNCHANGED <<filed, disk, dl, scanning, report, had>> /\ InMap' = InMap
    BY <1>2 DEF MonStat, InMap, requests
  <2> QED BY <1>0, <1>00, <2>3, <2>4, <2>5, WorkStep DEF Types, DiskTypes, disk
<1>3. CASE MonPoll(m)
  <2>0. UNCHANGED <<row, filed, disk, scanning, report, had>> /\ mon[m].pc = "next"
    BY <1>3 DEF MonPoll, requests
  <2>1. PICK r \in mon[m].todo :
          \/ /\ r.ext \in InMap /\ UNCHANGED dl
             /\ mon' = [mon EXCEPT ![m].pc = "write", ![m].r = r, ![m].dl = r.ext,
                                   ![m].seen = StatusOf(r.ext), ![m].src = SavePathOf(r.ext),
                                   ![m].todo = @ \ {r}]
          \/ \E d \in Download : Add(d, r.item, RootDir) /\
                mon' = [mon EXCEPT ![m].pc = "relink", ![m].r = r, ![m].dl = d, ![m].todo = @ \ {r}]
          \/ mon' = [mon EXCEPT ![m].todo = @ \ {r}] /\ UNCHANGED dl
    BY <1>3 DEF MonPoll
  <2>2. r \in Read /\ r.item \in Item
    BY CmdType DEF Command, Read
  <2>3. CASE /\ r.ext \in InMap /\ UNCHANGED dl
             /\ mon' = [mon EXCEPT ![m].pc = "write", ![m].r = r, ![m].dl = r.ext,
                                   ![m].seen = StatusOf(r.ext), ![m].src = SavePathOf(r.ext),
                                   ![m].todo = @ \ {r}]
    <3>1. InMap' = InMap
      BY <2>3 DEF InMap
    <3>2. OthersStay(m) /\ CmdOk(m)'
      <4>1. /\ OthersStay(m) /\ mon'[m].pc = "write" /\ mon'[m].r = r /\ mon'[m].dl = r.ext
            /\ mon'[m].seen = StatusOf(r.ext) /\ StatusOf(r.ext) # "none"
        BY <2>3, WriteSet DEF Knows
      <4> QED BY <2>2, <2>3, <3>1, <4>1 DEF CmdOk
    <3> QED BY <1>0, <1>00, <2>0, <2>3, <3>1, <3>2, WorkStep DEF Types, DiskTypes, disk
  <2>4. ASSUME NEW d \in Download, Add(d, r.item, RootDir),
               mon' = [mon EXCEPT ![m].pc = "relink", ![m].r = r, ![m].dl = d, ![m].todo = @ \ {r}]
        PROVE  Types'
    <3>1. /\ dl' \in [Download -> Entry] /\ InMap' = InMap \cup {d}
          /\ \A x \in Download : (dl[x].state # "unused")' => (dl[x].item \in Item)'
      BY <2>2, <2>4, Adding
    <3>2. OthersStay(m) /\ CmdOk(m)'
      BY <2>2, <2>4, RelinkSet DEF Knows, CmdOk
    <3> QED BY <1>0, <1>00, <2>0, <3>1, <3>2, WorkStep DEF Types, DiskTypes, disk
  <2>5. CASE mon' = [mon EXCEPT ![m].todo = @ \ {r}] /\ UNCHANGED dl
    <3>1. InMap' = InMap
      BY <2>5 DEF InMap
    <3>2. OthersStay(m) /\ CmdOk(m)'
      BY <2>0, <2>5, DropSet DEF Knows, CmdOk
    <3> QED BY <1>0, <1>00, <2>0, <2>5, <3>1, <3>2, WorkStep DEF Types, DiskTypes, disk
  <2> QED BY <2>1, <2>3, <2>4, <2>5
<1>4. CASE MonRelink(m)
  <2>1. mon[m].r.item \in Item /\ mon[m].dl \in Download
    BY <1>4 DEF MonRelink, Types, WorkTypes, Read
  <2>2. OthersStay(m) /\ CmdOk(m)'
    BY <1>4, NextSet DEF MonRelink, Knows, CmdOk
  <2>3. row' \in [Item -> QueueRow]
    BY <1>4, <2>1, IdSet DEF MonRelink, RowBecomes
  <2>4. UNCHANGED <<filed, disk, dl, scanning, report, had>> /\ InMap' = InMap
    BY <1>4 DEF MonRelink, InMap, requests
  <2> QED BY <1>0, <1>00, <2>2, <2>3, <2>4, WorkStep DEF Types, DiskTypes, disk
<1>5. CASE MonWrite(m)
  <2>0. UNCHANGED <<filed, disk, dl, scanning, report, had>> /\ InMap' = InMap /\ mon[m].pc = "write"
    BY <1>5 DEF MonWrite, InMap, requests
  <2>1. /\ mon[m].r.item \in Item /\ mon[m].dl \in Download /\ mon[m].seen \in Seen \ {"none"}
        /\ dl[mon[m].dl].state # "unused" /\ mon[m].r \in Read /\ mon[m].src \in Path
    BY <2>0 DEF Types, WorkTypes, Read, InMap, Command
  <2>2. PICK p \in {mon[m].src, SavePathOf(mon[m].dl)} :
          /\ UpdateQueueItemStatusWithPath(mon[m].r.item, mon[m].seen, p)
          /\ mon' = IF mon[m].seen = "completed"
                    THEN [mon EXCEPT ![m].pc = "import", ![m].src = p]
                    ELSE ToNext(m)
    BY <1>5 DEF MonWrite
  <2>3. p \in Path /\ mon[m].seen \in Status /\ "import" \in MonPC
    BY <2>1, <2>2, SavePaths DEF Seen, Status, MonPC
  <2>4. row' \in [Item -> QueueRow]
    BY <2>1, <2>2, <2>3, PathSet DEF RowBecomes
  <2>5. OthersStay(m) /\ CmdOk(m)'
    <3>1. CASE mon[m].seen = "completed"
      BY <2>1, <2>2, <2>3, <3>1, SourceSet DEF Knows, CmdOk
    <3>2. CASE mon[m].seen # "completed"
      BY <2>2, <3>2, NextSet DEF Knows, CmdOk
    <3> QED BY <3>1, <3>2
  <2> QED BY <1>0, <1>00, <2>0, <2>4, <2>5, WorkStep DEF Types, DiskTypes, disk
<1> DEFINE Step == MonImport(m) \/ MonOpen(m) \/ MonCopy(m) \/ MonRegister(m)
<1>6. CASE Step
  <2>0. UNCHANGED <<row, dl, scanning>> /\ InMap' = InMap /\ mon[m].r \in Read
    BY <1>6 DEF MonImport, MonOpen, MonCopy, MonRegister, InMap, Types, WorkTypes
  <2>1. BookFor(m) \in Book /\ Target(m) \in File
    BY <2>0, Paths, ConstantsOK DEF BookFor, Target, Read
  <2>2. OthersStay(m) /\ CmdOk(m)'
    <3>1. {"register", "copy", "copying", "finish"} \subseteq MonPC \ {"idle", "next", "write", "relink"}
      BY DEF MonPC
    <3>2. CASE mon' = ToNext(m)
      BY <3>2, NextSet DEF Knows, CmdOk
    <3>3. ASSUME NEW pc \in MonPC \ {"idle", "next", "write", "relink"},
                 mon' = [mon EXCEPT ![m].pc = pc]
          PROVE  OthersStay(m) /\ CmdOk(m)'
      BY <2>0, <3>3, StepSet DEF Knows, CmdOk
    <3>4. ASSUME NEW ok \in BOOLEAN, mon' = [mon EXCEPT ![m].pc = "copying", ![m].ok = ok]
          PROVE  OthersStay(m) /\ CmdOk(m)'
      BY ZenonT(30), <2>0, <3>1, <3>4, OpenSet DEF Knows, CmdOk
    <3>5. \/ mon' = ToNext(m)
          \/ \E pc \in {"register", "copy", "finish"} : mon' = [mon EXCEPT ![m].pc = pc]
          \/ \E ok \in BOOLEAN : mon' = [mon EXCEPT ![m].pc = "copying", ![m].ok = ok]
      BY <1>6 DEF MonImport, MonOpen, MonCopy, MonRegister
    <3> QED BY <3>1, <3>2, <3>3, <3>4, <3>5
  <2>3. DiskTypes'
    <3>1. DiskTypes
      BY DEF Types
    <3>2. CASE MonImport(m)
      BY <3>1, <3>2 DEF MonImport, DiskTypes
    <3>3. CASE MonOpen(m)
      BY <2>1, <3>1, <3>3 DEF MonOpen, DiskTypes
    <3>4. CASE MonCopy(m)
      BY <2>1, <3>1, <3>4 DEF MonCopy, DiskTypes
    <3>5. CASE MonRegister(m)
      BY <2>1, <3>1, <3>5 DEF MonRegister, DiskTypes, disk
    <3> QED BY <1>6, <3>2, <3>3, <3>4, <3>5
  <2>4. SideTypes'
    <3>1. CASE MonImport(m)
      <4>1. \/ UNCHANGED <<filed, report>>
            \/ \E f \in FilesOf(BookFor(m)) : filed' = filed \ {f} /\ report' = RowGone(f)
        BY <3>1 DEF MonImport
      <4>2. UNCHANGED <<scanning, had, hasty, reports>>
        BY <1>0, <3>1 DEF MonImport
      <4> QED BY <4>1, <4>2, RowGoes DEF Types, SideTypes
    <3>2. CASE MonOpen(m) \/ MonCopy(m) \/ MonRegister(m)
      <4>1. filed \subseteq filed' /\ had' \subseteq Book /\ UNCHANGED <<scanning, report>>
        BY <2>1, <3>2 DEF MonOpen, MonCopy, MonRegister, Types, SideTypes, requests
      <4> QED BY <1>0, <4>1, SideStay
    <3> QED BY <1>6, <3>1, <3>2
  <2> QED BY <1>0, <2>0, <2>2, <2>3, <2>4, WorkStep DEF Types
<1>7. CASE MonComplete(m)
  <2>1. mon[m].r.item \in Item /\ InMap' = InMap /\ mon[m].r \in Read /\ "clean" \in MonPC
    BY <1>7 DEF MonComplete, Types, WorkTypes, Read, InMap, MonPC
  <2>2. OthersStay(m) /\ CmdOk(m)'
    BY <1>7, <2>1, StepSet DEF MonComplete, Knows, CmdOk
  <2>3. row' \in [Item -> QueueRow]
    BY <1>7, <2>1, StatusSet DEF MonComplete, RowBecomes, Status
  <2>4. UNCHANGED <<filed, disk, dl, scanning, report, had>>
    BY <1>7 DEF MonComplete, requests
  <2> QED BY <1>0, <1>00, <2>1, <2>2, <2>3, <2>4, WorkStep DEF Types, DiskTypes, disk
<1>8. CASE MonClean(m)
  <2>1. UNCHANGED <<row, filed, dl, report, had>> /\ InMap' = InMap
    BY <1>8 DEF MonClean, InMap, requests
  <2>2. OthersStay(m) /\ CmdOk(m)'
    BY <1>8, NextSet DEF MonClean, Knows, CmdOk
  <2>3. DiskTypes'
    BY <1>8 DEF MonClean, Types, DiskTypes, disk
  <2>4. scanning' \in ScanType
    BY <1>8 DEF MonClean, Types, SideTypes, ScanType
  <2>5. SideTypes'
    BY <1>0, <2>1, <2>4 DEF Types, SideTypes
  <2> QED BY <1>0, <2>1, <2>2, <2>3, <2>5, WorkStep DEF Types
<1> QED BY <1>1, <1>2, <1>3, <1>4, <1>5, <1>6, <1>7, <1>8 DEF MonitorStep

LEMMA TypesKept == Types /\ [Next]_vars => Types'
<1> SUFFICES ASSUME Types, [Next]_vars PROVE Types'
  OBVIOUS
<1>1. CASE UNCHANGED vars
  BY <1>1 DEF vars, disk, requests, counts, Types, DiskTypes, WorkTypes, SideTypes, InMap
<1>2. CASE Next
  BY <1>2, DownloadTypes, MonitorTypes, RequestTypes, OtherTypes DEF Next
<1> QED BY <1>1, <1>2

\* Whatever runs beside whatever, rows, files, downloads and the state of
\* monitors, requests and the page are of their types.
THEOREM QueueTypes == Spec => []TypeOK
<1>1. Types => TypeOK
  BY DEF Types, TypeOK, QueueRow, Status, DiskTypes, Entry, State, WorkTypes, Command, MonPC,
         PageType, ReqType, Read, SideTypes, ReportType, ScanType
<1> QED BY <1>1, FirstTypes, TypesKept, PTL DEF Spec

-----------------------------------------------------------------------------
(* The invariant of calm behaviours *)

\* One monitor at a time, nothing the page has read is still to be written, and
\* no row has been retried before it failed or twice at once.
Calm ==
    /\ \A m, n \in Monitor : mon[m].pc # "idle" /\ mon[n].pc # "idle" => m = n
    /\ page.item = 0
    /\ hasty = {}

Gone(i) == row[i].status = "gone"
Live(d) == dl[d].state \in {"queued", "downloading", "streaming"}
Quiet(i) == \A d \in Download : Live(d) => dl[d].item # i

\* A download belongs to the row that names it, or to who is about to name it there.
Fetching(i, d) == row[i].status \in Active /\ row[i].ext = d
Requested(i, d) == \E q \in req : q.item = i /\ q.dl = d
Relinking(i, d) ==
    \E m \in Monitor : mon[m].pc = "relink" /\ mon[m].r.item = i /\ mon[m].dl = d
Held(i, d) == Fetching(i, d) \/ Requested(i, d) \/ Relinking(i, d)

LinkOk ==
    /\ \A i \in Item : row[i].status = "unused" => row[i].ext = 0
    /\ \A i \in Item : row[i].ext # 0 =>
        dl[row[i].ext].state # "unused" /\ dl[row[i].ext].item = i
    /\ \A d \in Download : Live(d) => Gone(dl[d].item) \/ Held(dl[d].item, d)
    /\ \A d, e \in Download : Live(d) /\ Live(e) /\ dl[d].item = dl[e].item => d = e

ReqOk ==
    /\ \A q, r \in req : q.item = r.item => q = r
    /\ \A q \in req :
        /\ dl[q.dl].item = q.item
        /\ q.pc = "record" => row[q.item].status = "unused" /\ q.item \notin Indexer
        /\ q.pc = "relink" => row[q.item].status \in {"failed", "gone"}

\* The rows a monitor has read are in the state it read, or gone.
ListOk(m) ==
    /\ mon[m].pc = "idle" => mon[m].todo = {}
    /\ mon[m].pc \in {"write", "relink"} => mon[m].phase = "active"
    /\ \A r, s \in mon[m].todo : r.item = s.item => r = s
    /\ \A r \in mon[m].todo :
        /\ r.ext # 0 => dl[r.ext].state # "unused" /\ dl[r.ext].item = r.item
        /\ mon[m].pc \notin {"idle", "next"} => r.item # mon[m].r.item
        /\ Gone(r.item) \/ IF mon[m].phase = "active" THEN Fetching(r.item, r.ext)
                           ELSE row[r.item].status = "completed" /\ row[r.item].path = r.path

WriteOk(m) ==
    mon[m].pc = "write" =>
        /\ dl[mon[m].dl].item = mon[m].r.item
        /\ Gone(mon[m].r.item) \/ Fetching(mon[m].r.item, mon[m].dl)
        /\ mon[m].seen = "completed" => /\ dl[mon[m].dl].state = "completed"
                                        /\ mon[m].src = SavePathOf(mon[m].dl)
        /\ mon[m].seen = "failed" => dl[mon[m].dl].state = "failed"

RelinkOk(m) ==
    mon[m].pc = "relink" =>
        /\ dl[mon[m].dl].item = mon[m].r.item /\ mon[m].dl \in InMap
        /\ Gone(mon[m].r.item) \/ /\ row[mon[m].r.item].status \in Active
                                  /\ row[mon[m].r.item].ext \notin InMap

\* Whole, or taken away by a report.
Whole(p) == content[p] = "complete" \/ (content[p] = "none" /\ reports > 0)

\* What is imported is whole until it is removed; what is copied is the
\* monitor's own until it is registered.
Importing(m) == mon[m].pc \in {"copy", "copying", "register",
          "finish", "clean"}
ImportOk(m) ==
    /\ mon[m].pc = "import" \/ Importing(m) =>
        Gone(mon[m].r.item) \/ /\ row[mon[m].r.item].status = "completed"
                               /\ row[mon[m].r.item].path = mon[m].src
                               /\ Whole(mon[m].src)
    /\ Importing(m) => /\ mon[m].src \in FilesFor(mon[m].r.item) /\ Whole(mon[m].src)
                       /\ Quiet(mon[m].r.item)
    /\ mon[m].pc \in {"copy", "copying"} => mon[m].src # Target(m)
    /\ mon[m].pc = "copying" =>
        mon[m].ok /\ (writer[Target(m)] = m \/ content[Target(m)] = "none")
    /\ mon[m].pc = "register" => content[Target(m)] # "partial"
    /\ mon[m].pc \in {"finish", "clean"} => Whole(Target(m))

MonOk == \A m \in Monitor : ListOk(m) /\ WriteOk(m) /\ RelinkOk(m) /\ ImportOk(m)

\* A download under way is the one writer of its file; the file of one that is
\* complete and still to be imported is whole; and so is that of a completed
\* row, until it is imported.
FileOk ==
    /\ \A d \in Download : dl[d].state \in {"streaming", "completed"} => dl[d].made
    /\ \A d \in Download : dl[d].state = "streaming" =>
        writer[SavePathOf(d)] = d \/ (content[SavePathOf(d)] = "none" /\ reports > 0)
    /\ \A d \in Download :
        dl[d].state = "completed" /\ Held(dl[d].item, d) /\ ~Gone(dl[d].item) =>
            Whole(SavePathOf(d))
    /\ \A i \in Item : row[i].status = "completed" =>
        row[i].path \in FilesFor(i) /\ content[row[i].path] # "partial"

\* A file that no download, copy or removal to come will touch.
Settled(i) ==
    \E p \in FilesFor(i) : /\ content[p] = "complete"
                           /\ \/ row[i].status = "completed" /\ row[i].path = p
                              \/ Gone(i) /\ Quiet(i)
Covered(b) == content[Dest(b)] = "complete" \/ \E i \in Item : BookOf[i] = b /\ Settled(i)
CoverOk == reports = 0 => \A i \in Item : row[i].status = "completed" => Covered(BookOf[i])

Links == LinkOk /\ ReqOk /\ MonOk
Files == FileOk /\ CoverOk
IInv == Types /\ Links /\ Files

-----------------------------------------------------------------------------
LEMMA NoZero == 0 \notin Download /\ 0 \notin Item /\ (\A i \in Item : BookOf[i] \in Book)
  BY ConstantsOK

\* Who holds a download that is under way.
LEMMA Holder ==
    ASSUME IInv, NEW d \in Download, Live(d), ~Gone(dl[d].item)
    PROVE  /\ dl[d].item \in Item /\ d \in InMap
           /\ row[dl[d].item].status # "completed"
           /\ row[dl[d].item].status \in {"unused", "failed"} => Requested(dl[d].item, d)
           /\ row[dl[d].item].status \in Active =>
                Fetching(dl[d].item, d) \/ Relinking(dl[d].item, d)
<1>1. dl[d].item \in Item /\ d \in InMap
  BY DEF IInv, Types, Live, InMap
<1>2. Held(dl[d].item, d)
  BY DEF IInv, Links, LinkOk
<1>3. Fetching(dl[d].item, d) => row[dl[d].item].status \in {"queued", "downloading"}
  BY DEF Fetching, Active
<1>4. Relinking(dl[d].item, d) => row[dl[d].item].status \in {"queued", "downloading"}
  BY DEF Relinking, IInv, Links, MonOk, RelinkOk, Gone, Active
<1>5. Requested(dl[d].item, d) => row[dl[d].item].status \in {"unused", "failed"}
  BY DEF Requested, IInv, Links, ReqOk, Gone, Types, WorkTypes, ReqType
<1> QED BY <1>1, <1>2, <1>3, <1>4, <1>5 DEF Held, Active

LEMMA CompletedQuiet ==
    ASSUME IInv, NEW i \in Item, row[i].status = "completed"
    PROVE  Quiet(i)
  BY Holder DEF Quiet, Gone

\* Nobody else can be at work on a row that one download is held for.
LEMMA HeldOnce ==
    ASSUME IInv, Calm, NEW i \in Item, ~Gone(i), NEW d \in InMap, NEW e \in InMap,
           Held(i, d), Held(i, e)
    PROVE  d = e
<1>1. \A x \in InMap : Fetching(i, x) =>
        row[i].status \in {"queued", "downloading"} /\ row[i].ext \in InMap /\ x = row[i].ext
  BY DEF Fetching, Active
<1>2. \A x \in InMap : Relinking(i, x) =>
        row[i].status \in {"queued", "downloading"} /\ row[i].ext \notin InMap
  BY DEF Relinking, IInv, Links, MonOk, RelinkOk, Active
<1>3. \A x \in InMap : Requested(i, x) => row[i].status \in {"unused", "failed"}
  BY DEF Requested, IInv, Links, ReqOk, Gone, Types, WorkTypes, ReqType
<1>5. Requested(i, d) /\ Requested(i, e) => d = e
  BY DEF Requested, IInv, Links, ReqOk
<1>4. Relinking(i, d) /\ Relinking(i, e) => d = e
  BY DEF Relinking, Calm
<1> QED BY <1>1, <1>2, <1>3, <1>4, <1>5 DEF Held

-----------------------------------------------------------------------------
(* The direct client *)

\* What a step of download d changes: its entry, and its file.
Moves(d) ==
    LET p == FileIn(dl[d].dir, dl[d].item) IN
    /\ Live(d)
    /\ dl'[d].item = dl[d].item /\ dl'[d].dir = dl[d].dir
    /\ dl'[d].state \in {"downloading", "streaming", "completed", "failed"}
    /\ \A e \in Download \ {d} : dl'[e] = dl[e]
    /\ \A q \in File \ {p} : content'[q] = content[q] /\ writer'[q] = writer[q]
    /\ dl'[d].state \in {"streaming", "completed"} => dl'[d].made
    /\ dl'[d].state = "streaming" => writer'[p] = d
    /\ dl'[d].state = "completed" =>
        content'[p] = "complete" \/ (content'[p] = "none" /\ reports > 0)
    /\ UNCHANGED <<row, mon, page, req, reports>>

LEMMA DownloadMoves ==
    ASSUME IInv, Types', NEW d \in Download, DownloadStep(d)
    PROVE  Moves(d)
<1> DEFINE p == FileIn(dl[d].dir, dl[d].item)
<1>1. /\ UNCHANGED <<row, mon, page, req, reports>>
      /\ Live(d) /\ dl[d] \in Entry /\ dl[d].state # "unused"
  BY DEF DownloadStep, Begin, Fail, CreateFile, Complete, requests, counts, Live, IInv, Types
<1>2. p \in File /\ (dl[d].made => SavePathOf(d) = p)
  BY <1>1, SavePaths DEF IInv
<1> HIDE DEF p
<1>3. CASE Begin(d)
  <2>1. dl' = [dl EXCEPT ![d] = [dl[d] EXCEPT !.state = "downloading"]] /\ UNCHANGED disk
    BY <1>3 DEF Begin
  <2> QED BY <1>1, <2>1 DEF Moves, disk, IInv, Types, Entry
<1>4. CASE Fail(d)
  <2>1. dl' = [dl EXCEPT ![d] = [dl[d] EXCEPT !.state = "failed"]] /\ UNCHANGED disk
    BY <1>4 DEF Fail
  <2> QED BY <1>1, <2>1 DEF Moves, disk, IInv, Types, Entry
<1>5. CASE CreateFile(d)
  <2>1. dl' = [dl EXCEPT ![d] = [dl[d] EXCEPT !.state = "streaming", !.made = TRUE]]
    BY <1>5 DEF CreateFile
  <2>2. /\ dl'[d].item = dl[d].item /\ dl'[d].dir = dl[d].dir
        /\ dl'[d].state = "streaming" /\ dl'[d].made
        /\ \A e \in Download \ {d} : dl'[e] = dl[e]
    BY <1>1, <2>1 DEF IInv, Types, Entry
  <2>3. content' = [content EXCEPT ![p] = "partial"] /\ writer' = [writer EXCEPT ![p] = d]
    BY <1>5 DEF CreateFile, p
  <2>4. /\ \A q \in File \ {p} : content'[q] = content[q] /\ writer'[q] = writer[q]
        /\ writer'[p] = d
    BY <1>2, <2>3 DEF IInv, Types, DiskTypes
  <2> QED BY <1>1, <2>2, <2>4 DEF Moves, p
<1>6. CASE Complete(d)
  <2>1. dl' = [dl EXCEPT ![d] = [dl[d] EXCEPT !.state = "completed"]]
    BY <1>6 DEF Complete
  <2>2. /\ dl'[d].item = dl[d].item /\ dl'[d].dir = dl[d].dir
        /\ dl'[d].state = "completed" /\ dl'[d].made = dl[d].made
        /\ \A e \in Download \ {d} : dl'[e] = dl[e]
    BY <1>1, <2>1 DEF IInv, Types, Entry
  <2>3. dl[d].made /\ (writer[p] = d \/ (content[p] = "none" /\ reports > 0))
    BY <1>2, <1>6 DEF Complete, IInv, Files, FileOk
  <2>4. content' = [content EXCEPT ![p] = IF writer[p] = d THEN "complete" ELSE @] /\ writer' = writer
    BY <1>2, <1>6, <2>3 DEF Complete
  <2>5. /\ \A q \in File \ {p} : content'[q] = content[q] /\ writer'[q] = writer[q]
        /\ content'[p] = "complete" \/ (content'[p] = "none" /\ reports > 0)
    BY <1>2, <2>3, <2>4 DEF IInv, Types, DiskTypes
  <2> QED BY <1>1, <2>2, <2>3, <2>5 DEF Moves, p
<1> QED BY <1>3, <1>4, <1>5, <1>6 DEF DownloadStep

\* Its file is nobody else's.
LEMMA FileOfOne ==
    ASSUME IInv, OwnFile, NEW d \in Download, Live(d)
    PROVE  /\ \A e \in Download \ {d} : Live(e) => dl[e].item # dl[d].item
           /\ \A j \in Item \ {dl[d].item} :
                /\ FileIn(dl[d].dir, dl[d].item) \notin FilesFor(j)
                /\ FileIn(dl[d].dir, dl[d].item) # Dest(BookOf[j])
           /\ \A e \in Download : dl[e].state # "unused" /\ dl[e].item # dl[d].item =>
                FileIn(dl[d].dir, dl[d].item) # FileIn(dl[e].dir, dl[e].item)
<1>1. dl[d].state # "unused" /\ dl[d].item \in Item
  BY DEF Live, IInv, Types
<1>2. FileIn(dl[d].dir, dl[d].item) \in FilesFor(dl[d].item)
  BY <1>1, SavePaths DEF IInv
<1>3. \A j \in Item \ {dl[d].item} : /\ FileIn(dl[d].dir, dl[d].item) \notin FilesFor(j)
                                     /\ FileIn(dl[d].dir, dl[d].item) # Dest(BookOf[j])
  BY <1>1, <1>2, Apart
<1>4. ASSUME NEW e \in Download, dl[e].state # "unused", dl[e].item # dl[d].item
      PROVE  FileIn(dl[d].dir, dl[d].item) # FileIn(dl[e].dir, dl[e].item)
  <2>1. FileIn(dl[e].dir, dl[e].item) \in FilesFor(dl[e].item) /\ dl[e].item \in Item
    BY <1>4, SavePaths DEF IInv, Types
  <2> QED BY <1>1, <1>3, <1>4, <2>1
<1>5. \A e \in Download \ {d} : Live(e) => dl[e].item # dl[d].item
  BY DEF IInv, Links, LinkOk
<1> QED BY <1>3, <1>4, <1>5

LEMMA DownloadKeeps ==
    ASSUME IInv, Calm, OwnFile, Types', NEW d \in Download, DownloadStep(d)
    PROVE  IInv'
<1> DEFINE i == dl[d].item
           p == FileIn(dl[d].dir, dl[d].item)
<1>1. Moves(d)
  BY DownloadMoves
<1>2. i \in Item /\ p \in File /\ dl[d].state # "unused" /\ dl[d].state # "lost"
      /\ dl[d].state \notin {"completed", "failed"}
  BY <1>1, SavePaths DEF Moves, Live, IInv, Types
<1>3. /\ InMap' = InMap /\ \A e \in Download : dl'[e].item = dl[e].item /\ dl'[e].dir = dl[e].dir
      /\ \A e \in Download : Live(e)' => Live(e)
      /\ \A j \in Item : (Quiet(j) => Quiet(j)') /\ (Gone(j)' <=> Gone(j))
      /\ \A j, e : Held(j, e)' <=> Held(j, e)
      /\ \A j, e : Fetching(j, e)' <=> Fetching(j, e)
  <2>1. InMap' = InMap
    BY <1>1, <1>2 DEF Moves, InMap
  <2>2. \A e \in Download : dl'[e].item = dl[e].item /\ dl'[e].dir = dl[e].dir /\ (Live(e)' => Live(e))
    BY <1>1 DEF Moves, Live
  <2>3. \A j, e : (Held(j, e)' <=> Held(j, e)) /\ (Fetching(j, e)' <=> Fetching(j, e))
    BY <1>1 DEF Moves, Held, Fetching, Requested, Relinking
  <2> QED BY <1>1, <2>1, <2>2, <2>3 DEF Quiet, Gone, Moves
<1>4. \A q \in File : q # p => content'[q] = content[q] /\ writer'[q] = writer[q]
  BY <1>1 DEF Moves
<1>5. ASSUME NEW j \in Item, Quiet(j) \/ j # i
      PROVE  /\ \A q \in FilesFor(j) : q \in File /\ q # p
             /\ Dest(BookOf[j]) \in File /\ Dest(BookOf[j]) # p /\ j # i
  <2>1. j # i
    BY <1>1, <1>5 DEF Quiet, Moves
  <2> QED BY <1>1, <2>1, FileOfOne, Paths, NoZero DEF Moves
<1>6. LinkOk'
  <2>1. \A j \in Item : row[j].ext # 0 => dl'[row[j].ext].state # "unused" /\ dl'[row[j].ext].item = j
    <3>1. \A j \in Item : row[j].ext # 0 => row[j].ext \in Download
      BY DEF IInv, Types, QueueRow
    <3> QED BY <1>1, <1>3, <3>1 DEF IInv, Links, LinkOk, Moves
  <2>2. \A e, f \in Download : Live(e)' /\ Live(f)' /\ dl'[e].item = dl'[f].item => e = f
    BY <1>3 DEF IInv, Links, LinkOk
  <2>3. ASSUME NEW e \in Download, Live(e)'
        PROVE  (Gone(dl[e].item) \/ Held(dl[e].item, e))'
    <3>1. Gone(dl[e].item) \/ Held(dl[e].item, e)
      BY <1>3, <2>3 DEF IInv, Links, LinkOk
    <3>2. dl'[e].item = dl[e].item /\ UNCHANGED <<row, mon, req>>
      BY <1>1, <1>3 DEF Moves
    <3> QED BY <3>1, <3>2 DEF Gone, Held, Fetching, Requested, Relinking
  <2> QED BY <1>1, <2>1, <2>2, <2>3 DEF LinkOk, Moves, IInv, Links
<1>7. ReqOk'
  BY <1>1, <1>3 DEF IInv, Links, ReqOk, Moves, Types, WorkTypes, InMap
<1>8. ASSUME NEW m \in Monitor
      PROVE  ListOk(m)' /\ WriteOk(m)' /\ RelinkOk(m)' /\ ImportOk(m)'
  <2>0. mon' = mon /\ row' = row /\ reports' = reports /\ mon[m] \in Command
        /\ ListOk(m) /\ WriteOk(m) /\ RelinkOk(m) /\ ImportOk(m)
    BY <1>1, CmdType DEF Moves, IInv, Links, MonOk
  <2>1. ListOk(m)'
    <3>1. \A e \in Download : dl[e].state # "unused" => dl'[e].state # "unused"
      BY <1>1 DEF Moves
    <3> QED BY <1>3, <2>0, <3>1 DEF ListOk, Command, Read, Fetching, Gone
  <2>2. WriteOk(m)'
    <3>1. CASE mon[m].pc # "write"
      BY <2>0, <3>1 DEF WriteOk
    <3>2. CASE mon[m].pc = "write"
      <4>1. mon[m].dl \in Download
        BY <3>2 DEF IInv, Types, WorkTypes, InMap
      <4>2. dl[mon[m].dl].state \in {"completed", "failed"} => dl'[mon[m].dl] = dl[mon[m].dl]
        BY <1>1, <1>2, <4>1 DEF Moves
      <4>3. dl'[mon[m].dl] = dl[mon[m].dl] => SavePathOf(mon[m].dl)' = SavePathOf(mon[m].dl)
        BY <2>0 DEF SavePathOf
      <4> QED BY <1>3, <2>0, <3>2, <4>1, <4>2, <4>3 DEF WriteOk, Gone, Fetching
    <3> QED BY <3>1, <3>2
  <2>3. RelinkOk(m)'
    BY <1>3, <2>0 DEF RelinkOk, Gone, InMap
  <2>4. ImportOk(m)'
    <3>1. CASE mon[m].pc # "import" /\ ~Importing(m)
      BY <2>0, <3>1 DEF ImportOk, Importing
    <3>2. CASE mon[m].pc = "import" \/ Importing(m)
      <4>1. mon[m].r.item \in Item
        BY <3>2 DEF IInv, Types, WorkTypes, Read, Importing
      <4>2. ~Gone(mon[m].r.item) => Quiet(mon[m].r.item) /\ mon[m].src \in FilesFor(mon[m].r.item)
        BY <2>0, <3>2, <4>1, CompletedQuiet DEF ImportOk, IInv, Files, FileOk
      <4>3. Importing(m) => Quiet(mon[m].r.item) /\ mon[m].src \in FilesFor(mon[m].r.item)
        BY <2>0 DEF ImportOk
      <4>4. ~Gone(mon[m].r.item) \/ Importing(m) =>
              /\ content'[mon[m].src] = content[mon[m].src]
              /\ content'[Target(m)] = content[Target(m)] /\ writer'[Target(m)] = writer[Target(m)]
        BY <1>4, <1>5, <4>1, <4>2, <4>3 DEF Target, BookFor
      <4>5. Target(m)' = Target(m)
        BY <2>0 DEF Target, BookFor
      <4>6. (Gone(mon[m].r.item))' <=> Gone(mon[m].r.item)
        BY <2>0 DEF Gone
      <4>7. Importing(m) => Quiet(mon[m].r.item)'
        <5>1. \A j \in Item : Quiet(j) => Quiet(j)'
          BY <1>3
        <5> QED BY <2>0, <4>1, <4>3, <5>1 DEF Quiet, Live
      <4> QED BY <2>0, <3>2, <4>1, <4>4, <4>5, <4>6, <4>7 DEF ImportOk, Importing, Whole, Gone
    <3> QED BY <3>1, <3>2
  <2> QED BY <2>1, <2>2, <2>3, <2>4
<1>9. FileOk'
  <2>0. row' = row /\ reports' = reports
    BY <1>1 DEF Moves
  <2>1. \A e \in Download : dl'[e].state \in {"streaming", "completed"} => dl'[e].made
    BY <1>1 DEF Moves, IInv, Files, FileOk
  <2>2. ASSUME NEW e \in Download, dl'[e].state \in {"streaming", "completed"}
        PROVE  SavePathOf(e)' = FileIn(dl[e].dir, dl[e].item) /\ SavePathOf(e)' \in File
    <3>1. SavePathOf(e)' = FileIn(dl[e].dir, dl[e].item)
      BY <1>3, <2>1, <2>2 DEF SavePathOf
    <3>2. dl[e].state # "unused"
      BY <1>1, <1>2, <2>2 DEF Moves
    <3> QED BY <3>1, <3>2, SavePaths DEF IInv
  <2>3. ASSUME NEW e \in Download, e # d, dl'[e].state \in {"streaming", "completed"},
               dl[e].item # i
        PROVE  /\ SavePathOf(e)' = SavePathOf(e) /\ dl'[e] = dl[e]
               /\ content'[SavePathOf(e)] = content[SavePathOf(e)]
               /\ writer'[SavePathOf(e)] = writer[SavePathOf(e)]
    <3>1. dl'[e] = dl[e] /\ SavePathOf(e)' = SavePathOf(e)
      BY <1>1, <2>3 DEF Moves, SavePathOf
    <3>2. SavePathOf(e) # p
      BY <1>1, <2>2, <2>3, <3>1, FileOfOne DEF Moves
    <3> QED BY <1>4, <2>2, <2>3, <3>1, <3>2
  <2>4. ASSUME NEW e \in Download, dl'[e].state = "streaming"
        PROVE  writer'[SavePathOf(e)'] = e \/ (content'[SavePathOf(e)'] = "none" /\ reports > 0)
    <3>1. CASE e = d
      BY <1>1, <2>2, <2>4, <3>1 DEF Moves
    <3>2. CASE e # d
      <4>1. dl[e].state = "streaming" /\ Live(e) /\ dl[e].item # i
        BY <1>1, <2>4, <3>2, FileOfOne DEF Moves, Live
      <4> QED BY <2>3, <2>4, <3>2, <4>1 DEF IInv, Files, FileOk
    <3> QED BY <3>1, <3>2
  <2>5. ASSUME NEW e \in Download, dl'[e].state = "completed", Held(dl[e].item, e), ~Gone(dl[e].item)
        PROVE  content'[SavePathOf(e)'] = "complete" \/ (content'[SavePathOf(e)'] = "none" /\ reports > 0)
    <3>1. CASE e = d
      BY <1>1, <2>2, <2>5, <3>1 DEF Moves
    <3>2. CASE e # d
      <4>1. dl[e].state = "completed"
        BY <1>1, <2>5, <3>2 DEF Moves
      <4>2. e \in InMap /\ d \in InMap
        BY <1>2, <4>1 DEF InMap
      <4>3. dl[e].item # i
        <5> SUFFICES ASSUME dl[e].item = i PROVE FALSE
          OBVIOUS
        <5>1. Live(d) /\ Held(i, d)
          BY <1>1, <2>5 DEF Moves, IInv, Links, LinkOk
        <5> QED BY <1>2, <2>5, <3>2, <4>2, <5>1, HeldOnce
      <4> QED BY <2>3, <2>5, <3>2, <4>1, <4>3 DEF IInv, Files, FileOk, Whole
    <3> QED BY <3>1, <3>2
  <2>6. ASSUME NEW j \in Item, row[j].status = "completed"
        PROVE  row[j].path \in FilesFor(j) /\ content'[row[j].path] # "partial"
    BY <1>4, <1>5, <2>6, CompletedQuiet DEF IInv, Files, FileOk
  <2>7. \A e \in Download : /\ (dl[e].state = "completed" /\ Held(dl[e].item, e) /\ ~Gone(dl[e].item))' =>
                                 dl'[e].state = "completed" /\ Held(dl[e].item, e) /\ ~Gone(dl[e].item)
    BY <1>3, <2>0 DEF Gone
  <2> QED BY <2>0, <2>1, <2>4, <2>5, <2>6, <2>7 DEF FileOk, Whole
<1>10. CoverOk'
  <2> SUFFICES ASSUME reports = 0, NEW j \in Item, row[j].status = "completed"
               PROVE  Covered(BookOf[j])'
    BY <1>1 DEF CoverOk, Moves
  <2>1. Covered(BookOf[j])
    BY DEF IInv, Files, CoverOk
  <2>2. CASE content[Dest(BookOf[j])] = "complete"
    BY <1>4, <1>5, <2>2, CompletedQuiet DEF Covered
  <2>3. CASE \E k \in Item : BookOf[k] = BookOf[j] /\ Settled(k)
    <3>1. PICK k \in Item : BookOf[k] = BookOf[j] /\ Settled(k)
      BY <2>3
    <3>2. Quiet(k) /\ Quiet(k)'
      BY <1>3, <3>1, CompletedQuiet DEF Settled
    <3>3. Settled(k)'
      BY <1>1, <1>4, <1>5, <3>1, <3>2 DEF Settled, Moves, Gone
    <3> QED BY <3>1, <3>3 DEF Covered
  <2> QED BY <2>1, <2>2, <2>3 DEF Covered
<1> QED BY <1>6, <1>7, <1>8, <1>9, <1>10 DEF IInv, Links, MonOk, Files

-----------------------------------------------------------------------------
(* What the other steps leave as it is *)

LEMMA LinksStay ==
    ASSUME IInv, dl' = dl,
           \A k \in Item : row'[k].status = "unused" => row'[k].ext = 0,
           \A k \in Item : \/ row'[k].ext \in {0, row[k].ext}
                           \/ dl[row'[k].ext].state # "unused" /\ dl[row'[k].ext].item = k,
           \A k \in Item, d \in Download : Live(d) /\ Held(k, d) => Held(k, d)' \/ Gone(k)',
           \A k \in Item : Gone(k) => Gone(k)'
    PROVE  LinkOk'
<1>1. \A k \in Item : row'[k].ext # 0 =>
        dl'[row'[k].ext].state # "unused" /\ dl'[row'[k].ext].item = k
  BY DEF IInv, Links, LinkOk
<1>2. \A d, e \in Download : Live(d)' /\ Live(e)' /\ dl'[d].item = dl'[e].item => d = e
  BY DEF IInv, Links, LinkOk, Live
<1>3. ASSUME NEW d \in Download, Live(d)'
      PROVE  (Gone(dl[d].item) \/ Held(dl[d].item, d))'
  <2>1. Live(d) /\ dl[d].item \in Item /\ (Gone(dl[d].item) \/ Held(dl[d].item, d))
    BY <1>3 DEF Live, IInv, Types, Links, LinkOk
  <2>2. PICK k \in Item : dl[d].item = k
    BY <2>1
  <2>3. Gone(k)' \/ Held(k, d)'
    BY <2>1, <2>2
  <2>4. dl'[d].item = k
    BY <2>2
  <2> QED BY <2>3, <2>4 DEF Gone, Held, Fetching, Requested, Relinking
<1> QED BY <1>1, <1>2, <1>3 DEF LinkOk

\* No file changes; a row that becomes completed names a whole file, and one
\* that no longer is has no file or is gone for good.
LEMMA FilesStay ==
    ASSUME IInv, UNCHANGED <<content, writer, reports>>,
           \A e \in Download : dl'[e] = dl[e] \/ dl'[e].state = "queued",
           \A k \in Item, e \in Download :
                dl[e].item = k /\ dl[e].state = "completed" /\ dl'[e] = dl[e]
                    /\ Held(k, e)' /\ ~Gone(k)' => Held(k, e) /\ ~Gone(k),
           \A k \in Item : row'[k].status = "completed" =>
                /\ row'[k].path \in FilesFor(k)
                /\ \/ row[k].status = "completed" /\ row'[k].path = row[k].path
                   \/ Whole(row'[k].path),
           \A k \in Item : row[k].status = "completed" =>
                \/ row'[k].status = "completed" /\ row'[k].path = row[k].path
                \/ Gone(k)' /\ Quiet(k)'
                \/ content[row[k].path] # "complete",
           \A k \in Item : Gone(k) /\ Quiet(k) => Gone(k)' /\ Quiet(k)'
    PROVE  Files'
<1>1. \A e \in Download : dl'[e].state \in {"streaming", "completed"} => dl'[e] = dl[e]
  OBVIOUS
<1>2. \A e \in Download : dl'[e] = dl[e] => SavePathOf(e)' = SavePathOf(e)
  BY DEF SavePathOf
<1>3. FileOk'
  <2>1. \A e \in Download : dl'[e].state \in {"streaming", "completed"} => dl'[e].made
    BY <1>1 DEF IInv, Files, FileOk
  <2>2. \A e \in Download : dl'[e].state = "streaming" =>
          \/ writer'[SavePathOf(e)'] = e
          \/ (content'[SavePathOf(e)'] = "none" /\ reports' > 0)
    BY <1>1, <1>2 DEF IInv, Files, FileOk
  <2>3. ASSUME NEW e \in Download, (dl[e].state = "completed" /\ Held(dl[e].item, e) /\ ~Gone(dl[e].item))'
        PROVE  Whole(SavePathOf(e))'
    <3>1. dl'[e] = dl[e] /\ dl[e].state = "completed" /\ dl[e].item \in Item
      BY <1>1, <2>3 DEF IInv, Types
    <3>2. PICK k \in Item : dl[e].item = k
      BY <3>1
    <3>3. Held(k, e)' /\ ~Gone(k)'
      BY <2>3, <3>1, <3>2 DEF Gone, Held, Fetching, Requested, Relinking
    <3>4. Held(k, e) /\ ~Gone(k)
      BY <3>1, <3>2, <3>3
    <3>5. Whole(SavePathOf(e))
      BY <3>1, <3>2, <3>4 DEF IInv, Files, FileOk
    <3> QED BY <1>2, <3>1, <3>5 DEF Whole
  <2>4. \A k \in Item : row'[k].status = "completed" =>
          row'[k].path \in FilesFor(k) /\ content'[row'[k].path] # "partial"
    BY DEF IInv, Files, FileOk, Whole
  <2> QED BY <2>1, <2>2, <2>3, <2>4 DEF FileOk
<1>4. ASSUME NEW k \in Item, Settled(k) PROVE Settled(k)'
  <2>1. PICK p \in FilesFor(k) : /\ content[p] = "complete"
                                 /\ \/ row[k].status = "completed" /\ row[k].path = p
                                    \/ Gone(k) /\ Quiet(k)
    BY <1>4 DEF Settled
  <2>2. \/ row'[k].status = "completed" /\ row'[k].path = p
        \/ Gone(k)' /\ Quiet(k)'
    BY <2>1
  <2>3. content'[p] = "complete"
    BY <2>1
  <2> QED BY <2>2, <2>3 DEF Settled
<1>5. \A b : Covered(b) => Covered(b)'
  BY <1>4 DEF Covered
<1>6. CoverOk'
  <2> SUFFICES ASSUME reports = 0, NEW k \in Item, row'[k].status = "completed"
               PROVE  Covered(BookOf[k])'
    BY DEF CoverOk
  <2>1. CASE row[k].status = "completed"
    BY <1>5, <2>1 DEF IInv, Files, CoverOk
  <2>2. CASE row[k].status # "completed"
    <3>1. row'[k].path \in FilesFor(k) /\ content'[row'[k].path] = "complete"
      BY <2>2 DEF Whole, IInv, Types
    <3> QED BY <3>1 DEF Covered, Settled
  <2> QED BY <2>1, <2>2
<1> QED BY <1>3, <1>6 DEF Files

LEMMA Idle ==
    ASSUME NEW m \in Monitor, mon[m].pc = "idle", mon[m].todo = {}
    PROVE  ListOk(m) /\ WriteOk(m) /\ RelinkOk(m) /\ ImportOk(m)
  BY DEF ListOk, WriteOk, RelinkOk, ImportOk, Importing

\* Monitors look at rows that are active, completed or gone: a row that is
\* neither may change under them, and every row may go.
LEMMA RowUnseen ==
    ASSUME IInv, UNCHANGED <<dl, content, writer, mon, reports>>,
           \A k \in Item : \/ row'[k] = row[k] \/ Gone(k)'
                           \/ row[k].status \in {"unused", "failed"}
    PROVE  MonOk'
<1>0. InMap' = InMap /\ \A k \in Item : (Gone(k) => Gone(k)') /\ (Quiet(k)' <=> Quiet(k))
  BY DEF InMap, Gone, Quiet, Live
<1> SUFFICES ASSUME NEW m \in Monitor
             PROVE  ListOk(m)' /\ WriteOk(m)' /\ RelinkOk(m)' /\ ImportOk(m)'
  BY DEF MonOk
<1>1. mon[m] \in Command /\ ListOk(m) /\ WriteOk(m) /\ RelinkOk(m) /\ ImportOk(m)
  BY CmdType DEF IInv, Links, MonOk
<1>2. ListOk(m)'
  BY <1>0, <1>1 DEF ListOk, Command, Read, Fetching, Gone, Active
<1>3. mon[m].pc \notin {"idle", "next"} => mon[m].r.item \in Item
  BY DEF IInv, Types, WorkTypes, Read
<1>4. WriteOk(m)'
  BY <1>0, <1>1, <1>3 DEF WriteOk, Fetching, Gone, Active, SavePathOf
<1>5. RelinkOk(m)'
  BY <1>0, <1>1, <1>3 DEF RelinkOk, Gone, Active
<1>6. ImportOk(m)'
  <2>1. Target(m)' = Target(m)
    BY DEF Target, BookFor
  <2>2. mon[m].pc \notin {"idle", "next"} => (Quiet(mon[m].r.item)' <=> Quiet(mon[m].r.item))
    BY DEF Quiet, Live
  <2> QED BY <1>1, <1>3, <2>1, <2>2 DEF ImportOk, Importing, Whole, Gone
<1> QED BY <1>2, <1>4, <1>5, <1>6

LEMMA FirstOk == Init => IInv
<1> SUFFICES ASSUME Init PROVE IInv
  OBVIOUS
<1>1. LinkOk /\ ReqOk
  BY DEF Init, LinkOk, ReqOk, Live
<1>2. MonOk
  BY Idle DEF Init, MonOk, IdleMon
<1>3. Files
  BY DEF Init, Files, FileOk, CoverOk
<1> QED BY <1>1, <1>2, <1>3, FirstTypes DEF IInv, Links

-----------------------------------------------------------------------------
(* Requests *)

LEMMA Added ==
    ASSUME IInv, NEW d \in Download, NEW i \in Item, NEW dir \in {RootDir, AuthorDir},
           Add(d, i, dir)
    PROVE  /\ dl[d].state = "unused" /\ dl'[d].item = i /\ dl'[d].state = "queued"
           /\ \A e \in Download \ {d} : dl'[e] = dl[e]
           /\ InMap' = InMap \cup {d}
<1>1. Types
  BY DEF IInv
<1>2. dl[d].state = "unused" /\ \A e \in Download \ {d} : dl'[e] = dl[e]
  BY <1>1, Adding
<1>3. dl'[d] = [state |-> "queued", item |-> i, dir |-> dir, made |-> FALSE]
  BY <1>1, Adding
<1>4. InMap' = InMap \cup {d}
  BY <1>1, Adding
<1> QED BY <1>2, <1>3, <1>4

\* The client's map gets an entry for an item that nothing is fetched for.
LEMMA AddLinks ==
    ASSUME IInv, NEW d \in Download, NEW i \in Item, NEW dir \in {RootDir, AuthorDir},
           Add(d, i, dir), Quiet(i), row' = row, Held(i, d)',
           \A k \in Item, e \in Download : Held(k, e) => Held(k, e)'
    PROVE  LinkOk'
<1>1. /\ dl[d].state = "unused" /\ dl'[d].item = i /\ dl'[d].state = "queued"
      /\ \A e \in Download \ {d} : dl'[e] = dl[e]
  BY Added
<1>2. \A k \in Item : row[k].ext # 0 =>
        dl'[row[k].ext].state # "unused" /\ dl'[row[k].ext].item = k
  <2>1. \A k \in Item : row[k].ext # 0 => row[k].ext \in Download \ {d}
    BY <1>1 DEF IInv, Types, QueueRow, Links, LinkOk
  <2> QED BY <1>1, <2>1 DEF IInv, Links, LinkOk
<1>3. \A e, f \in Download : Live(e)' /\ Live(f)' /\ dl'[e].item = dl'[f].item => e = f
  BY <1>1 DEF IInv, Links, LinkOk, Live, Quiet
<1>4. ASSUME NEW e \in Download, Live(e)'
      PROVE  (Gone(dl[e].item) \/ Held(dl[e].item, e))'
  <2>1. PICK k \in Item : k = dl'[e].item
    BY <1>1, <1>4 DEF IInv, Types, Live
  <2>2. Gone(k)' \/ Held(k, e)'
    BY <1>1, <1>4, <2>1 DEF IInv, Links, LinkOk, Live, Gone
  <2> QED BY <2>1, <2>2 DEF Gone, Held, Fetching, Requested, Relinking
<1> QED BY <1>2, <1>3, <1>4 DEF LinkOk, IInv, Links

\* No file changes when an entry is added.
LEMMA AddFiles ==
    ASSUME IInv, NEW d \in Download, NEW i \in Item, NEW dir \in {RootDir, AuthorDir},
           Add(d, i, dir), ~Gone(i), UNCHANGED <<row, content, writer, reports>>,
           \A k \in Item, e \in InMap : Held(k, e)' => Held(k, e)
    PROVE  Files'
<1>1. /\ dl'[d].item = i /\ dl'[d].state = "queued"
      /\ \A e \in Download \ {d} : dl'[e] = dl[e]
  BY Added
<1>2. \A e \in Download : dl'[e] = dl[e] \/ dl'[e].state = "queued"
  BY <1>1
<1>3. \A k \in Item, e \in Download :
        dl[e].item = k /\ dl[e].state = "completed" /\ dl'[e] = dl[e]
            /\ Held(k, e)' /\ ~Gone(k)' => Held(k, e) /\ ~Gone(k)
  BY DEF InMap, Gone
<1>4. \A k \in Item : row'[k].status = "completed" =>
        /\ row'[k].path \in FilesFor(k)
        /\ \/ row[k].status = "completed" /\ row'[k].path = row[k].path
           \/ Whole(row'[k].path)
  BY DEF IInv, Files, FileOk
<1>5. \A k \in Item : row[k].status = "completed" =>
        \/ row'[k].status = "completed" /\ row'[k].path = row[k].path
        \/ Gone(k)' /\ Quiet(k)'
        \/ content[row[k].path] # "complete"
  OBVIOUS
<1>6. \A k \in Item : Gone(k) /\ Quiet(k) => Gone(k)' /\ Quiet(k)'
  BY <1>1 DEF Gone, Quiet, Live
<1> QED BY <1>2, <1>3, <1>4, <1>5, <1>6, FilesStay

\* Monitors know nothing of a download that is being added.
LEMMA AddMonitors ==
    ASSUME IInv, NEW d \in Download, NEW i \in Item, NEW dir \in {RootDir, AuthorDir},
           Add(d, i, dir), row[i].status \in {"unused", "failed"},
           UNCHANGED <<row, content, writer, reports, mon>>
    PROVE  MonOk'
<1>1. /\ dl'[d].item = i /\ dl'[d].state = "queued" /\ dl[d].state = "unused"
      /\ \A e \in Download \ {d} : dl'[e] = dl[e]
      /\ InMap' = InMap \cup {d}
  BY Added
<1>2. \A k \in Item : (Gone(k)' <=> Gone(k)) /\ (k # i /\ Quiet(k) => Quiet(k)')
  BY <1>1 DEF Gone, Quiet, Live
<1> SUFFICES ASSUME NEW m \in Monitor
             PROVE  ListOk(m)' /\ WriteOk(m)' /\ RelinkOk(m)' /\ ImportOk(m)'
  BY DEF MonOk
<1>3. mon[m] \in Command /\ ListOk(m) /\ WriteOk(m) /\ RelinkOk(m) /\ ImportOk(m)
  BY CmdType DEF IInv, Links, MonOk
<1>4. ListOk(m)'
  BY <1>1, <1>3 DEF ListOk, Command, Read, Fetching, Gone
<1>5. mon[m].pc \notin {"idle", "next"} => mon[m].r.item \in Item
  BY DEF IInv, Types, WorkTypes, Read
<1>6. WriteOk(m)'
  <2>1. mon[m].pc = "write" => mon[m].dl \in Download \ {d} /\ dl'[mon[m].dl] = dl[mon[m].dl]
    BY <1>1 DEF IInv, Types, WorkTypes, InMap
  <2> QED BY <1>3, <1>5, <2>1 DEF WriteOk, Fetching, Gone, SavePathOf
<1>7. RelinkOk(m)'
  <2>1. mon[m].pc = "relink" /\ ~Gone(mon[m].r.item) => row[mon[m].r.item].ext # d
    BY <1>1, <1>3, <1>5, NoZero DEF RelinkOk, IInv, Links, LinkOk
  <2>2. mon[m].pc = "relink" => dl'[mon[m].dl] = dl[mon[m].dl]
    BY <1>1, <1>3 DEF RelinkOk, InMap
  <2> QED BY <1>1, <1>3, <1>5, <2>1, <2>2 DEF RelinkOk, Gone
<1>8. ImportOk(m)'
  <2>1. Target(m)' = Target(m)
    BY DEF Target, BookFor
  <2>2. Importing(m) => mon[m].r.item # i
    BY <1>3 DEF ImportOk, Importing, Gone
  <2>3. Importing(m) => Quiet(mon[m].r.item)'
    <3>1. \A k \in Item : k # i /\ Quiet(k) => Quiet(k)'
      BY <1>2
    <3> QED BY <1>3, <1>5, <2>2, <3>1 DEF ImportOk, Importing, Quiet, Live
  <2> QED BY <1>2, <1>3, <1>5, <2>1, <2>3 DEF ImportOk, Importing, Whole, Gone
<1> QED BY <1>4, <1>6, <1>7, <1>8

LEMMA RequestAddKeeps ==
    ASSUME IInv, Calm', Types', NEW i \in Item, GrabAdd(i) \/ RetryAdd(i)
    PROVE  IInv'
<1>0. RetryAdd(i) => row[i].status = "failed" /\ \A q \in req : q.item # i
  BY DEF RetryAdd, Calm
<1>1. PICK d \in Download, dir \in {RootDir, AuthorDir}, pc \in {"record", "relink"} :
        /\ Add(d, i, dir) /\ req' = req \cup {[pc |-> pc, item |-> i, dl |-> d]}
        /\ pc = "record" => row[i].status = "unused" /\ i \notin Indexer
        /\ pc = "relink" => row[i].status = "failed"
        /\ (\A q \in req : q.item # i) /\ UNCHANGED <<row, content, writer, mon, reports>>
  BY <1>0 DEF GrabAdd, RetryAdd, disk, counts
<1> DEFINE new == [pc |-> pc, item |-> i, dl |-> d]
<1>2. row[i].status \in {"unused", "failed"} /\ ~Gone(i)
  BY <1>1 DEF Gone
<1>3. Quiet(i)
  BY <1>1, <1>2, Holder DEF Quiet, Requested
<1>4. /\ dl[d].state = "unused" /\ dl'[d].item = i /\ InMap' = InMap \cup {d}
      /\ \A e \in Download \ {d} : dl'[e] = dl[e]
  BY <1>1, Added
<1>5. /\ req' = req \cup {new} /\ new.pc = pc /\ new.item = i /\ new.dl = d
      /\ \A q \in req : q.item # i
  BY <1>1
<1> HIDE DEF new
<1>6. \A k, e : Requested(k, e)' <=> Requested(k, e) \/ (k = i /\ e = d)
  BY <1>5 DEF Requested
<1>7. \A k, e : (Fetching(k, e)' <=> Fetching(k, e)) /\ (Relinking(k, e)' <=> Relinking(k, e))
  BY <1>1 DEF Fetching, Relinking
<1>8. Held(i, d)' /\ \A k \in Item, e \in Download : Held(k, e) => Held(k, e)'
  BY <1>6, <1>7 DEF Held
<1>9. \A k \in Item, e \in InMap : Held(k, e)' => Held(k, e)
  <2>1. \A e \in InMap : e # d
    BY <1>4 DEF InMap
  <2> QED BY <1>6, <1>7, <2>1 DEF Held
<1>10. LinkOk'
  BY <1>1, <1>3, <1>8, AddLinks
<1>11. ReqOk'
  <2>1. \A q, r \in req' : q.item = r.item => q = r
    BY <1>5 DEF IInv, Links, ReqOk
  <2>2. ASSUME NEW q \in req
        PROVE  dl'[q.dl] = dl[q.dl]
    <3>1. q.dl \in InMap
      BY DEF IInv, Types, WorkTypes
    <3> QED BY <1>4, <3>1 DEF InMap
  <2>3. ASSUME NEW q \in req'
        PROVE  /\ dl'[q.dl].item = q.item
               /\ q.pc = "record" => row'[q.item].status = "unused" /\ q.item \notin Indexer
               /\ q.pc = "relink" => row'[q.item].status \in {"failed", "gone"}
    <3>1. CASE q \in req
      BY <1>1, <2>2, <3>1 DEF IInv, Links, ReqOk
    <3>2. CASE q = new
      BY <1>1, <1>4, <1>5, <3>2
    <3> QED BY <1>5, <3>1, <3>2
  <2> QED BY <2>1, <2>3 DEF ReqOk
<1>12. MonOk'
  BY <1>1, <1>2, AddMonitors
<1>13. Files'
  BY <1>1, <1>2, <1>9, AddFiles
<1> QED BY <1>10, <1>11, <1>12, <1>13 DEF IInv, Links

\* A row changes that is new, or that no monitor looks at, or it goes.
LEMMA RequestRowKeeps ==
    ASSUME IInv, Types', NEW i \in Item,
           GrabFromIndexer(i) \/ RemoveFromQueue(i)
    PROVE  IInv'
<1>1. UNCHANGED <<dl, content, writer, mon, req, reports>>
  BY DEF GrabFromIndexer, RemoveFromQueue, disk, requests, counts
<1>2. /\ \A k \in Item \ {i} : row'[k] = row[k]
      /\ \/ row[i].status = "unused" /\ row'[i].status = "queued" /\ row'[i].ext = 0
         \/ InQueue(i) /\ row'[i].status = "gone" /\ row'[i].ext = row[i].ext
  <2>1. CASE GrabFromIndexer(i)
    BY <2>1 DEF GrabFromIndexer, IInv, Types
  <2>2. CASE RemoveFromQueue(i)
    BY <2>2 DEF RemoveFromQueue, IInv, Types, QueueRow
  <2> QED BY <2>1, <2>2
<1>3. row[i].status = "unused" => \A e \in Download : ~Fetching(i, e) /\ ~Relinking(i, e)
  BY DEF Fetching, Active, Relinking, IInv, Links, MonOk, RelinkOk, Gone
<1>4. row[i].status = "unused" => i \in Indexer
  BY DEF GrabFromIndexer, RemoveFromQueue, InQueue
<1>5. \A k \in Item : (Gone(k) => Gone(k)') /\ (Quiet(k)' <=> Quiet(k))
  BY <1>1, <1>2 DEF Gone, Quiet, Live, InQueue
<1>6. \A k \in Item, e \in Download :
        /\ Held(k, e) => Held(k, e)' \/ Gone(k)'
        /\ Held(k, e)' /\ ~Gone(k)' /\ dl[e].state = "completed" => Held(k, e) /\ ~Gone(k)
  <2>1. 0 \notin Download
    BY NoZero
  <2> QED BY <1>1, <1>2, <1>3, <1>5, <2>1 DEF Held, Fetching, Requested, Relinking, Gone
<1>7. LinkOk'
  <2>1. \A k \in Item : row'[k].status = "unused" => row'[k].ext = 0
    BY <1>2 DEF IInv, Links, LinkOk
  <2>2. \A k \in Item : row'[k].ext \in {0, row[k].ext}
    BY <1>2
  <2> QED BY <1>1, <1>5, <1>6, <2>1, <2>2, LinksStay
<1>8. ReqOk'
  <2>1. \A q \in req : q.item \in Item
    BY DEF IInv, Types, WorkTypes, ReqType
  <2>2. \A q \in req : q.pc = "record" => q.item # i
    BY <1>2, <1>4 DEF IInv, Links, ReqOk, InQueue
  <2>3. \A q \in req : q.pc = "relink" => row'[q.item].status \in {"failed", "gone"}
    BY <1>2, <2>1 DEF IInv, Links, ReqOk
  <2> QED BY <1>1, <1>2, <2>1, <2>2, <2>3 DEF ReqOk, IInv, Links
<1>9. MonOk'
  BY <1>1, <1>2, RowUnseen DEF Gone
<1>10. Files'
  <2>1. \A k \in Item : row'[k].status = "completed" => row'[k] = row[k]
    BY <1>2
  <2>2. \A k \in Item : row[k].status = "completed" =>
          \/ row'[k] = row[k]
          \/ Gone(k)' /\ Quiet(k)'
    BY <1>2, <1>5, CompletedQuiet DEF Gone
  <2>3. \A k \in Item : row'[k].status = "completed" =>
          /\ row'[k].path \in FilesFor(k)
          /\ row[k].status = "completed" /\ row'[k].path = row[k].path
    BY <2>1 DEF IInv, Files, FileOk
  <2> QED BY <1>1, <1>5, <1>6, <2>2, <2>3, FilesStay
<1> QED BY <1>7, <1>8, <1>9, <1>10 DEF IInv, Links

\* The grab's row, or the retry's: the download is held by it from now on.
LEMMA RequestLinkKeeps ==
    ASSUME IInv, Types', NEW q \in req, GrabRecord(q) \/ RetryRelink(q)
    PROVE  IInv'
<1> DEFINE i == q.item
           d == q.dl
<1>1. /\ UNCHANGED <<dl, content, writer, mon, reports>> /\ req' = req \ {q}
      /\ i \in Item /\ d \in Download /\ dl[d].item = i /\ dl[d].state # "unused"
      /\ row[i].status \in {"unused", "failed", "gone"} /\ d \in InMap
  BY DEF GrabRecord, RetryRelink, disk, counts, IInv, Types, WorkTypes, ReqType, InMap,
         Links, ReqOk
<1>2. /\ \A k \in Item \ {i} : row'[k] = row[k]
      /\ IF row[i].status = "gone" THEN row'[i] = row[i]
         ELSE row'[i].status = "queued" /\ row'[i].ext = d
  <2>1. CASE GrabRecord(q)
    <3>1. row[i].status = "unused"
      BY <2>1 DEF GrabRecord, IInv, Links, ReqOk
    <3> QED BY <1>1, <2>1, <3>1 DEF GrabRecord, IInv, Types
  <2>2. CASE RetryRelink(q)
    <3>1. row[i].status \in {"failed", "gone"} /\ Types
      BY <2>2 DEF RetryRelink, IInv, Links, ReqOk
    <3>2. Relink(i, d)
      BY <2>2 DEF RetryRelink
    <3>3. RowBecomes(i, "queued", d, row[i].path)
      BY <1>1, <3>1, <3>2, IdSet
    <3> QED BY <3>1, <3>3 DEF RowBecomes, InQueue
  <2> QED BY <2>1, <2>2
<1>0. \A r \in req : r.item = i => r = q
  BY DEF IInv, Links, ReqOk
<1> HIDE DEF i, d
<1>3. /\ Requested(i, d) /\ \A e : Requested(i, e) => e = d
      /\ \A e : ~Requested(i, e)'
  BY <1>0, <1>1 DEF Requested, i, d
<1>4. \A k, e : /\ k # i => (Requested(k, e)' <=> Requested(k, e))
                /\ Relinking(k, e)' <=> Relinking(k, e)
  BY <1>1 DEF Requested, Relinking, i
<1>5. ~Gone(i) => Fetching(i, d)' /\ \A e : ~Fetching(i, e) /\ ~Relinking(i, e)
  <2>1. ~Gone(i) => Fetching(i, d)' /\ \A e : ~Fetching(i, e)
    BY <1>1, <1>2 DEF Gone, Fetching, Active
  <2>2. ~Gone(i) => \A e : ~Relinking(i, e)
    BY <1>1 DEF Gone, Active, Relinking, IInv, Links, MonOk, RelinkOk
  <2> QED BY <2>1, <2>2
<1>6. \A k \in Item : (Gone(k)' <=> Gone(k)) /\ (Quiet(k)' <=> Quiet(k))
  BY <1>1, <1>2 DEF Gone, Quiet, Live
<1>7. \A k \in Item, e \in Download :
        /\ Held(k, e) => Held(k, e)' \/ Gone(k)'
        /\ Held(k, e)' /\ ~Gone(k)' => Held(k, e) /\ ~Gone(k)
  <2>1. \A k \in Item \ {i}, e \in Download : Held(k, e)' <=> Held(k, e)
    BY <1>2, <1>4 DEF Held, Fetching
  <2>2. ~Gone(i) => \A e \in Download : Held(i, e)' => e = d
    BY <1>2, <1>3, <1>4, <1>5 DEF Held, Fetching, Gone
  <2>3. ~Gone(i) => \A e \in Download : Held(i, e) => e = d
    BY <1>3, <1>5 DEF Held
  <2> QED BY <1>1, <1>3, <1>5, <1>6, <2>1, <2>2, <2>3 DEF Held
<1>8. LinkOk'
  <2>1. \A k \in Item : row'[k].status = "unused" => row'[k].ext = 0
    BY <1>1, <1>2 DEF IInv, Links, LinkOk
  <2>2. \A k \in Item : \/ row'[k].ext \in {0, row[k].ext}
                        \/ dl[row'[k].ext].state # "unused" /\ dl[row'[k].ext].item = k
    BY <1>1, <1>2
  <2> QED BY <1>1, <1>6, <1>7, <2>1, <2>2, LinksStay
<1>9. ReqOk'
  <2>1. \A r \in req' : r \in req /\ r.item # i /\ r.item \in Item
    BY <1>0, <1>1 DEF IInv, Types, WorkTypes, ReqType
  <2> QED BY <1>1, <1>2, <2>1 DEF ReqOk, IInv, Links
<1>10. MonOk'
  <2>1. \A k \in Item : row'[k] = row[k] \/ Gone(k)' \/ row[k].status \in {"unused", "failed"}
    BY <1>1, <1>2
  <2> QED BY <1>1, <2>1, RowUnseen
<1>11. Files'
  <2>1. \A k \in Item : row'[k].status = "completed" =>
          /\ row'[k].path \in FilesFor(k)
          /\ row[k].status = "completed" /\ row'[k].path = row[k].path
    BY <1>2 DEF IInv, Files, FileOk
  <2>2. \A k \in Item : row[k].status = "completed" =>
          row'[k].status = "completed" /\ row'[k].path = row[k].path
    BY <1>1, <1>2
  <2> QED BY <1>1, <1>6, <1>7, <2>1, <2>2, FilesStay
<1> QED BY <1>8, <1>9, <1>10, <1>11 DEF IInv, Links

-----------------------------------------------------------------------------
(* Reports, the scan and crashes *)

\* A scan and the page's reads touch nothing that the invariant is about.
LEMMA Same ==
    ASSUME IInv, Types', UNCHANGED <<row, content, writer, dl, mon, req, reports>>
    PROVE  IInv'
<1>1. LinkOk' /\ ReqOk'
  BY DEF IInv, Links, LinkOk, ReqOk, Live, Gone, Held, Fetching, Requested, Relinking
<1>2. MonOk'
  BY RowUnseen
<1>3. Files'
  BY DEF IInv, Files, FileOk, CoverOk, Covered, Settled, Whole, Held, Fetching, Requested,
         Relinking, Gone, Quiet, Live, SavePathOf
<1> QED BY <1>1, <1>2, <1>3 DEF IInv, Links

\* A file may be taken away at any time, by a report.
LEMMA ReportKeeps ==
    ASSUME IInv, Types', NEW r \in report, ReportUnlink(r)
    PROVE  IInv'
<1>1. /\ content' = [content EXCEPT ![r.file[2]] = "none"]
      /\ writer' = [writer EXCEPT ![r.file[2]] = 0]
  BY DEF ReportUnlink
<1>2. UNCHANGED <<row, dl, mon, req, reports>> /\ reports' > 0
  BY DEF ReportUnlink, counts, IInv, Types, SideTypes
<1>3. \A p \in File : \/ content'[p] = "none"
                      \/ content'[p] = content[p] /\ writer'[p] = writer[p]
  BY <1>1 DEF IInv, Types, DiskTypes
<1>4. \A p \in File : Whole(p) => Whole(p)'
  BY <1>2, <1>3 DEF Whole
<1>5. LinkOk' /\ ReqOk'
  BY <1>2 DEF IInv, Links, LinkOk, ReqOk, Live, Gone, Held, Fetching, Requested, Relinking
<1>6. ASSUME NEW m \in Monitor
      PROVE  ListOk(m)' /\ WriteOk(m)' /\ RelinkOk(m)' /\ ImportOk(m)'
  <2>1. ListOk(m) /\ WriteOk(m) /\ RelinkOk(m) /\ ImportOk(m)
    BY DEF IInv, Links, MonOk
  <2>2. ListOk(m)' /\ WriteOk(m)' /\ RelinkOk(m)'
    BY <1>2, <2>1 DEF ListOk, WriteOk, RelinkOk, Gone, Fetching, InMap, SavePathOf
  <2>3. ASSUME mon[m].pc = "import" \/ Importing(m)
        PROVE  /\ mon[m].r.item \in Item /\ Target(m) \in File /\ Target(m)' = Target(m)
               /\ Importing(m) \/ ~Gone(mon[m].r.item) => mon[m].src \in File
    <3>1. mon[m].r.item \in Item
      BY <2>3 DEF IInv, Types, WorkTypes, Read, Importing
    <3>2. Importing(m) \/ ~Gone(mon[m].r.item) => mon[m].src \in FilesFor(mon[m].r.item)
      BY <2>1, <2>3, <3>1 DEF ImportOk, IInv, Files, FileOk
    <3> QED BY <1>2, <3>1, <3>2, Paths, NoZero DEF Target, BookFor
  <2>4. Importing(m) => (Quiet(mon[m].r.item)' <=> Quiet(mon[m].r.item))
    BY <1>2 DEF Quiet, Live
  <2>5. CASE mon[m].pc = "import" \/ Importing(m)
    <3>1. Importing(m) \/ ~Gone(mon[m].r.item) => (Whole(mon[m].src) => Whole(mon[m].src)')
      BY <1>2, <1>3, <2>3, <2>5 DEF Whole
    <3>2. Whole(Target(m)) => Whole(Target(m))'
      BY <1>2, <1>3, <2>3, <2>5 DEF Whole
    <3>3. ImportOk(m)'
      BY <1>2, <1>3, <2>1, <2>3, <2>4, <2>5, <3>1, <3>2 DEF ImportOk, Importing, Gone
    <3> QED BY <2>2, <3>3
  <2>6. CASE ~(mon[m].pc = "import" \/ Importing(m))
    BY <1>2, <2>2, <2>6 DEF ImportOk, Importing
  <2> QED BY <2>2, <2>5, <2>6
<1>7. FileOk'
  <2>1. \A e \in Download : SavePathOf(e)' = SavePathOf(e)
    BY <1>2 DEF SavePathOf
  <2>2. \A e \in Download : dl[e].state \in {"streaming", "completed"} => SavePathOf(e) \in File
    BY SavePaths DEF IInv, Files, FileOk
  <2>3. \A k, e : (Held(k, e)' <=> Held(k, e)) /\ (Gone(k)' <=> Gone(k))
    BY <1>2 DEF Held, Fetching, Requested, Relinking, Gone
  <2>4. \A k \in Item : row[k].status = "completed" => row[k].path \in File
    BY Paths DEF IInv, Files, FileOk
  <2>5. \A e \in Download : dl[e].state = "streaming" =>
          writer'[SavePathOf(e)] = e \/ content'[SavePathOf(e)] = "none"
    BY <1>3, <2>2 DEF IInv, Files, FileOk
  <2>6. \A e \in Download :
          dl[e].state = "completed" /\ Held(dl[e].item, e) /\ ~Gone(dl[e].item) =>
            content'[SavePathOf(e)] \in {"complete", "none"}
    BY <1>3, <2>2 DEF IInv, Files, FileOk, Whole
  <2>7. \A e \in Download : (Held(dl[e].item, e) /\ ~Gone(dl[e].item))' =>
                                Held(dl[e].item, e) /\ ~Gone(dl[e].item)
    BY <1>2 DEF Held, Fetching, Requested, Relinking, Gone
  <2>8. \A k \in Item : row[k].status = "completed" =>
          row[k].path \in FilesFor(k) /\ content'[row[k].path] # "partial"
    BY <1>3, <2>4 DEF IInv, Files, FileOk
  <2>9. \A e \in Download : dl'[e].state \in {"streaming", "completed"} => dl'[e].made
    BY <1>2 DEF IInv, Files, FileOk
  <2> QED BY <1>2, <2>1, <2>5, <2>6, <2>7, <2>8, <2>9 DEF FileOk, Whole
<1>8. CoverOk'
  BY <1>2 DEF CoverOk
<1> QED BY <1>5, <1>6, <1>7, <1>8 DEF IInv, Links, MonOk, Files

\* Whoever reports reads the row first.
LEMMA ReportReadKeeps ==
    ASSUME IInv, Types', NEW b \in Book, ReportRead(b)
    PROVE  IInv'
<1>1. UNCHANGED <<row, content, writer, dl, mon, req>> /\ reports' > 0
  BY DEF ReportRead, disk, IInv, Types, SideTypes, WorkTypes
<1>2. LinkOk' /\ ReqOk'
  BY <1>1 DEF IInv, Links, LinkOk, ReqOk, Live, Gone, Held, Fetching, Requested, Relinking
<1>3. \A p : Whole(p) => Whole(p)'
  BY <1>1 DEF Whole
<1>4. MonOk'
  <2> SUFFICES ASSUME NEW m \in Monitor
               PROVE  ListOk(m)' /\ WriteOk(m)' /\ RelinkOk(m)' /\ ImportOk(m)'
    BY DEF MonOk
  <2>1. ListOk(m) /\ WriteOk(m) /\ RelinkOk(m) /\ ImportOk(m)
    BY DEF IInv, Links, MonOk
  <2>2. ListOk(m)' /\ WriteOk(m)' /\ RelinkOk(m)'
    BY <1>1, <2>1 DEF ListOk, WriteOk, RelinkOk, Fetching, Gone, InMap, SavePathOf
  <2>3. Target(m)' = Target(m) /\ (Quiet(mon[m].r.item)' <=> Quiet(mon[m].r.item))
        /\ (Gone(mon[m].r.item)' <=> Gone(mon[m].r.item)) /\ (Importing(m)' <=> Importing(m))
    BY <1>1 DEF Target, BookFor, Quiet, Live, Gone, Importing
  <2>4. (Whole(mon[m].src) => Whole(mon[m].src)') /\ (Whole(Target(m)) => Whole(Target(m))')
    BY <1>1, <1>3, <2>3 DEF Whole
  <2>5. ImportOk(m)'
    BY <1>1, <2>1, <2>3, <2>4 DEF ImportOk
  <2> QED BY <2>2, <2>5
<1>5. Files'
  BY <1>1 DEF IInv, Files, FileOk, CoverOk, Whole, Held, Fetching, Requested, Relinking, Gone,
              SavePathOf
<1> QED BY <1>2, <1>4, <1>5 DEF IInv, Links

\* After a crash there are no downloads and nobody is at work.
LEMMA CrashKeeps == ASSUME IInv, Types', Crash PROVE IInv'
<1>1. /\ UNCHANGED <<row, content, reports>> /\ req' = {}
      /\ \A d \in Download : IF dl[d].state = "unused" THEN dl'[d] = dl[d]
                             ELSE dl'[d].state = "lost" /\ dl'[d].item = dl[d].item
      /\ \A m \in Monitor : mon'[m] = IdleMon
  BY DEF Crash, IInv, Types, Entry
<1>2. \A d \in Download : ~Live(d)' /\ dl'[d].state \notin {"streaming", "completed"}
  BY <1>1 DEF Live
<1>3. LinkOk'
  <2>1. \A k \in Item : row[k].ext # 0 =>
          dl'[row[k].ext].state # "unused" /\ dl'[row[k].ext].item = k
    BY <1>1 DEF IInv, Types, QueueRow, Links, LinkOk
  <2> QED BY <1>1, <1>2, <2>1 DEF LinkOk, IInv, Links
<1>4. ReqOk' /\ MonOk'
  <2>1. \A m \in Monitor : (ListOk(m) /\ WriteOk(m) /\ RelinkOk(m) /\ ImportOk(m))'
    BY <1>1 DEF IdleMon, ListOk, WriteOk, RelinkOk, ImportOk, Importing
  <2> QED BY <1>1, <2>1 DEF ReqOk, MonOk
<1>5. FileOk'
  BY <1>1, <1>2 DEF FileOk, IInv, Files
<1>6. CoverOk'
  <2>1. \A k \in Item : Quiet(k)' /\ (Gone(k)' <=> Gone(k))
    BY <1>1, <1>2 DEF Quiet, Gone
  <2>2. \A k \in Item : Settled(k) => Settled(k)'
    BY <1>1, <2>1 DEF Settled
  <2> QED BY <1>1, <2>2 DEF CoverOk, Covered, IInv, Files
<1> QED BY <1>3, <1>4, <1>5, <1>6 DEF IInv, Links, Files

-----------------------------------------------------------------------------
(* Monitors *)

\* While one monitor takes a step, the others are idle and stay so.
LEMMA Alone ==
    ASSUME IInv, Calm, Calm', NEW m \in Monitor, MonitorStep(m), OthersStay(m)
    PROVE  /\ \A n \in Monitor \ {m} : mon[n].pc = "idle" /\ mon'[n].pc = "idle"
           /\ \A n \in Monitor \ {m} : (ListOk(n) /\ WriteOk(n) /\ RelinkOk(n) /\ ImportOk(n))'
<1>1. mon[m].pc # "idle" \/ mon'[m].pc # "idle"
  <2>1. CASE MonBegin(m)
    BY <2>1, BeginSet DEF IInv, Knows
  <2>2. CASE ~MonBegin(m)
    BY <2>2 DEF MonitorStep, MonActive, MonEnd, MonStat, MonPoll, MonRelink, MonWrite, MonImport,
                MonOpen, MonCopy, MonRegister, MonComplete, MonClean
  <2> QED BY <2>1, <2>2
<1>2. \A n \in Monitor \ {m} : mon'[n] = mon[n]
  BY DEF OthersStay
<1>3. \A n \in Monitor \ {m} : mon[n].pc = "idle" /\ mon'[n].pc = "idle"
  BY <1>1, <1>2 DEF Calm
<1>4. \A n \in Monitor \ {m} : mon[n].todo = {}
  BY <1>3 DEF IInv, Links, MonOk, ListOk
<1>5. \A n \in Monitor \ {m} : (ListOk(n) /\ WriteOk(n) /\ RelinkOk(n) /\ ImportOk(n))'
  BY <1>2, <1>3, <1>4 DEF ListOk, WriteOk, RelinkOk, ImportOk, Importing
<1> QED BY <1>3, <1>5

\* A monitor that restarts nothing changes no holder but its own row.
LEMMA HoldersStay ==
    ASSUME NEW m \in Monitor, OthersStay(m), req' = req,
           mon[m].pc # "relink", mon'[m].pc # "relink"
    PROVE  \A k, e : /\ Requested(k, e)' <=> Requested(k, e)
                     /\ Relinking(k, e)' <=> Relinking(k, e)
<1>1. \A k, e : Relinking(k, e)' <=> Relinking(k, e)
  BY DEF Relinking, OthersStay
<1> QED BY <1>1 DEF Requested

\* A monitor that only reads, or writes book_files.
LEMMA ReadsKeep ==
    ASSUME IInv, NEW m \in Monitor, OthersStay(m), mon[m].pc # "relink", mon'[m].pc # "relink",
           UNCHANGED <<row, content, writer, dl, req, reports>>
    PROVE  LinkOk' /\ ReqOk' /\ Files'
<1>1. \A k, e : (Held(k, e)' <=> Held(k, e)) /\ (Gone(k)' <=> Gone(k)) /\ (Quiet(k)' <=> Quiet(k))
  BY HoldersStay DEF Held, Fetching, Gone, Quiet, Live
<1>2. LinkOk'
  <2>1. \A k \in Item : row'[k].status = "unused" => row'[k].ext = 0
    BY DEF IInv, Links, LinkOk
  <2> QED BY <1>1, <2>1, LinksStay
<1>3. ReqOk'
  BY DEF IInv, Links, ReqOk
<1>4. Files'
  <2>1. \A k \in Item : row'[k].status = "completed" =>
          /\ row'[k].path \in FilesFor(k)
          /\ row[k].status = "completed" /\ row'[k].path = row[k].path
    BY DEF IInv, Files, FileOk
  <2> QED BY <1>1, <2>1, FilesStay
<1> QED BY <1>2, <1>3, <1>4

\* Nothing is on its way for a completed row.
LEMMA CompletedFree ==
    ASSUME IInv, NEW i \in Item, row[i].status = "completed"
    PROVE  Quiet(i) /\ \A e : ~Held(i, e)
<1>1. \A e : ~Fetching(i, e) /\ ~Requested(i, e)
  BY DEF Fetching, Active, Requested, IInv, Links, ReqOk, Types, WorkTypes, ReqType
<1>2. \A e : ~Relinking(i, e)
  BY DEF Relinking, IInv, Links, MonOk, RelinkOk, Active, Gone
<1> QED BY <1>1, <1>2, CompletedQuiet DEF Held

\* One file changes that belongs to an item nothing is on its way for.
LEMMA FileSwap ==
    ASSUME IInv, OwnFile, NEW i \in Item, NEW q \in File,
           q \in FilesFor(i) \/ q = Dest(BookOf[i]),
           Quiet(i), Gone(i) \/ row[i].status = "completed",
           UNCHANGED <<row, dl, req, reports>>,
           \A k, e : Held(k, e)' <=> Held(k, e),
           \A p \in File : p # q => content'[p] = content[p] /\ writer'[p] = writer[p],
           row[i].status = "completed" /\ row[i].path = q => content'[q] # "partial",
           reports = 0 => Covered(BookOf[i])'
    PROVE  LinkOk' /\ ReqOk' /\ Files'
<1>1. \A k : (Gone(k)' <=> Gone(k)) /\ (Quiet(k)' <=> Quiet(k))
  BY DEF Gone, Quiet, Live
<1>2. LinkOk' /\ ReqOk'
  <2>1. \A k \in Item : row'[k].status = "unused" => row'[k].ext = 0
    BY DEF IInv, Links, LinkOk
  <2>2. LinkOk'
    BY <1>1, <2>1, LinksStay
  <2> QED BY <2>2 DEF IInv, Links, ReqOk
<1>3. \A k \in Item \ {i} : q \notin FilesFor(k)
  BY Apart
<1>4. \A e \in Download : dl[e].state # "unused" /\ dl[e].item # i =>
        FileIn(dl[e].dir, dl[e].item) \in File \ {q}
  BY <1>3, SavePaths DEF IInv, Types
<1>5. FileOk'
  <2>1. \A e \in Download : SavePathOf(e)' = SavePathOf(e)
    BY DEF SavePathOf
  <2>2. \A e \in Download : dl[e].state \in {"streaming", "completed"} /\ dl[e].item # i =>
          SavePathOf(e) \in File \ {q}
    BY <1>4, SavePaths DEF IInv, Files, FileOk
  <2>3. \A e \in Download : dl[e].state = "streaming" =>
          writer'[SavePathOf(e)] = e \/ (content'[SavePathOf(e)] = "none" /\ reports > 0)
    <3>1. \A e \in Download : dl[e].state = "streaming" => dl[e].item # i
      BY DEF Quiet, Live
    <3> QED BY <2>2, <3>1 DEF IInv, Files, FileOk
  <2>4. ASSUME NEW e \in Download, dl[e].state = "completed", Held(dl[e].item, e), ~Gone(dl[e].item)
        PROVE  content'[SavePathOf(e)] = "complete" \/ (content'[SavePathOf(e)] = "none" /\ reports > 0)
    <3>1. dl[e].item # i
      BY <2>4, CompletedFree
    <3> QED BY <2>2, <2>4, <3>1 DEF IInv, Files, FileOk, Whole
  <2>5. \A e \in Download : (Held(dl[e].item, e) /\ ~Gone(dl[e].item))' =>
                                Held(dl[e].item, e) /\ ~Gone(dl[e].item)
    <3>1. \A e, k : k = dl[e].item => ((Held(k, e) /\ ~Gone(k))' => Held(k, e) /\ ~Gone(k))
      BY <1>1
    <3> QED BY <3>1
  <2>6. \A k \in Item : row[k].status = "completed" =>
          row[k].path \in FilesFor(k) /\ content'[row[k].path] # "partial"
    BY <1>3, Paths DEF IInv, Files, FileOk
  <2>7. \A e \in Download : dl'[e].state \in {"streaming", "completed"} => dl'[e].made
    BY DEF IInv, Files, FileOk
  <2> QED BY <2>1, <2>3, <2>4, <2>5, <2>6, <2>7 DEF FileOk, Whole
<1>6. CoverOk'
  <2> SUFFICES ASSUME reports = 0, NEW k \in Item, row[k].status = "completed",
                      BookOf[k] # BookOf[i]
               PROVE  Covered(BookOf[k])'
    BY DEF CoverOk
  <2>1. Covered(BookOf[k])
    BY DEF IInv, Files, CoverOk
  <2>2. CASE content[Dest(BookOf[k])] = "complete"
    <3>1. Dest(BookOf[k]) \in File \ {q}
      BY NoZero, Paths, Apart
    <3> QED BY <2>2, <3>1 DEF Covered
  <2>3. CASE \E x \in Item : BookOf[x] = BookOf[k] /\ Settled(x)
    <3>1. PICK x \in Item \ {i} : BookOf[x] = BookOf[k] /\ Settled(x)
      BY <2>3
    <3>2. Settled(x)'
      BY <1>1, <1>3, <3>1, Paths DEF Settled
    <3> QED BY <3>1, <3>2 DEF Covered
  <2> QED BY <2>1, <2>2, <2>3 DEF Covered
<1> QED BY <1>2, <1>5, <1>6 DEF Files

\* What is left to show once the others and the one at work are dealt with.
LEMMA Assemble ==
    ASSUME IInv, Calm, Calm', Types', NEW m \in Monitor, MonitorStep(m), OthersStay(m),
           LinkOk' /\ ReqOk' /\ Files',
           (ListOk(m) /\ WriteOk(m) /\ RelinkOk(m) /\ ImportOk(m))'
    PROVE  IInv'
<1>1. \A n \in Monitor : (ListOk(n) /\ WriteOk(n) /\ RelinkOk(n) /\ ImportOk(n))'
  BY Alone
<1> QED BY <1>1 DEF IInv, Links, MonOk

\* Nothing that a monitor between two rows knows has to be true but its list.
LEMMA AtNext ==
    ASSUME NEW m \in Monitor, mon'[m].pc = "next"
    PROVE  (WriteOk(m) /\ RelinkOk(m) /\ ImportOk(m))'
  BY DEF WriteOk, RelinkOk, ImportOk, Importing

LEMMA ListsKeep ==
    ASSUME IInv, Calm, Calm', Types', NEW m \in Monitor, MonBegin(m) \/ MonActive(m) \/ MonEnd(m)
    PROVE  IInv'
<1>1. MonitorStep(m) /\ Types
  BY DEF MonitorStep, IInv
<1>2. /\ UNCHANGED <<row, content, writer, dl, req, reports>> /\ mon[m].pc # "relink"
      /\ OthersStay(m)
      /\ \/ mon'[m].pc = "next" /\ mon'[m].phase = "pending" /\ mon'[m].todo = PendingRows
         \/ mon'[m].pc = "next" /\ mon'[m].phase = "active" /\ mon'[m].todo = ActiveRows
         \/ mon'[m] = IdleMon
  <2>1. UNCHANGED <<row, content, writer, dl, req, reports>> /\ mon[m].pc # "relink"
    BY DEF MonBegin, MonActive, MonEnd, disk, requests, counts
  <2>2. MonBegin(m) => OthersStay(m) /\ mon'[m].pc = "next" /\ mon'[m].phase = "pending"
                       /\ mon'[m].todo = PendingRows
    BY <1>1, BeginSet DEF Knows
  <2>3. MonActive(m) => OthersStay(m) /\ mon'[m].pc = "next" /\ mon'[m].phase = "active"
                        /\ mon'[m].todo = ActiveRows
    BY <1>1, ActiveSet DEF Knows, MonActive
  <2>4. MonEnd(m) => OthersStay(m) /\ mon'[m] = IdleMon
    BY <1>1, IdleSet
  <2> QED BY <2>1, <2>2, <2>3, <2>4
<1>3. LinkOk' /\ ReqOk' /\ Files'
  BY <1>2, ReadsKeep DEF IdleMon
<1>4. ListOk(m)'
  <2>1. CASE mon'[m] = IdleMon
    BY <2>1 DEF IdleMon, ListOk
  <2>2. CASE mon'[m].pc = "next" /\ mon'[m].phase = "pending" /\ mon'[m].todo = PendingRows
    <3>1. \A r \in PendingRows : /\ r.item \in Item /\ r = Snapshot(r.item)
                                 /\ row[r.item].status = "completed"
      BY DEF PendingRows, Snapshot
    <3>2. \A r \in PendingRows : /\ r.ext = row[r.item].ext /\ r.path = row[r.item].path
      BY <3>1 DEF Snapshot
    <3>3. \A r, s \in PendingRows : r.item = s.item => r = s
      BY <3>1
    <3>4. \A r \in PendingRows : r.ext # 0 => dl[r.ext].state # "unused" /\ dl[r.ext].item = r.item
      BY <3>1, <3>2 DEF IInv, Links, LinkOk
    <3> QED BY <1>2, <2>2, <3>1, <3>2, <3>3, <3>4 DEF ListOk
  <2>3. CASE mon'[m].pc = "next" /\ mon'[m].phase = "active" /\ mon'[m].todo = ActiveRows
    <3>1. \A r \in ActiveRows : /\ r.item \in Item /\ r = Snapshot(r.item)
                                /\ row[r.item].status \in Active
      BY DEF ActiveRows, Snapshot
    <3>2. \A r \in ActiveRows : r.ext = row[r.item].ext
      BY <3>1 DEF Snapshot
    <3>3. \A r, s \in ActiveRows : r.item = s.item => r = s
      BY <3>1
    <3>4. \A r \in ActiveRows : r.ext # 0 => dl[r.ext].state # "unused" /\ dl[r.ext].item = r.item
      BY <3>1, <3>2 DEF IInv, Links, LinkOk
    <3> QED BY <1>2, <2>3, <3>1, <3>2, <3>3, <3>4 DEF ListOk, Fetching
  <2> QED BY <1>2, <2>1, <2>2, <2>3
<1>5. (WriteOk(m) /\ RelinkOk(m) /\ ImportOk(m))'
  BY <1>2 DEF WriteOk, RelinkOk, ImportOk, Importing, IdleMon
<1> QED BY <1>1, <1>2, <1>3, <1>4, <1>5, Assemble

\* What the row on top of the list is like, and that it is on it once.
LEMMA Listed ==
    ASSUME IInv, NEW m \in Monitor, NEW r \in mon[m].todo
    PROVE  /\ r \in Read /\ r.item \in Item /\ r.ext \in Download \cup {0} /\ r.path \in Path
           /\ \A s \in mon[m].todo : s.item = r.item => s = r
           /\ r.ext # 0 => dl[r.ext].state # "unused" /\ dl[r.ext].item = r.item
           /\ Gone(r.item) \/ IF mon[m].phase = "active" THEN Fetching(r.item, r.ext)
                              ELSE row[r.item].status = "completed" /\ row[r.item].path = r.path
<1>1. mon[m] \in Command /\ ListOk(m)
  BY CmdType DEF IInv, Links, MonOk
<1> QED BY <1>1 DEF Command, Read, ListOk

\* The rest of the list stays right when at most one row changes that is not on it.
LEMMA RestOfList ==
    ASSUME IInv, NEW m \in Monitor, NEW i \in Item,
           mon'[m].phase = mon[m].phase, mon'[m].todo \subseteq mon[m].todo,
           \A r \in mon'[m].todo : r.item # i,
           mon'[m].pc = "next" \/ (mon'[m].pc # "idle" /\ mon'[m].r.item = i),
           mon'[m].pc \in {"write", "relink"} => mon[m].phase = "active",
           \A e \in Download : dl[e].state # "unused" =>
                dl'[e].state # "unused" /\ dl'[e].item = dl[e].item,
           \A k \in Item \ {i} : row'[k] = row[k]
    PROVE  ListOk(m)'
<1>1. \A r \in mon'[m].todo : r.item \in Item \ {i} /\ r.ext \in Download \cup {0}
  BY Listed
<1>2. \A r \in mon'[m].todo : r.ext # 0 => dl'[r.ext].state # "unused" /\ dl'[r.ext].item = r.item
  BY <1>1, Listed
<1>3. \A r, s \in mon'[m].todo : r.item = s.item => r = s
  BY Listed
<1>4. \A r \in mon'[m].todo :
        Gone(r.item)' \/ IF mon[m].phase = "active" THEN Fetching(r.item, r.ext)'
                         ELSE row'[r.item].status = "completed" /\ row'[r.item].path = r.path
  BY <1>1, Listed DEF Gone, Fetching
<1> QED BY <1>1, <1>2, <1>3, <1>4 DEF ListOk

LEMMA StatKeeps ==
    ASSUME IInv, Calm, Calm', Types', NEW m \in Monitor, MonStat(m)
    PROVE  IInv'
<1>0. MonitorStep(m) /\ Types /\ UNCHANGED <<content, writer, dl, req, reports>>
      /\ mon[m].pc = "next" /\ mon[m].phase = "pending"
  BY DEF MonitorStep, IInv, MonStat, disk, requests, counts
<1>1. CASE \E r \in mon[m].todo :
             /\ Exists(r.path) /\ UNCHANGED row
             /\ mon' = [mon EXCEPT ![m].pc = "import", ![m].r = r, ![m].src = r.path,
                                   ![m].todo = @ \ {r}]
  <2>1. PICK r \in mon[m].todo :
          /\ Exists(r.path) /\ UNCHANGED row
          /\ mon' = [mon EXCEPT ![m].pc = "import", ![m].r = r, ![m].src = r.path,
                                ![m].todo = @ \ {r}]
    BY <1>1
  <2>2. OthersStay(m) /\ mon'[m].pc = "import" /\ mon'[m].phase = "pending" /\ mon'[m].r = r
        /\ mon'[m].src = r.path /\ mon'[m].todo = mon[m].todo \ {r}
    BY <1>0, <2>1, ImportSet DEF Knows
  <2>3. LinkOk' /\ ReqOk' /\ Files'
    BY <1>0, <2>1, <2>2, ReadsKeep
  <2>4. r.item \in Item /\ (\A s \in mon[m].todo : s.item = r.item => s = r)
        /\ (Gone(r.item) \/ (row[r.item].status = "completed" /\ row[r.item].path = r.path))
    BY <1>0, Listed
  <2>5. ListOk(m)'
    BY <1>0, <2>1, <2>2, <2>4, RestOfList
  <2>6. ~Gone(r.item) => Whole(r.path)
    <3>1. ~Gone(r.item) => r.path \in File /\ content[r.path] # "partial"
      BY <2>4, Paths DEF IInv, Files, FileOk
    <3>2. r.path \in File => content[r.path] # "none"
      BY <2>1, Paths DEF Exists
    <3> QED BY <3>1, <3>2 DEF Whole, IInv, Types, DiskTypes
  <2>7. ImportOk(m)'
    BY <1>0, <2>1, <2>2, <2>4, <2>6 DEF ImportOk, Importing, Gone, Whole
  <2>8. (WriteOk(m) /\ RelinkOk(m))'
    BY <2>2 DEF WriteOk, RelinkOk
  <2> QED BY <1>0, <2>2, <2>3, <2>5, <2>7, <2>8, Assemble
<1>2. CASE \E r \in mon[m].todo :
             /\ ~Exists(r.path) /\ UpdateQueueItemStatus(r.item, "failed")
             /\ mon' = [mon EXCEPT ![m].todo = @ \ {r}]
  <2>1. PICK r \in mon[m].todo :
          /\ ~Exists(r.path) /\ UpdateQueueItemStatus(r.item, "failed")
          /\ mon' = [mon EXCEPT ![m].todo = @ \ {r}]
    BY <1>2
  <2>2. OthersStay(m) /\ mon'[m].pc = "next" /\ mon'[m].phase = "pending"
        /\ mon'[m].todo = mon[m].todo \ {r}
    BY <1>0, <2>1, DropSet DEF Knows
  <2>3. r.item \in Item /\ (\A s \in mon[m].todo : s.item = r.item => s = r)
        /\ (Gone(r.item) \/ (row[r.item].status = "completed" /\ row[r.item].path = r.path))
    BY <1>0, Listed
  <2>4. PICK i \in Item : i = r.item
    BY <2>3
  <2>5. /\ \A k \in Item \ {i} : row'[k] = row[k]
        /\ IF row[i].status = "completed" THEN row'[i].status = "failed" /\ row'[i].ext = row[i].ext
           ELSE row'[i] = row[i]
    <3>1. RowBecomes(i, "failed", row[i].ext, row[i].path)
      BY <1>0, <2>1, <2>4, StatusSet DEF Status
    <3> QED BY <2>3, <2>4, <3>1 DEF RowBecomes, InQueue, Gone
  <2>6. \A k \in Item : (Gone(k)' <=> Gone(k)) /\ (Quiet(k)' <=> Quiet(k))
    BY <1>0, <2>5 DEF Gone, Quiet, Live
  <2>7. \A k, e : (Requested(k, e)' <=> Requested(k, e)) /\ (Relinking(k, e)' <=> Relinking(k, e))
    BY <1>0, <2>2, HoldersStay
  <2>8. \A k \in Item : \A e : Held(k, e)' <=> Held(k, e)
    BY <2>5, <2>7 DEF Held, Fetching, Active
  <2>9. LinkOk'
    <3>1. \A k \in Item : row'[k].status = "unused" => row'[k].ext = 0
      BY <2>5 DEF IInv, Links, LinkOk
    <3>2. \A k \in Item : row'[k].ext \in {0, row[k].ext}
      BY <2>5
    <3> QED BY <1>0, <2>6, <2>8, <3>1, <3>2, LinksStay
  <2>10. ReqOk'
    <3>1. \A q \in req : q.item # i \/ row'[i] = row[i]
      BY <2>5, CompletedFree DEF Held, Requested
    <3> QED BY <1>0, <2>5, <3>1 DEF ReqOk, IInv, Links, Types, WorkTypes, ReqType
  <2>11. Files'
    <3>1. \A k \in Item : row'[k].status = "completed" => row'[k] = row[k]
      BY <2>5
    <3>2. \A k \in Item : row[k].status = "completed" =>
            row'[k] = row[k] \/ content[row[k].path] # "complete"
      <4>1. row[i].status = "completed" => content[row[i].path] # "complete"
        <5>1. row[i].status = "completed" => row[i].path = r.path /\ r.path \in File
          BY <2>3, <2>4, Paths DEF Gone, IInv, Files, FileOk
        <5> QED BY <2>1, <5>1 DEF Exists
      <4> QED BY <2>5, <4>1
    <3>3. \A k \in Item : row'[k].status = "completed" =>
            /\ row'[k].path \in FilesFor(k)
            /\ row[k].status = "completed" /\ row'[k].path = row[k].path
      BY <3>1 DEF IInv, Files, FileOk
    <3> QED BY <1>0, <2>6, <2>8, <3>2, <3>3, FilesStay
  <2>12. ListOk(m)'
    BY <1>0, <2>2, <2>3, <2>4, <2>5, RestOfList
  <2> QED BY <1>0, <2>2, <2>9, <2>10, <2>11, <2>12, AtNext, Assemble
<1> QED BY <1>1, <1>2 DEF MonStat

LEMMA PollKeeps ==
    ASSUME IInv, Calm, Calm', Types', NEW m \in Monitor, MonPoll(m)
    PROVE  IInv'
<1>0. MonitorStep(m) /\ Types /\ UNCHANGED <<row, content, writer, req, reports>>
      /\ mon[m].pc = "next" /\ mon[m].phase = "active"
  BY DEF MonitorStep, IInv, MonPoll, disk, requests, counts
<1>1. CASE \E r \in mon[m].todo :
             /\ r.ext \in InMap /\ UNCHANGED dl
             /\ mon' = [mon EXCEPT ![m].pc = "write", ![m].r = r, ![m].dl = r.ext,
                                   ![m].seen = StatusOf(r.ext), ![m].src = SavePathOf(r.ext),
                                   ![m].todo = @ \ {r}]
  <2>1. PICK r \in mon[m].todo :
          /\ r.ext \in InMap /\ UNCHANGED dl
          /\ mon' = [mon EXCEPT ![m].pc = "write", ![m].r = r, ![m].dl = r.ext,
                                ![m].seen = StatusOf(r.ext), ![m].src = SavePathOf(r.ext),
                                ![m].todo = @ \ {r}]
    BY <1>1
  <2>2. OthersStay(m) /\ mon'[m].pc = "write" /\ mon'[m].phase = "active" /\ mon'[m].r = r
        /\ mon'[m].dl = r.ext /\ mon'[m].seen = StatusOf(r.ext)
        /\ mon'[m].src = SavePathOf(r.ext) /\ mon'[m].todo = mon[m].todo \ {r}
    BY <1>0, <2>1, WriteSet DEF Knows
  <2>3. LinkOk' /\ ReqOk' /\ Files'
    BY <1>0, <2>1, <2>2, ReadsKeep
  <2>4. r.item \in Item /\ (\A s \in mon[m].todo : s.item = r.item => s = r)
        /\ (r.ext # 0 => dl[r.ext].item = r.item)
        /\ (Gone(r.item) \/ Fetching(r.item, r.ext))
    BY <1>0, Listed
  <2>5. ListOk(m)'
    BY <1>0, <2>1, <2>2, <2>4, RestOfList
  <2>6. WriteOk(m)'
    <3>1. r.ext \in Download /\ r.ext # 0
      BY <2>1, NoZero DEF InMap
    <3>2. StatusOf(r.ext) \in {"completed", "failed"} => dl[r.ext].state = StatusOf(r.ext)
      BY DEF StatusOf
    <3>3. SavePathOf(r.ext)' = SavePathOf(r.ext)
      BY <2>1 DEF SavePathOf
    <3>4. (Gone(r.item) \/ Fetching(r.item, r.ext))'
      BY <1>0, <2>4 DEF Gone, Fetching
    <3>5. SavePathOf(mon[m].dl)' = SavePathOf(r.ext)
      <4>1. mon'[m].dl = r.ext /\ dl' = dl
        BY <2>1, <2>2
      <4> QED BY <4>1 DEF SavePathOf
    <3>6. (Gone(mon[m].r.item) \/ Fetching(mon[m].r.item, mon[m].dl))'
      BY <2>2, <3>4 DEF Gone, Fetching
    <3> QED BY <2>1, <2>2, <2>4, <3>1, <3>2, <3>5, <3>6 DEF WriteOk
  <2>7. (RelinkOk(m) /\ ImportOk(m))'
    BY <2>2 DEF RelinkOk, ImportOk, Importing
  <2> QED BY <1>0, <2>2, <2>3, <2>5, <2>6, <2>7, Assemble
<1>2. CASE \E r \in mon[m].todo :
             /\ r.ext \notin InMap /\ InQueue(r.item)
             /\ \E d \in Download :
                  /\ Add(d, r.item, RootDir)
                  /\ mon' = [mon EXCEPT ![m].pc = "relink", ![m].r = r, ![m].dl = d,
                                        ![m].todo = @ \ {r}]
  <2>1. PICK r \in mon[m].todo, d \in Download :
          /\ r.ext \notin InMap /\ InQueue(r.item) /\ Add(d, r.item, RootDir)
          /\ mon' = [mon EXCEPT ![m].pc = "relink", ![m].r = r, ![m].dl = d,
                                ![m].todo = @ \ {r}]
    BY <1>2
  <2>2. OthersStay(m) /\ mon'[m].pc = "relink" /\ mon'[m].phase = "active" /\ mon'[m].r = r
        /\ mon'[m].dl = d /\ mon'[m].todo = mon[m].todo \ {r}
    BY ZenonT(30), <1>0, <2>1, RelinkSet DEF Knows
  <2>3. PICK i \in Item : i = r.item /\ (\A s \in mon[m].todo : s.item = i => s = r)
                          /\ ~Gone(i) /\ Fetching(i, r.ext)
    BY <1>0, <2>1, Listed DEF InQueue, Gone
  <2>4. Add(d, i, RootDir) /\ RootDir \in {RootDir, AuthorDir}
    BY <2>1, <2>3
  <2>5. /\ dl[d].state = "unused" /\ dl'[d].item = i /\ dl'[d].state = "queued"
        /\ \A e \in Download \ {d} : dl'[e] = dl[e]
        /\ InMap' = InMap \cup {d}
    BY <2>4, Added
  <2>6. \A n \in Monitor : mon[n].pc # "relink"
    BY <1>0, <2>2, Alone
  <2>7. Quiet(i)
    <3> SUFFICES ASSUME NEW e \in Download, Live(e), dl[e].item = i PROVE FALSE
      BY DEF Quiet
    <3>1. e \in InMap /\ (Fetching(i, e) \/ Relinking(i, e))
      BY <2>3, Holder DEF Fetching
    <3> QED BY <2>1, <2>3, <2>6, <3>1 DEF Fetching, Relinking
  <2>8. /\ Relinking(i, d)'
        /\ \A k, e : Relinking(k, e)' => k = i /\ e = d
        /\ \A k, e : ~Relinking(k, e)
        /\ \A k, e : (Fetching(k, e)' <=> Fetching(k, e)) /\ (Requested(k, e)' <=> Requested(k, e))
    <3>1. Relinking(i, d)'
      BY <2>2, <2>3 DEF Relinking
    <3>2. \A k, e : Relinking(k, e)' => k = i /\ e = d
      BY <1>0, <2>2, <2>3, Alone DEF Relinking
    <3> QED BY <1>0, <2>6, <3>1, <3>2 DEF Relinking, Fetching, Requested
  <2>9. LinkOk'
    <3>1. Held(i, d)' /\ \A k \in Item, e \in Download : Held(k, e) => Held(k, e)'
      BY <2>8 DEF Held
    <3> QED BY <1>0, <2>4, <2>7, <3>1, AddLinks
  <2>10. ReqOk'
    <3>1. \A q \in req : q.dl \in Download \ {d} /\ dl'[q.dl] = dl[q.dl]
      BY <2>5 DEF IInv, Types, WorkTypes, InMap
    <3> QED BY <1>0, <3>1 DEF ReqOk, IInv, Links
  <2>11. Files'
    <3>1. \A k \in Item, e \in InMap : Held(k, e)' => Held(k, e)
      BY <2>5, <2>8 DEF Held, InMap
    <3> QED BY <1>0, <2>3, <2>4, <3>1, AddFiles
  <2>12. ListOk(m)'
    BY <1>0, <2>2, <2>3, <2>5, RestOfList
  <2>13. RelinkOk(m)'
    <3>1. row[i].ext # d
      BY <2>5, NoZero DEF IInv, Links, LinkOk
    <3>2. row[i].status \in Active /\ row[i].ext = r.ext
      BY <2>3 DEF Fetching
    <3> QED BY <1>0, <2>1, <2>2, <2>3, <2>5, <3>1, <3>2 DEF RelinkOk, Gone
  <2>14. (WriteOk(m) /\ ImportOk(m))'
    BY <2>2 DEF WriteOk, ImportOk, Importing
  <2> QED BY <1>0, <2>2, <2>9, <2>10, <2>11, <2>12, <2>13, <2>14, Assemble
<1>3. CASE \E r \in mon[m].todo : UNCHANGED dl /\ mon' = [mon EXCEPT ![m].todo = @ \ {r}]
  <2>1. PICK r \in mon[m].todo : UNCHANGED dl /\ mon' = [mon EXCEPT ![m].todo = @ \ {r}]
    BY <1>3
  <2>2. OthersStay(m) /\ mon'[m].pc = "next" /\ mon'[m].phase = "active"
        /\ mon'[m].todo = mon[m].todo \ {r}
    BY <1>0, <2>1, DropSet DEF Knows
  <2>3. r.item \in Item /\ (\A s \in mon[m].todo : s.item = r.item => s = r)
    BY Listed
  <2>4. LinkOk' /\ ReqOk' /\ Files'
    BY <1>0, <2>1, <2>2, ReadsKeep
  <2>5. ListOk(m)'
    BY <1>0, <2>1, <2>2, <2>3, RestOfList
  <2> QED BY <1>0, <2>2, <2>4, <2>5, AtNext, Assemble
<1> QED BY <1>1, <1>2, <1>3 DEF MonPoll

\* The item a monitor is at work on, and the rest of its list.
LEMMA AtWork ==
    ASSUME IInv, NEW m \in Monitor, mon[m].pc \notin {"idle", "next"}
    PROVE  /\ mon[m].r \in Read /\ mon[m].r.item \in Item
           /\ \A r \in mon[m].todo : r.item # mon[m].r.item
           /\ ListOk(m) /\ WriteOk(m) /\ RelinkOk(m) /\ ImportOk(m)
  BY DEF IInv, Types, WorkTypes, Read, Links, MonOk, ListOk

LEMMA RelinkKeeps ==
    ASSUME IInv, Calm, Calm', Types', NEW m \in Monitor, MonRelink(m)
    PROVE  IInv'
<1>0. MonitorStep(m) /\ Types /\ UNCHANGED <<content, writer, dl, req, reports>>
      /\ mon[m].pc = "relink" /\ mon' = ToNext(m) /\ Relink(mon[m].r.item, mon[m].dl)
  BY DEF MonitorStep, IInv, MonRelink, disk, requests, counts
<1>1. OthersStay(m) /\ mon'[m].pc = "next" /\ mon'[m].phase = mon[m].phase
      /\ mon'[m].todo = mon[m].todo
  BY <1>0, NextSet DEF Knows
<1>2. PICK i \in Item, d \in Download : i = mon[m].r.item /\ d = mon[m].dl
  BY <1>0, AtWork DEF Types, WorkTypes
<1>3. /\ dl[d].item = i /\ dl[d].state # "unused"
      /\ Gone(i) \/ (row[i].status \in Active /\ row[i].ext \notin InMap)
      /\ \A r \in mon[m].todo : r.item # i
  BY <1>0, <1>2, AtWork DEF RelinkOk, InMap
<1>4. /\ \A k \in Item \ {i} : row'[k] = row[k]
      /\ IF Gone(i) THEN row'[i] = row[i]
         ELSE row'[i].status = "queued" /\ row'[i].ext = d /\ row[i].status \in Active
  <2>1. RowBecomes(i, "queued", d, row[i].path)
    BY <1>0, <1>2, IdSet
  <2> QED BY <1>3, <2>1 DEF RowBecomes, InQueue, Gone, Active
<1>5. \A k \in Item : (Gone(k)' <=> Gone(k)) /\ (Quiet(k)' <=> Quiet(k))
  BY <1>0, <1>4 DEF Gone, Quiet, Live, Active
<1>6. /\ \A k, e : Relinking(k, e) <=> k = i /\ e = d
      /\ \A k, e : ~Relinking(k, e)' /\ (Requested(k, e)' <=> Requested(k, e))
  BY <1>0, <1>1, <1>2, Alone DEF Relinking, Requested
<1>7. ~Gone(i) => \A e : ~Requested(i, e)
  BY <1>4 DEF Requested, Active, IInv, Links, ReqOk, Gone, Types, WorkTypes, ReqType
<1>8. \A k \in Item, e \in Download :
        /\ Live(e) /\ Held(k, e) => Held(k, e)' \/ Gone(k)'
        /\ dl[e].state = "completed" /\ Held(k, e)' /\ ~Gone(k)' => Held(k, e) /\ ~Gone(k)
  <2>1. ASSUME NEW k \in Item \ {i} PROVE \A e \in Download : Held(k, e)' <=> Held(k, e)
    BY <1>4, <1>6 DEF Held, Fetching
  <2>2. ~Gone(i) => \A e \in Download : Held(i, e)' <=> e = d
    BY <1>4, <1>6, <1>7 DEF Held, Fetching, Active
  <2>3. ~Gone(i) => \A e \in Download : Live(e) /\ Held(i, e) => e = d
    BY <1>3, <1>6, <1>7 DEF Held, Fetching, Live, InMap
  <2>4. Held(i, d)
    BY <1>6 DEF Held
  <2> QED BY <1>5, <2>1, <2>2, <2>3, <2>4
<1>9. LinkOk'
  <2>1. \A k \in Item : row'[k].status = "unused" => row'[k].ext = 0
    BY <1>4 DEF IInv, Links, LinkOk
  <2>2. \A k \in Item : \/ row'[k].ext \in {0, row[k].ext}
                        \/ dl[row'[k].ext].state # "unused" /\ dl[row'[k].ext].item = k
    BY <1>3, <1>4
  <2> QED BY <1>0, <1>5, <1>8, <2>1, <2>2, LinksStay
<1>10. ReqOk'
  <2>1. \A q \in req : q.item # i \/ row'[i] = row[i]
    BY <1>4, <1>7 DEF Requested
  <2> QED BY <1>0, <1>4, <2>1 DEF ReqOk, IInv, Links, Types, WorkTypes, ReqType
<1>11. Files'
  <2>1. \A k \in Item : row[k].status = "completed" \/ row'[k].status = "completed" =>
          row'[k] = row[k]
    BY <1>4 DEF Active
  <2>2. \A k \in Item : row'[k].status = "completed" =>
          /\ row'[k].path \in FilesFor(k)
          /\ row[k].status = "completed" /\ row'[k].path = row[k].path
    BY <2>1 DEF IInv, Files, FileOk
  <2> QED BY <1>0, <1>5, <1>8, <2>1, <2>2, FilesStay
<1>12. ListOk(m)'
  BY <1>0, <1>1, <1>3, <1>4, RestOfList
<1> QED BY <1>0, <1>1, <1>9, <1>10, <1>11, <1>12, AtNext, Assemble

LEMMA WriteKeeps ==
    ASSUME IInv, Calm, Calm', Types', NEW m \in Monitor, MonWrite(m)
    PROVE  IInv'
<1>0. MonitorStep(m) /\ Types /\ UNCHANGED <<content, writer, dl, req, reports>>
      /\ mon[m].pc = "write"
  BY DEF MonitorStep, IInv, MonWrite, disk, requests, counts
<1>1. PICK p \in {mon[m].src, SavePathOf(mon[m].dl)} :
        /\ UpdateQueueItemStatusWithPath(mon[m].r.item, mon[m].seen, p)
        /\ mon' = IF mon[m].seen = "completed"
                  THEN [mon EXCEPT ![m].pc = "import", ![m].src = p] ELSE ToNext(m)
  BY DEF MonWrite
<1>2. PICK i \in Item, d \in Download, s \in Seen \ {"none"} :
        i = mon[m].r.item /\ d = mon[m].dl /\ s = mon[m].seen
  BY <1>0, AtWork, CmdType DEF Types, WorkTypes, InMap, Command
<1>3. /\ dl[d].item = i /\ d \in InMap
      /\ Gone(i) \/ Fetching(i, d)
      /\ s = "completed" => dl[d].state = "completed" /\ p = SavePathOf(d)
      /\ s = "failed" => dl[d].state = "failed"
      /\ \A r \in mon[m].todo : r.item # i
  BY <1>0, <1>1, <1>2, AtWork DEF WriteOk, Types, WorkTypes
<1>4. p \in Path
  BY <1>0, <1>2, <1>3, SavePaths, CmdType DEF Command, InMap
<1>5. /\ \A k \in Item \ {i} : row'[k] = row[k]
      /\ IF Gone(i) THEN row'[i] = row[i]
         ELSE /\ row'[i].status = s /\ row'[i].ext = d /\ row'[i].path = p
              /\ row[i].status \in Active /\ row[i].ext = d
  <2>1. s \in Status
    BY DEF Seen, Status
  <2>2. RowBecomes(i, s, row[i].ext, p)
    BY <1>0, <1>1, <1>2, <1>4, <2>1, PathSet
  <2> QED BY <1>3, <2>2 DEF RowBecomes, InQueue, Gone, Fetching, Active
<1>6. /\ OthersStay(m) /\ mon'[m].pc \in {"import", "next"} /\ mon'[m].phase = mon[m].phase
      /\ mon'[m].todo = mon[m].todo
      /\ mon'[m].pc = "import" => s = "completed" /\ mon'[m].src = p /\ mon'[m].r = mon[m].r
  <2>1. CASE s = "completed"
    <3>1. mon' = [mon EXCEPT ![m].pc = "import", ![m].src = p] /\ "import" \in MonPC
      BY <1>1, <1>2, <2>1 DEF MonPC
    <3> QED BY ZenonT(30), <1>0, <1>4, <2>1, <3>1, SourceSet DEF Knows
  <2>2. CASE s # "completed"
    BY <1>0, <1>1, <1>2, <2>2, NextSet DEF Knows
  <2> QED BY <2>1, <2>2
<1>7. \A k \in Item : (Gone(k)' <=> Gone(k)) /\ (Quiet(k)' <=> Quiet(k))
  <2>1. s # "gone"
    BY DEF Seen
  <2> QED BY <1>0, <1>5, <2>1 DEF Gone, Quiet, Live, Active
<1>8. \A k, e : (Requested(k, e)' <=> Requested(k, e)) /\ (Relinking(k, e)' <=> Relinking(k, e))
  BY <1>0, <1>6, HoldersStay
<1>9. \A k \in Item, e \in Download :
        /\ Live(e) /\ Held(k, e) => Held(k, e)' \/ Gone(k)'
        /\ dl[e].state = "completed" /\ Held(k, e)' /\ ~Gone(k)' => Held(k, e) /\ ~Gone(k)
  <2>1. ASSUME NEW k \in Item \ {i} PROVE \A e \in Download : Held(k, e)' <=> Held(k, e)
    BY <1>5, <1>8 DEF Held, Fetching
  <2>2. ~Gone(i) => \A e \in Download : Fetching(i, e)' => Fetching(i, e)
    BY <1>5 DEF Fetching
  <2>3. ~Gone(i) => \A e \in Download : Live(e) /\ Fetching(i, e) => Fetching(i, e)'
    BY <1>3, <1>5 DEF Fetching, Live, Active, Seen
  <2> QED BY <1>7, <1>8, <2>1, <2>2, <2>3 DEF Held
<1>10. LinkOk'
  <2>1. \A k \in Item : row'[k].status = "unused" => row'[k].ext = 0
    BY <1>5 DEF IInv, Links, LinkOk, Seen
  <2>2. \A k \in Item : row'[k].ext \in {0, row[k].ext}
    BY <1>5
  <2> QED BY <1>0, <1>7, <1>9, <2>1, <2>2, LinksStay
<1>11. ReqOk'
  <2>1. ~Gone(i) => \A e : ~Requested(i, e)
    BY <1>5 DEF Requested, Active, IInv, Links, ReqOk, Gone, Types, WorkTypes, ReqType
  <2>2. \A q \in req : q.item # i \/ row'[i] = row[i]
    BY <1>5, <2>1 DEF Requested
  <2> QED BY <1>0, <1>5, <2>2 DEF ReqOk, IInv, Links, Types, WorkTypes, ReqType
<1>12. s = "completed" /\ ~Gone(i) => p \in FilesFor(i) /\ Whole(p)
  <2>1. s = "completed" => p \in FilesFor(i)
    BY <1>0, <1>3, SavePaths DEF InMap, IInv, Files, FileOk
  <2>2. ~Gone(i) => Held(i, d)
    BY <1>3 DEF Held
  <2> QED BY <1>3, <2>1, <2>2 DEF IInv, Files, FileOk
<1>13. Files'
  <2>1. \A k \in Item : row[k].status = "completed" => row'[k] = row[k]
    BY <1>5 DEF Active
  <2>2. \A k \in Item : row'[k].status = "completed" =>
          /\ row'[k].path \in FilesFor(k)
          /\ \/ row[k].status = "completed" /\ row'[k].path = row[k].path
             \/ Whole(row'[k].path)
    BY <1>5, <1>12 DEF IInv, Files, FileOk, Gone
  <2> QED BY <1>0, <1>7, <1>9, <2>1, <2>2, FilesStay
<1>14. ListOk(m)'
  BY <1>0, <1>2, <1>3, <1>5, <1>6, RestOfList
<1>15. ImportOk(m)'
  <2>1. CASE mon'[m].pc = "import"
    BY <1>0, <1>2, <1>5, <1>6, <1>7, <1>12, <2>1 DEF ImportOk, Importing, Whole, Gone
  <2>2. CASE mon'[m].pc = "next"
    BY <2>2, AtNext
  <2> QED BY <1>6, <2>1, <2>2
<1>16. (WriteOk(m) /\ RelinkOk(m))'
  BY <1>6 DEF WriteOk, RelinkOk
<1> QED BY <1>0, <1>6, <1>10, <1>11, <1>13, <1>14, <1>15, <1>16, Assemble

LEMMA ImportKeeps ==
    ASSUME IInv, Calm, Calm', Types', NEW m \in Monitor, MonImport(m)
    PROVE  IInv'
<1>0. MonitorStep(m) /\ Types /\ UNCHANGED <<row, content, writer, dl, req, reports>>
      /\ mon[m].pc = "import"
  BY DEF MonitorStep, IInv, MonImport, disk, requests, counts
<1>1. PICK i \in Item : i = mon[m].r.item
  BY <1>0, AtWork
<1>2. /\ OthersStay(m) /\ mon'[m].phase = mon[m].phase /\ mon'[m].todo = mon[m].todo
      /\ \/ mon'[m].pc = "next"
         \/ /\ InQueue(i) /\ mon'[m].r = mon[m].r /\ mon'[m].src = mon[m].src
            /\ mon'[m].pc = IF mon[m].src = Target(m) THEN "register" ELSE "copy"
  <2>1. CASE mon' = ToNext(m)
    BY <1>0, <2>1, NextSet DEF Knows
  <2>2. CASE InQueue(mon[m].r.item) /\ mon' = [mon EXCEPT ![m].pc =
               IF mon[m].src = Target(m) THEN "register" ELSE "copy"]
    <3>1. (IF mon[m].src = Target(m) THEN "register" ELSE "copy") \in MonPC
      BY DEF MonPC
    <3> QED BY <1>0, <1>1, <2>2, <3>1, StepSet DEF Knows
  <2> QED BY <2>1, <2>2 DEF MonImport
<1>3. LinkOk' /\ ReqOk' /\ Files'
  BY <1>0, <1>2, ReadsKeep
<1>4. \A r \in mon[m].todo : r.item # i
  BY <1>0, <1>1, AtWork
<1>5. ListOk(m)'
  BY <1>0, <1>1, <1>2, <1>4, RestOfList
<1>6. CASE mon'[m].pc = "next"
  BY <1>0, <1>2, <1>3, <1>5, <1>6, AtNext, Assemble
<1>7. CASE mon'[m].pc # "next"
  <2>1. row[i].status = "completed" /\ row[i].path = mon[m].src /\ Whole(mon[m].src)
    BY <1>0, <1>1, <1>2, <1>7, AtWork DEF ImportOk, InQueue, Gone
  <2>2. mon[m].src \in FilesFor(i) /\ Quiet(i)
    BY <2>1, CompletedQuiet DEF IInv, Files, FileOk
  <2>3. Target(m)' = Target(m)
    BY <1>2, <1>7 DEF Target, BookFor
  <2>4. Quiet(mon[m].r.item)' /\ Whole(mon[m].src)'
    BY <1>0, <1>1, <1>2, <1>7, <2>1, <2>2 DEF Quiet, Live, Whole
  <2>5. ImportOk(m)'
    BY <1>0, <1>1, <1>2, <1>7, <2>1, <2>2, <2>3, <2>4 DEF ImportOk, Importing, Whole
  <2>6. (WriteOk(m) /\ RelinkOk(m))'
    BY <1>2, <1>7 DEF WriteOk, RelinkOk
  <2> QED BY <1>0, <1>2, <1>3, <1>5, <2>5, <2>6, Assemble
<1> QED BY <1>6, <1>7

\* The item, the file and the target of an import that is copying or about to
\* finish: whoever is at work on the row has it to himself.
LEMMA AtImport ==
    ASSUME IInv, NEW m \in Monitor, Importing(m)
    PROVE  /\ mon[m].r.item \in Item /\ mon[m].src \in FilesFor(mon[m].r.item)
           /\ mon[m].src \in File /\ Target(m) \in File
           /\ Target(m) = Dest(BookOf[mon[m].r.item])
           /\ Quiet(mon[m].r.item) /\ Whole(mon[m].src)
           /\ Gone(mon[m].r.item) \/ (/\ row[mon[m].r.item].status = "completed"
                                      /\ row[mon[m].r.item].path = mon[m].src)
           /\ \A r \in mon[m].todo : r.item # mon[m].r.item
<1>1. mon[m].r.item \in Item /\ ImportOk(m)
  BY AtWork DEF Importing
<1>2. mon[m].src \in FilesFor(mon[m].r.item)
  BY <1>1 DEF ImportOk
<1> QED BY <1>1, <1>2, AtWork, Paths, NoZero DEF ImportOk, Importing, Target, BookFor

LEMMA OpenKeeps ==
    ASSUME IInv, Calm, Calm', OwnFile, Types', NEW m \in Monitor, MonOpen(m)
    PROVE  IInv'
<1>0. MonitorStep(m) /\ Types /\ UNCHANGED <<row, dl, req, reports>> /\ mon[m].pc = "copy"
      /\ Importing(m) /\ ImportOk(m)
  BY AtWork DEF MonitorStep, IInv, MonOpen, disk, requests, counts, Importing
<1>1. PICK i \in Item, s \in File, t \in File :
        /\ i = mon[m].r.item /\ s = mon[m].src /\ t = Target(m) /\ t = Dest(BookOf[i])
        /\ s \in FilesFor(i) /\ s # t /\ Quiet(i) /\ Whole(s)
        /\ Gone(i) \/ (row[i].status = "completed" /\ row[i].path = s)
        /\ \A r \in mon[m].todo : r.item # i
  BY <1>0, AtImport DEF ImportOk
<1>2. CASE mon' = ToNext(m) /\ UNCHANGED <<content, writer>>
  <2>1. OthersStay(m) /\ mon'[m].pc = "next" /\ mon'[m].phase = mon[m].phase
        /\ mon'[m].todo = mon[m].todo
    BY <1>0, <1>2, NextSet DEF Knows
  <2>2. LinkOk' /\ ReqOk' /\ Files'
    BY <1>0, <1>2, <2>1, ReadsKeep
  <2>3. ListOk(m)'
    BY <1>0, <1>1, <2>1, RestOfList
  <2> QED BY <1>0, <2>1, <2>2, <2>3, AtNext, Assemble
<1>3. CASE /\ Exists(mon[m].src) /\ content' = [content EXCEPT ![Target(m)] = "partial"]
           /\ writer' = [writer EXCEPT ![Target(m)] = m]
           /\ mon' = [mon EXCEPT ![m].pc = "copying", ![m].ok = content[mon[m].src] = "complete"]
  <2>1. content[s] = "complete"
    BY <1>1, <1>3, Paths DEF Exists, Whole
  <2>2. OthersStay(m) /\ mon'[m].pc = "copying" /\ mon'[m].phase = mon[m].phase
        /\ mon'[m].todo = mon[m].todo /\ mon'[m].r = mon[m].r /\ mon'[m].src = s /\ mon'[m].ok = TRUE
    <3>1. "copying" \in MonPC /\ (content[mon[m].src] = "complete") \in BOOLEAN
          /\ (content[mon[m].src] = "complete") = TRUE
      BY <1>1, <2>1 DEF MonPC
    <3>2. mon' = [mon EXCEPT ![m].pc = "copying", ![m].ok = TRUE]
      BY <1>3, <3>1
    <3> QED BY <1>0, <1>1, <3>1, <3>2, OpenSet DEF Knows
  <2>3. /\ \A p \in File : p # t => content'[p] = content[p] /\ writer'[p] = writer[p]
        /\ writer'[t] = m
    BY <1>0, <1>1, <1>3 DEF Types, DiskTypes
  <2>4. \A k, e : Held(k, e)' <=> Held(k, e)
    BY <1>0, <2>2, HoldersStay DEF Held, Fetching
  <2>5. Covered(BookOf[i])'
    <3>1. Quiet(i)' /\ (Gone(i)' <=> Gone(i))
      BY <1>0, <1>1 DEF Quiet, Live, Gone
    <3>2. content'[s] = "complete"
      BY <1>1, <2>1, <2>3
    <3> QED BY <1>0, <1>1, <3>1, <3>2 DEF Covered, Settled
  <2>6. LinkOk' /\ ReqOk' /\ Files'
    <3>1. row[i].status = "completed" => row[i].path # t
      BY <1>1 DEF Gone
    <3> QED BY <1>0, <1>1, <2>3, <2>4, <2>5, <3>1, FileSwap
  <2>7. ListOk(m)'
    BY <1>0, <1>1, <2>2, RestOfList
  <2>8. ImportOk(m)'
    <3>1. Target(m)' = t
      BY <1>1, <2>2 DEF Target, BookFor
    <3>2. Quiet(mon[m].r.item)'
      BY <1>0, <1>1, <2>2 DEF Quiet, Live
    <3>3. Whole(mon[m].src)'
      BY <1>1, <2>1, <2>2, <2>3 DEF Whole
    <3>4. (Gone(mon[m].r.item) \/ (row[mon[m].r.item].status = "completed" /\ row[mon[m].r.item].path = mon[m].src))'
      BY <1>0, <1>1, <2>2 DEF Gone
    <3> QED BY <1>1, <2>2, <2>3, <3>1, <3>2, <3>3, <3>4 DEF ImportOk, Importing
  <2>9. (WriteOk(m) /\ RelinkOk(m))'
    BY <2>2 DEF WriteOk, RelinkOk
  <2> QED BY <1>0, <2>2, <2>6, <2>7, <2>8, <2>9, Assemble
<1> QED BY <1>1, <1>2, <1>3 DEF MonOpen

LEMMA CopyKeeps ==
    ASSUME IInv, Calm, Calm', OwnFile, Types', NEW m \in Monitor, MonCopy(m)
    PROVE  IInv'
<1>0. MonitorStep(m) /\ Types /\ UNCHANGED <<row, dl, req, writer, reports>> /\ mon[m].pc = "copying"
      /\ Importing(m) /\ ImportOk(m)
  BY AtWork DEF MonitorStep, IInv, MonCopy, disk, requests, counts, Importing
<1>1. PICK i \in Item, s \in File, t \in File :
        /\ i = mon[m].r.item /\ s = mon[m].src /\ t = Target(m) /\ t = Dest(BookOf[i])
        /\ s \in FilesFor(i) /\ s # t /\ Quiet(i) /\ Whole(s)
        /\ Gone(i) \/ (row[i].status = "completed" /\ row[i].path = s)
        /\ \A r \in mon[m].todo : r.item # i
        /\ mon[m].ok /\ (writer[t] = m \/ content[t] = "none")
  BY <1>0, AtImport DEF ImportOk
<1>2. CASE mon' = ToNext(m) /\ UNCHANGED content
  <2>1. OthersStay(m) /\ mon'[m].pc = "next" /\ mon'[m].phase = mon[m].phase
        /\ mon'[m].todo = mon[m].todo
    BY <1>0, <1>2, NextSet DEF Knows
  <2>2. LinkOk' /\ ReqOk' /\ Files'
    BY <1>0, <1>2, <2>1, ReadsKeep
  <2>3. ListOk(m)'
    BY <1>0, <1>1, <2>1, RestOfList
  <2> QED BY <1>0, <2>1, <2>2, <2>3, AtNext, Assemble
<1>3. CASE /\ content' = [content EXCEPT ![Target(m)] =
                IF writer[Target(m)] = m /\ mon[m].ok /\ content[mon[m].src] # "partial"
                THEN "complete" ELSE @]
           /\ mon' = [mon EXCEPT ![m].pc = "register"]
  <2>1. OthersStay(m) /\ mon'[m].pc = "register" /\ mon'[m].phase = mon[m].phase
        /\ mon'[m].todo = mon[m].todo /\ mon'[m].r = mon[m].r /\ mon'[m].src = s
    <3>1. "register" \in MonPC
      BY DEF MonPC
    <3> QED BY <1>0, <1>1, <1>3, <3>1, StepSet DEF Knows
  <2>2. /\ \A p \in File : p # t => content'[p] = content[p]
        /\ content'[t] = "complete" \/ (content'[t] = "none" /\ content[t] = "none")
    BY <1>0, <1>1, <1>3 DEF Types, DiskTypes, Whole
  <2>3. \A k, e : Held(k, e)' <=> Held(k, e)
    BY <1>0, <2>1, HoldersStay DEF Held, Fetching
  <2>4. reports = 0 => Covered(BookOf[i])'
    <3>1. Quiet(i)' /\ (Gone(i)' <=> Gone(i))
      BY <1>0, <1>1 DEF Quiet, Live, Gone
    <3>2. reports = 0 => content'[s] = "complete"
      BY SMTT(30), <1>0, <1>1, <2>2 DEF Whole, Types
    <3> QED BY <1>0, <1>1, <3>1, <3>2 DEF Covered, Settled
  <2>5. LinkOk' /\ ReqOk' /\ Files'
    BY <1>0, <1>1, <2>2, <2>3, <2>4, FileSwap
  <2>6. ListOk(m)'
    BY <1>0, <1>1, <2>1, RestOfList
  <2>7. ImportOk(m)'
    <3>1. Target(m)' = t
      BY <1>1, <2>1 DEF Target, BookFor
    <3>2. Quiet(mon[m].r.item)'
      BY <1>0, <1>1, <2>1 DEF Quiet, Live
    <3>3. Whole(mon[m].src)'
      BY <1>0, <1>1, <2>1, <2>2 DEF Whole
    <3>4. (Gone(mon[m].r.item) \/ (row[mon[m].r.item].status = "completed" /\ row[mon[m].r.item].path = mon[m].src))'
      BY <1>0, <1>1, <2>1 DEF Gone
    <3> QED BY <1>1, <2>1, <2>2, <3>1, <3>2, <3>3, <3>4 DEF ImportOk, Importing
  <2>8. (WriteOk(m) /\ RelinkOk(m))'
    BY <2>1 DEF WriteOk, RelinkOk
  <2> QED BY <1>0, <2>1, <2>5, <2>6, <2>7, <2>8, Assemble
<1> QED BY <1>2, <1>3 DEF MonCopy

LEMMA RegisterKeeps ==
    ASSUME IInv, Calm, Calm', Types', NEW m \in Monitor, MonRegister(m)
    PROVE  IInv'
<1>0. MonitorStep(m) /\ Types /\ UNCHANGED <<row, content, writer, dl, req, reports>>
      /\ mon[m].pc = "register" /\ Importing(m) /\ ImportOk(m)
  BY AtWork DEF MonitorStep, IInv, MonRegister, disk, requests, counts, Importing
<1>1. PICK i \in Item : i = mon[m].r.item /\ (\A r \in mon[m].todo : r.item # i)
  BY <1>0, AtWork
<1>2. /\ OthersStay(m) /\ mon'[m].phase = mon[m].phase /\ mon'[m].todo = mon[m].todo
      /\ \/ mon'[m].pc = "next"
         \/ /\ Exists(Target(m)) /\ mon'[m].r = mon[m].r /\ mon'[m].src = mon[m].src
            /\ mon'[m].pc = "finish"
  <2>1. CASE mon' = ToNext(m)
    BY <1>0, <2>1, NextSet DEF Knows
  <2>2. CASE Exists(Target(m)) /\ mon' = [mon EXCEPT ![m].pc = "finish"]
    <3>1. "finish" \in MonPC
      BY DEF MonPC
    <3> QED BY <1>0, <2>2, <3>1, StepSet DEF Knows
  <2> QED BY <2>1, <2>2 DEF MonRegister
<1>3. LinkOk' /\ ReqOk' /\ Files'
  BY <1>0, <1>2, ReadsKeep
<1>4. ListOk(m)'
  BY <1>0, <1>1, <1>2, RestOfList
<1>5. CASE mon'[m].pc = "next"
  BY <1>0, <1>2, <1>3, <1>4, <1>5, AtNext, Assemble
<1>6. CASE mon'[m].pc # "next"
  <2>1. Target(m) \in File /\ content[Target(m)] = "complete"
    BY <1>0, <1>2, <1>6, AtImport, Paths DEF ImportOk, Exists, Types, DiskTypes
  <2>2. Target(m)' = Target(m) /\ (Quiet(mon[m].r.item)' <=> Quiet(mon[m].r.item))
    BY <1>0, <1>2, <1>6 DEF Target, BookFor, Quiet, Live
  <2>3. Whole(Target(m))' /\ (Whole(mon[m].src)' <=> Whole(mon[m].src))
        /\ (Gone(mon[m].r.item)' <=> Gone(mon[m].r.item))
    BY <1>0, <1>2, <1>6, <2>1, <2>2 DEF Whole, Gone
  <2>4. ImportOk(m)'
    BY <1>0, <1>2, <1>6, <2>2, <2>3 DEF ImportOk, Importing
  <2>5. (WriteOk(m) /\ RelinkOk(m))'
    BY <1>2, <1>6 DEF WriteOk, RelinkOk
  <2> QED BY <1>0, <1>2, <1>3, <1>4, <2>4, <2>5, Assemble
<1> QED BY <1>5, <1>6

\* The row is completed already, or gone.
LEMMA CompleteKeeps ==
    ASSUME IInv, Calm, Calm', Types', NEW m \in Monitor, MonComplete(m)
    PROVE  IInv'
<1>0. MonitorStep(m) /\ Types /\ UNCHANGED <<content, writer, dl, req, reports>>
      /\ mon[m].pc = "finish" /\ Importing(m) /\ ImportOk(m)
      /\ mon' = [mon EXCEPT ![m].pc = "clean"]
      /\ UpdateQueueItemStatus(mon[m].r.item, "completed")
  BY AtWork DEF MonitorStep, IInv, MonComplete, disk, requests, counts, Importing
<1>1. PICK i \in Item :
        /\ i = mon[m].r.item
        /\ Gone(i) \/ row[i].status = "completed"
        /\ \A r \in mon[m].todo : r.item # i
  BY <1>0, AtImport
<1>2. OthersStay(m) /\ mon'[m].pc = "clean" /\ mon'[m].phase = mon[m].phase
      /\ mon'[m].todo = mon[m].todo /\ mon'[m].r = mon[m].r /\ mon'[m].src = mon[m].src
  <2>1. "clean" \in MonPC
    BY DEF MonPC
  <2> QED BY <1>0, <2>1, StepSet DEF Knows
<1>3. row' = row
  <2>1. row' = [row EXCEPT ![i].status = IF InQueue(i) THEN "completed" ELSE @]
    BY <1>0, <1>1 DEF UpdateQueueItemStatus
  <2>2. InQueue(i) => row[i].status = "completed"
    BY <1>1 DEF Gone, InQueue
  <2> QED BY <1>0, <2>1, <2>2 DEF Types, QueueRow
<1>4. ListOk(m)'
  BY <1>0, <1>1, <1>2, <1>3, RestOfList
<1>5. LinkOk' /\ ReqOk' /\ Files'
  BY <1>0, <1>2, <1>3, ReadsKeep
<1>6. ImportOk(m)'
  <2>1. Target(m)' = Target(m) /\ (Quiet(mon[m].r.item)' <=> Quiet(mon[m].r.item))
    BY <1>0, <1>2 DEF Target, BookFor, Quiet, Live
  <2>2. (Whole(Target(m))' <=> Whole(Target(m))) /\ (Whole(mon[m].src)' <=> Whole(mon[m].src))
        /\ (Gone(mon[m].r.item)' <=> Gone(mon[m].r.item))
    BY <1>0, <1>2, <1>3, <2>1 DEF Whole, Gone
  <2> QED BY <1>0, <1>2, <1>3, <2>1, <2>2 DEF ImportOk, Importing
<1>7. (WriteOk(m) /\ RelinkOk(m))'
  BY <1>2 DEF WriteOk, RelinkOk
<1> QED BY <1>0, <1>2, <1>4, <1>5, <1>6, <1>7, Assemble

\* The source goes: the library's own copy is whole.
LEMMA CleanKeeps ==
    ASSUME IInv, Calm, Calm', OwnFile, Types', NEW m \in Monitor, MonClean(m)
    PROVE  IInv'
<1>0. MonitorStep(m) /\ Types /\ UNCHANGED <<row, dl, req, reports>> /\ mon[m].pc = "clean"
      /\ Importing(m) /\ ImportOk(m) /\ mon' = ToNext(m)
  BY AtWork DEF MonitorStep, IInv, MonClean, requests, counts, Importing
<1>1. PICK i \in Item, s \in File, t \in File :
        /\ i = mon[m].r.item /\ s = mon[m].src /\ t = Target(m) /\ t = Dest(BookOf[i])
        /\ s \in FilesFor(i) /\ Quiet(i) /\ Whole(t)
        /\ Gone(i) \/ (row[i].status = "completed" /\ row[i].path = s)
        /\ \A r \in mon[m].todo : r.item # i
  BY <1>0, AtImport DEF ImportOk
<1>2. OthersStay(m) /\ mon'[m].pc = "next" /\ mon'[m].phase = mon[m].phase
      /\ mon'[m].todo = mon[m].todo
  BY <1>0, NextSet DEF Knows
<1>4. ListOk(m)'
  BY <1>0, <1>1, <1>2, RestOfList
<1>5. CASE s = t
  <2>1. UNCHANGED <<content, writer>>
    BY <1>1, <1>5 DEF MonClean, disk
  <2>2. LinkOk' /\ ReqOk' /\ Files'
    BY <1>0, <1>2, <2>1, ReadsKeep
  <2> QED BY <1>0, <1>2, <1>4, <2>2, AtNext, Assemble
<1>6. CASE s # t
  <2>1. /\ \A p \in File : p # s => content'[p] = content[p] /\ writer'[p] = writer[p]
        /\ content'[s] = "none"
    <3>1. /\ content' = [content EXCEPT ![s] = "none"]
          /\ writer' = [writer EXCEPT ![s] = 0]
      BY <1>1, <1>6 DEF MonClean
    <3> QED BY <1>0, <3>1 DEF Types, DiskTypes
  <2>2. \A k, e : Held(k, e)' <=> Held(k, e)
    BY <1>0, <1>2, HoldersStay DEF Held, Fetching
  <2>3. reports = 0 => Covered(BookOf[i])'
    BY SMTT(30), <1>0, <1>1, <1>6, <2>1 DEF Covered, Whole, Types
  <2>4. LinkOk' /\ ReqOk' /\ Files'
    BY <1>0, <1>1, <2>1, <2>2, <2>3, FileSwap
  <2> QED BY <1>0, <1>2, <1>4, <2>4, AtNext, Assemble
<1> QED BY <1>5, <1>6

-----------------------------------------------------------------------------
(* The invariant and what follows from it *)

LEMMA MonitorKeeps ==
    ASSUME IInv, Calm, Calm', OwnFile, Types', NEW m \in Monitor, MonitorStep(m)
    PROVE  IInv'
<1>1. CASE MonBegin(m) \/ MonActive(m) \/ MonEnd(m)
  BY <1>1, ListsKeep
<1>2. CASE MonStat(m)
  BY <1>2, StatKeeps
<1>3. CASE MonPoll(m)
  BY <1>3, PollKeeps
<1>4. CASE MonRelink(m)
  BY <1>4, RelinkKeeps
<1>5. CASE MonWrite(m)
  BY <1>5, WriteKeeps
<1>6. CASE MonImport(m)
  BY <1>6, ImportKeeps
<1>7. CASE MonOpen(m)
  BY <1>7, OpenKeeps
<1>8. CASE MonCopy(m)
  BY <1>8, CopyKeeps
<1>9. CASE MonRegister(m)
  BY <1>9, RegisterKeeps
<1>10. CASE MonComplete(m)
  BY <1>10, CompleteKeeps
<1>11. CASE MonClean(m)
  BY <1>11, CleanKeeps
<1> QED BY <1>1, <1>2, <1>3, <1>4, <1>5, <1>6, <1>7, <1>8, <1>9, <1>10, <1>11 DEF MonitorStep

LEMMA StepKeeps ==
    ASSUME IInv, Calm, Calm', OwnFile, [Next]_vars
    PROVE  IInv'
<1>0. Types'
  BY TypesKept DEF IInv
<1>1. CASE UNCHANGED vars
  BY <1>0, <1>1, Same DEF vars, disk, requests, counts
<1>2. CASE \E d \in Download : DownloadStep(d)
  BY <1>0, <1>2, DownloadKeeps
<1>3. CASE \E m \in Monitor : MonitorStep(m)
  BY <1>0, <1>3, MonitorKeeps
<1>4. CASE \E i \in Item : GrabAdd(i) \/ GrabFromIndexer(i) \/ RetryAdd(i) \/ RemoveFromQueue(i)
  BY <1>0, <1>4, RequestAddKeeps, RequestRowKeeps
<1>5. CASE \E i \in Item : PageRead(i)
  BY <1>5, NoZero DEF PageRead, Calm
<1>6. CASE Request
  <2>1. CASE \E q \in req : GrabRecord(q) \/ RetryRelink(q)
    BY <1>0, <2>1, RequestLinkKeeps
  <2>2. CASE \E r \in report : ReportUnlink(r)
    BY <1>0, <2>2, ReportKeeps
  <2>3. CASE \E r \in report : ReportDelete(r)
    BY <1>0, <2>3, Same DEF ReportDelete, disk, counts
  <2> QED BY <1>6, <2>1, <2>2, <2>3 DEF Request
<1>7. CASE PageWrite
  BY <1>7 DEF PageWrite, Calm
<1>8. CASE \E b \in Book : ReportRead(b)
  BY <1>0, <1>8, ReportReadKeeps
<1>9. CASE Scan
  <2>1. UNCHANGED <<row, content, writer, dl, mon, req, reports>>
    BY <1>9 DEF Scan, ScanBegin, ScanMeet, ScanMiss, addNewFile, removeFile, ScanEnd, disk,
                requests, counts
  <2> QED BY <1>0, <2>1, Same
<1>10. CASE Crash
  BY <1>0, <1>10, CrashKeeps
<1> QED BY <1>1, <1>2, <1>3, <1>4, <1>5, <1>6, <1>7, <1>8, <1>9, <1>10 DEF Next

\* What keeps a grab or an import from being disturbed from outside, in behaviours
\* that are calm: one monitor at a time, no status read by the queue page and
\* still to be written, and no retry of a row that has not failed or is being
\* retried already. RetryDownload does not see to the last.
THEOREM CalmInvariant ==
    ASSUME OwnFile
    PROVE  Spec /\ []Calm => []IInv
<1>1. Init => IInv
  BY FirstOk
<1>2. IInv /\ Calm /\ Calm' /\ [Next]_vars => IInv'
  BY StepKeeps
<1> QED BY <1>1, <1>2, PTL DEF Spec

LEMMA OneLive == IInv => OneDownloadPerItem
<1> SUFFICES ASSUME IInv, NEW i \in Item \ hasty PROVE Cardinality(LiveOf(i)) <= 1
  BY DEF OneDownloadPerItem
<1>1. \A d, e \in LiveOf(i) : d = e
  BY DEF IInv, Links, LinkOk, Live, LiveOf
<1>2. CASE LiveOf(i) = {}
  BY <1>2, FS_EmptySet
<1>3. CASE LiveOf(i) # {}
  <2>1. PICK d : LiveOf(i) = {d}
    BY <1>1, <1>3
  <2> QED BY <2>1, FS_Singleton
<1> QED BY <1>2, <1>3

\* No two goroutines fetch the same item: GrabRelease, RetryDownload and
\* restartDownload add a download only where none is queued or running, across
\* crashes, removals and every order of the requests' and the monitor's steps, in
\* calm behaviours (a hasty retry adds a second one).
THEOREM OneDownload ==
    ASSUME OwnFile
    PROVE  Spec /\ []Calm => []OneDownloadPerItem
  BY CalmInvariant, OneLive, PTL

\* Only the monitor whose step it is moves.
LEMMA WhoMoves ==
    ASSUME Types, NEW m \in Monitor, NEW n \in Monitor \ {m}, MonitorStep(n)
    PROVE  mon'[m] = mon[m]
<1>1. mon \in [Monitor -> Command]
  BY DEF Types, WorkTypes
<1> QED BY <1>1 DEF MonitorStep, MonBegin, MonActive, MonEnd, MonStat, MonPoll, MonRelink, MonWrite,
                    MonImport, MonOpen, MonCopy, MonRegister, MonComplete, MonClean, ToNext

LEMMA RegisteredIsWhole ==
    ASSUME IInv, [Next]_vars, NEW m \in Monitor, mon[m].pc = "register", mon'[m].pc = "finish"
    PROVE  content[Target(m)] = "complete"
<1>1. mon \in [Monitor -> Command]
  BY DEF IInv, Types, WorkTypes
<1>2. \E n \in Monitor : MonitorStep(n)
  <2>1. UNCHANGED vars => UNCHANGED mon
    BY DEF vars
  <2>2. Request \/ PageWrite \/ Scan => UNCHANGED mon
    BY DEF Request, GrabRecord, RetryRelink, ReportUnlink, ReportDelete, PageWrite, Scan,
           ScanBegin, ScanMeet, ScanMiss, addNewFile, removeFile, ScanEnd
  <2>3. (\E d \in Download : DownloadStep(d)) \/ (\E b \in Book : ReportRead(b)) => UNCHANGED mon
    BY DEF DownloadStep, ReportRead
  <2>4. ASSUME NEW i \in Item, GrabAdd(i) \/ GrabFromIndexer(i) \/ RetryAdd(i)
                              \/ RemoveFromQueue(i) \/ PageRead(i)
        PROVE  UNCHANGED mon
    BY <2>4 DEF GrabAdd, GrabFromIndexer, RetryAdd, RemoveFromQueue, PageRead
  <2>5. Crash => mon'[m].pc = "idle"
    BY DEF Crash, IdleMon
  <2> QED BY <2>1, <2>2, <2>3, <2>4, <2>5 DEF Next
<1>3. MonitorStep(m)
  BY <1>2, WhoMoves DEF IInv
<1>4. MonRegister(m)
  BY <1>3 DEF MonitorStep, MonBegin, MonActive, MonEnd, MonStat, MonPoll, MonRelink, MonWrite,
              MonImport, MonOpen, MonCopy, MonComplete, MonClean
<1>5. Exists(Target(m))
  BY <1>1, <1>4, NextSet DEF MonRegister, IInv, Knows
<1>6. content[Target(m)] # "partial"
  BY DEF IInv, Links, MonOk, ImportOk
<1>7. Target(m) \in File
  BY AtImport DEF Importing
<1> QED BY <1>5, <1>6, <1>7, Paths DEF Exists, IInv, Types, DiskTypes

\* MonitorStep's INSERT into book_files registers only what is whole: the stat
\* before it sees no file that a crash, a failed copy or a failed download left.
THEOREM ImportedWhole ==
    ASSUME OwnFile
    PROVE  Spec /\ []Calm => ImportsAreWhole
<1>1. IInv /\ [Next]_vars =>
        [\A m \in Monitor : mon[m].pc = "register" /\ mon'[m].pc = "finish" =>
            content[Target(m)] = "complete" \/ mon[m].r.item \in hasty]_vars
  BY RegisteredIsWhole
<1> QED BY <1>1, CalmInvariant, PTL DEF Spec, ImportsAreWhole

LEMMA WholeSomewhere == IInv /\ reports = 0 => CompletedBookIsOnDisk
<1> SUFFICES ASSUME IInv, reports = 0, NEW i \in Item, row[i].status = "completed"
             PROVE  \E p \in File : BookAt(p) = BookOf[i] /\ content[p] = "complete"
  BY DEF CompletedBookIsOnDisk
<1>1. Covered(BookOf[i])
  BY DEF IInv, Files, CoverOk
<1>2. CASE content[Dest(BookOf[i])] = "complete"
  <2>1. Dest(BookOf[i]) \in File /\ BookAt(Dest(BookOf[i])) = BookOf[i]
    BY NoZero, Paths DEF Dest, BookAt
  <2> QED BY <1>2, <2>1
<1>3. CASE \E k \in Item : BookOf[k] = BookOf[i] /\ Settled(k)
  <2>1. PICK k \in Item : BookOf[k] = BookOf[i] /\ Settled(k)
    BY <1>3
  <2>2. PICK p \in FilesFor(k) : content[p] = "complete"
    BY <2>1 DEF Settled
  <2>3. p \in File /\ BookAt(p) = BookOf[k]
    BY Paths DEF FilesFor, BookAt, Dest
  <2> QED BY <2>1, <2>2, <2>3
<1> QED BY <1>1, <1>2, <1>3 DEF Covered

\* "copy instead of move for safety": as long as nobody reports a file, a book
\* with a completed row has a whole file on disk, whatever crashed or failed.
THEOREM CompletedOnDisk ==
    ASSUME OwnFile
    PROVE  Spec /\ []Calm /\ [](reports = 0) => []CompletedBookIsOnDisk
  BY CalmInvariant, WholeSomewhere, PTL
================================================================================
