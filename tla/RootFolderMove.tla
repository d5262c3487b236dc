--------------------------- MODULE RootFolderMove ---------------------------
(***************************************************************************)
(* Moving a root folder (internal/core/rootfolder): the authors' folders   *)
(* are renamed or copied one after the other, then one transaction puts    *)
(* the new path in front of authors, book_files and the root folder.       *)
(* Nothing keeps scans, other moves or the death of the process out of the *)
(* time between the first folder and the transaction, and nothing undoes a *)
(* move that has failed half way: the user asks for it again.              *)
(***************************************************************************)
EXTENDS LibraryScanner

CONSTANTS
    Mover,          \* requests to move a root folder that may run side by side
    Target,         \* paths the user may move a root folder to
    Swap,           \* for names <<a, b, c>>: b with c in place of its prefix a
    MaxMoves, MaxEdits, MaxFaults, MaxCrashes

ASSUME MoveConstantsOK ==
    /\ Target \subseteq Seq(Name) \ {<<>>}
    /\ DOMAIN Swap \subseteq Name \X Name \X Name
    /\ \A x \in DOMAIN Swap : Swap[x] \in Name
    /\ {MaxMoves, MaxEdits, MaxFaults, MaxCrashes} \subseteq Nat

VARIABLES
    move,           \* the requests
    moves, edits, faults, crashes,
    \* history: contents nobody has asked to remove; whether the user has changed
    \* files, authors or root folders, or a scan met a move
    owned, meddled

moveVars == <<move, moves, edits, faults, crashes, owned, meddled>>
vars     == <<scanVars, moveVars>>

NoMove == [pc |-> "idle", id |-> 0, old |-> <<>>, new |-> <<>>, todo |-> {},
           cur |-> <<>>, left |-> {}, src |-> NoPlace, held |-> Absent]

Moving == {m \in Mover : move[m].pc \notin {"idle", "done"}}

MInit ==
    /\ Init
    /\ move = [m \in Mover |-> NoMove]
    /\ moves = 0 /\ edits = 0 /\ faults = 0 /\ crashes = 0
    /\ owned = {disk[p] : p \in {q \in Place : OnDisk(q)}}
    /\ meddled = FALSE

\* new || SUBSTR(path, len(old) + 1), for a path LIKE old%.
Rebase(path, old, new) ==
    LET n    == Len(old)
        name == IF path[n] = Last(old) THEN Last(new)
                ELSE Swap[<<Last(old), path[n], Last(new)>>]
    IN  Front(new) \o <<name>> \o SubSeq(path, n + 1, Len(path))

RebasePlace(p, old, new) ==
    LET path == Rebase(Full(p), old, new)
    IN  [dir |-> Front(path), base |-> Last(path)]

\* Where a file goes when the folder it is in, from, is moved to the folder to.
Moved(p, from, to) == [dir |-> to \o Within(from, p), base |-> p.base]

FilesUnder(dir) == {p \in Place : Under(dir, p) /\ OnDisk(p)}

Step(m, r) == move' = [move EXCEPT ![m] = r]

-----------------------------------------------------------------------------
(* MoveRootFolder *)

MoveBegin(m, r, new) ==
    /\ move[m].pc = "idle" /\ moves < MaxMoves
    /\ r.path # new
    /\ moves' = moves + 1
    /\ Step(m, [NoMove EXCEPT !.pc = "list", !.id = r.id, !.old = r.path, !.new = new])
    /\ meddled' = (meddled \/ Running # {} \/ Moving # {} \/ deleting # 0)
    /\ UNCHANGED <<scanVars, edits, faults, crashes, owned>>

\* SELECT id, path FROM authors WHERE path LIKE old%.
ListAuthors(m) ==
    LET r == move[m] IN
    /\ r.pc = "list"
    /\ Step(m, [r EXCEPT !.pc = "folders",
                         !.todo = {a.path : a \in {b \in author : Like(r.old, b.path)}}])
    /\ UNCHANGED <<scanVars, moves, edits, faults, crashes, owned, meddled>>

\* An author without a folder is left out; the transaction moves it all the same.
SkipFolder(m, dir) ==
    LET r == move[m] IN
    /\ r.pc = "folders" /\ dir \in r.todo /\ FilesUnder(dir) = {}
    /\ Step(m, [r EXCEPT !.todo = @ \ {dir}])
    /\ UNCHANGED <<scanVars, moves, edits, faults, crashes, owned, meddled>>

\* os.Rename succeeds when nothing is in the way.
RenameFolder(m, dir) ==
    LET r  == move[m]
        to == Rebase(dir, r.old, r.new)
        files == FilesUnder(dir)
    IN
    /\ r.pc = "folders" /\ dir \in r.todo /\ files # {} /\ FilesUnder(to) = {}
    /\ DiskBecomes([p \in Place |->
            IF p \in files THEN Absent
            ELSE IF \E q \in files : p = Moved(q, dir, to)
                 THEN disk[CHOOSE q \in files : p = Moved(q, dir, to)]
            ELSE disk[p]])
    /\ Step(m, [r EXCEPT !.todo = @ \ {dir}])
    /\ UNCHANGED <<tables, deleting, bounds, moves, edits, faults, crashes, owned, meddled>>

\* It fails across devices, and for a folder that is there with files in it.
CopyFolder(m, dir) ==
    LET r == move[m] IN
    /\ r.pc = "folders" /\ dir \in r.todo /\ FilesUnder(dir) # {}
    /\ Step(m, [r EXCEPT !.pc = "copy", !.cur = dir, !.left = FilesUnder(dir)])
    /\ UNCHANGED <<scanVars, moves, edits, faults, crashes, owned, meddled>>

Destination(r, p) == Moved(p, r.cur, Rebase(r.cur, r.old, r.new))

\* copyFile opens both files, the destination with O_TRUNC.  A source that has
\* gone ends the move.
OpenFile(m, p) ==
    LET r == move[m] IN
    /\ r.pc = "copy" /\ p \in r.left
    /\ IF OnDisk(p)
       THEN /\ DiskBecomes([disk EXCEPT ![Destination(r, p)] = Cut])
            /\ Step(m, [r EXCEPT !.pc = "bytes", !.src = p, !.held = disk[p]])
       ELSE /\ Step(m, NoMove)
            /\ UNCHANGED <<disk, scan, history>>
    /\ UNCHANGED <<tables, deleting, bounds, moves, edits, faults, crashes, owned, meddled>>

CopyFile(m) ==
    LET r == move[m] IN
    /\ r.pc = "bytes"
    /\ DiskBecomes([disk EXCEPT ![Destination(r, r.src)] = r.held])
    /\ Step(m, [r EXCEPT !.pc = "copy", !.left = @ \ {r.src}, !.src = NoPlace, !.held = Absent])
    /\ UNCHANGED <<tables, deleting, bounds, moves, edits, faults, crashes, owned, meddled>>

Fault == faults < MaxFaults /\ faults' = faults + 1

\* Mutant: the error of a copy is logged and the next file is copied.
CopyFails_warns(m) ==
    LET r == move[m] IN
    /\ r.pc = "bytes" /\ Fault
    /\ Step(m, [r EXCEPT !.pc = "copy", !.left = @ \ {r.src}, !.src = NoPlace, !.held = Absent])
    /\ UNCHANGED <<scanVars, moves, edits, crashes, owned, meddled>>

CopyFails(m) ==
    /\ move[m].pc = "bytes" /\ Fault
    /\ Step(m, NoMove)
    /\ UNCHANGED <<scanVars, moves, edits, crashes, owned, meddled>>

\* os.RemoveAll of the folder as it is now; an error is logged and leaves some
\* of the files.
RemoveOld(m) ==
    LET r == move[m] IN
    /\ r.pc = "copy" /\ r.left = {}
    /\ \E kept \in SUBSET FilesUnder(r.cur) :
        /\ \/ kept = {} /\ UNCHANGED faults
           \/ kept # {} /\ Fault
        /\ DiskBecomes([p \in Place |->
                IF p \in FilesUnder(r.cur) \ kept THEN Absent ELSE disk[p]])
    /\ Step(m, [r EXCEPT !.pc = "folders", !.todo = @ \ {r.cur}, !.cur = <<>>])
    /\ UNCHANGED <<tables, deleting, bounds, moves, edits, crashes, owned, meddled>>

NewAuthors(r) ==
    {IF Like(r.old, a.path) THEN [a EXCEPT !.path = Rebase(a.path, r.old, r.new)] ELSE a :
        a \in author}
NewFiles(r) ==
    {IF Like(r.old, Full(f.place)) THEN [f EXCEPT !.place = RebasePlace(f.place, r.old, r.new)]
     ELSE f : f \in file}

\* The UNIQUE columns: no two files and no two root folders in one place.
NoClash(r) ==
    /\ Cardinality({f.place : f \in NewFiles(r)}) = Cardinality(file)
    /\ \A q \in root : q.path = r.new => q.id = r.id

\* Mutant: book_files keep their paths.
Commit_noFiles(m) ==
    LET r == move[m] IN
    /\ r.pc = "folders" /\ r.todo = {} /\ NoClash(r)
    /\ author' = NewAuthors(r)
    /\ root' = {IF q.id = r.id THEN [q EXCEPT !.path = r.new] ELSE q : q \in root}
    /\ Step(m, [NoMove EXCEPT !.pc = "done", !.old = r.old])
    /\ UNCHANGED <<book, file, lastId, disk, scan, deleting, bounds>>
    /\ Disturbed
    /\ UNCHANGED <<moves, edits, faults, crashes, owned, meddled>>

\* The transaction: three UPDATEs and the commit.
Commit(m) ==
    LET r == move[m] IN
    /\ r.pc = "folders" /\ r.todo = {} /\ NoClash(r)
    /\ author' = NewAuthors(r)
    /\ file' = NewFiles(r)
    /\ root' = {IF q.id = r.id THEN [q EXCEPT !.path = r.new] ELSE q : q \in root}
    /\ Step(m, [NoMove EXCEPT !.pc = "done", !.old = r.old])
    /\ UNCHANGED <<book, lastId, disk, scan, deleting, bounds>>
    /\ Disturbed
    /\ UNCHANGED <<moves, edits, faults, crashes, owned, meddled>>

\* A statement fails, for a UNIQUE column or another reason, and all is rolled
\* back but the files.
Rollback(m) ==
    LET r == move[m] IN
    /\ r.pc = "folders" /\ r.todo = {}
    /\ \/ ~NoClash(r) /\ UNCHANGED faults
       \/ Fault
    /\ Step(m, NoMove)
    /\ UNCHANGED <<scanVars, moves, edits, crashes, owned, meddled>>

MoveReturns(m) ==
    /\ move[m].pc = "done"
    /\ Step(m, NoMove)
    /\ UNCHANGED <<scanVars, moves, edits, faults, crashes, owned, meddled>>

MoveStep(m) ==
    \/ \E r \in root, new \in Target : MoveBegin(m, r, new)
    \/ ListAuthors(m)
    \/ \E dir \in move[m].todo : SkipFolder(m, dir) \/ RenameFolder(m, dir) \/ CopyFolder(m, dir)
    \/ \E p \in move[m].left : OpenFile(m, p)
    \/ CopyFile(m) \/ CopyFails(m) \/ RemoveOld(m)
    \/ Commit(m) \/ Rollback(m) \/ MoveReturns(m)

-----------------------------------------------------------------------------
(* The other requests of the root folder service. *)

Edit ==
    /\ edits < MaxEdits /\ edits' = edits + 1
    /\ UNCHANGED <<author, book, file, disk, scan, deleting, bounds, history>>
    /\ UNCHANGED <<move, moves, faults, crashes, owned>>
    /\ meddled' = TRUE

PathTaken(path) == \E r \in root : r.path = path

\* Create: the path is UNIQUE.  The scan that follows is a ScanBegin.
CreateRoot(path) ==
    /\ ~PathTaken(path) /\ Edit
    /\ root' = root \cup {[id |-> lastId.root + 1, path |-> path]}
    /\ lastId' = [lastId EXCEPT !.root = @ + 1]

\* Update without moveFiles: only the row changes.
UpdateRoot(r, path) ==
    /\ ~PathTaken(path) /\ Edit
    /\ root' = (root \ {r}) \cup {[r EXCEPT !.path = path]}
    /\ UNCHANGED lastId

\* Delete: authors, books and files stay.
DeleteRoot(r) ==
    /\ Edit
    /\ root' = root \ {r}
    /\ UNCHANGED lastId

EditRoot ==
    \/ \E path \in Target : CreateRoot(path)
    \/ \E r \in root, path \in Target : UpdateRoot(r, path)
    \/ \E r \in root : DeleteRoot(r)

\* The process dies, with every scan and every request in it.
Crash ==
    /\ crashes < MaxCrashes
    /\ Running # {} \/ Moving # {} \/ deleting # 0
    /\ crashes' = crashes + 1
    /\ scan' = [s \in Scan |-> Idle]
    /\ move' = [m \in Mover |-> NoMove]
    /\ deleting' = 0
    /\ UNCHANGED <<tables, disk, bounds>>
    /\ Disturbed
    /\ UNCHANGED <<moves, edits, faults, owned, meddled>>

\* What the user removes or replaces is no longer to be kept.
Owned ==
    owned' = (owned \ {disk[p] : p \in {q \in Place : disk'[q] # disk[q]}})
                \cup {disk'[p] : p \in {q \in Place : disk'[q] \notin {disk[q], Absent}}}

LibraryStep ==
    /\ \/ /\ \E s \in Scan : ScanStep(s)
          /\ meddled' = (meddled \/ Moving # {})
          /\ UNCHANGED owned
       \/ User /\ Owned /\ meddled' = TRUE
    /\ UNCHANGED <<move, moves, edits, faults, crashes>>

MNext == LibraryStep \/ (\E m \in Mover : MoveStep(m)) \/ EditRoot \/ Crash

MSpec == MInit /\ [][MNext]_vars

-----------------------------------------------------------------------------
MTypeOK ==
    /\ TypeOK
    /\ \A m \in Mover :
        /\ move[m].pc \in {"idle", "list", "folders", "copy", "bytes", "done"}
        /\ move[m].pc = "bytes" => move[m].src \in move[m].left
        /\ move[m].left \subseteq Place
    /\ owned \subseteq Content

\* Wherever a move stops, by an error or with the process, and however often
\* it is asked for again, every content the user has not removed is whole in
\* some place, as long as moves do not run side by side (Mover has one element):
\* a copy truncates what the other move has just made the only whole copy.
MoveLosesNothing == \A c \in owned : \E p \in Place : disk[p] = c

\* A move that succeeds leaves every row with a whole file, also when earlier
\* tries to the same place broke off half way (no third path in Target) and
\* scans came between them, as long as no scan or other move was at work during
\* a move and the user changed nothing else.
RowsFollowFiles ==
    (~meddled /\ \E m \in Mover : move[m].pc = "done") =>
        \A f \in file : disk[f.place] \in Content

\* "MoveRootFolder moves all files from the old root folder path to a new
\* path" (migration.go).
MoveTakesAllFiles ==
    ~meddled => \A m \in Mover : move[m].pc = "done" => FilesUnder(move[m].old) = {}
=============================================================================
