------------------------- MODULE RootFolderMoveProofs -------------------------
(***************************************************************************)
(* Moves of root folders between two paths, for any number of files,       *)
(* authors, scans, faults, crashes and tries.                              *)
(***************************************************************************)
EXTENDS RootFolderMove, LibraryProofs

\* The paths root folders are at or can be moved to.
Ends == Folders \cup Target

\* There are two at most, and neither reaches into the other.
EndsApart ==
    /\ \A d, e, f \in Ends : d = e \/ e = f \/ d = f
    /\ \A d, e \in Ends, p \in Place : (Like(d, Full(p)) /\ Under(e, p)) => d = e
    /\ \A d, e \in Ends, n \in Name : Like(d, Append(e, n)) => d = e

\* Whatever is below one end has a place below the other.
RoomToMove == \A d, e \in Ends, p \in Place : Under(d, p) => Moved(p, d, e) \in Place

\* The place a move takes a file to, or takes it from.
Twins(p, q) == \E d, e \in Ends : d # e /\ Under(d, p) /\ q = Moved(p, d, e)

AtHand   == {"folders", "copy", "bytes"}
Underway == AtHand \cup {"list"}

MoveJob == [pc : Underway \cup {"idle", "done"}, id : Nat, old : Path, new : Path,
            todo : SUBSET Path, cur : Path, left : SUBSET Place,
            src : Place \cup {NoPlace}, held : Content \cup {Cut, Absent}]

RequestOk(r) ==
    /\ r \in MoveJob
    /\ r.pc \in Underway => r.old \in Ends /\ r.new \in Ends /\ r.old # r.new
    /\ r.pc = "done" => r.old \in Ends
    /\ \A dir \in r.todo : \E n \in Name : dir = Append(r.old, n)
    /\ r.pc \in {"copy", "bytes"} => r.cur \in r.todo
    /\ r.pc = "bytes" => r.src \in r.left
Requests == move \in [Mover -> MoveJob] /\ \A m \in Mover : RequestOk(move[m])

AuthorsHome == \A a \in author : \E d \in Ends, n \in Name : a.path = Append(d, n)

Inside == {p \in Place : \E d \in Ends : Under(d, p)}

Based == Types /\ ReachedIn(Ends, Inside) /\ AuthorsHome /\ Requests

HomeSide(p) == \E a \in author : Under(a.path, p)

Solo    == \A m, n \in Mover : (move[m].pc # "idle" /\ move[n].pc # "idle") => m = n
OneHome == \A p, q \in Place : Twins(p, q) => ~(HomeSide(p) /\ HomeSide(q))
Housed  == \A f \in file : HomeSide(f.place)

CutOk ==
    \A q \in Place : disk[q] = Cut =>
        \E p \in Place : Twins(p, q) /\ disk[p] \in Content /\ HomeSide(p)

FarCut(m) ==
    LET r == move[m] IN
    r.pc \in AtHand =>
        \A q \in Place : (disk[q] = Cut /\ Under(r.new, q)) =>
            \E dir \in r.todo, p \in Place : Under(dir, p) /\ Twins(p, q)

CopyOk(m) ==
    LET r == move[m] IN
    /\ r.pc \in Underway => \A dir \in r.todo : \E a \in author : a.path = dir
    /\ r.pc \in {"copy", "bytes"} =>
        /\ r.left \subseteq FilesUnder(r.cur)
        /\ \A p \in FilesUnder(r.cur) \ r.left : \A q \in Place : Twins(p, q) => disk[q] = disk[p]
    /\ r.pc = "bytes" => r.held = disk[r.src]

Tidy == CutOk /\ \A m \in Mover : FarCut(m) /\ CopyOk(m)

TwinsAlike ==
    \A p, q \in Place :
        (Twins(p, q) /\ disk[p] \in Content /\ disk[q] \in Content) => disk[p] = disk[q]

LibraryAlike ==
    \A p, q \in Place :
        (Twins(p, q) /\ Library[p] # Absent /\ Library[q] # Absent) => Library[p] = Library[q]

Kept == owned \subseteq Content /\ MoveLosesNothing /\ TwinsAlike

Rooted ==
    /\ Moving # {} => Running = {}
    /\ \A s \in Running : \E r \in root : r.path = scan[s].root
    /\ \A s \in Scan : scan[s].pc \in AtFile => OnDisk(scan[s].at)
    /\ \A a \in author : \E r \in root, n \in Name : a.path = Append(r.path, n)
    /\ \A p \in Paths : \E r \in root : Under(r.path, p)
    /\ \A r, q \in root : r.path = q.path \/ r.id = q.id => r = q
    /\ \A m \in Mover : move[m].pc \in Underway =>
            \E r \in root : r.id = move[m].id /\ r.path = move[m].old

Whole(p)  == disk[p] \in Content
RowsSafe == \A p \in Paths : Whole(p) \/ \E q \in Place : Twins(p, q) /\ Whole(q)

Processed(m) ==
    LET r == move[m] IN
    r.pc \in AtHand =>
        \A a \in author, p, q \in Place :
            (a.path \notin r.todo /\ Under(a.path, p) /\ Under(r.old, p) /\ Twins(p, q) /\ Whole(p))
                => Whole(q)

DoneOk(m) ==
    move[m].pc = "done" =>
        /\ \A p \in Paths : Whole(p)
        /\ \A r \in root : r.path # move[m].old

Followed == Tidy /\ Rooted /\ RowsSafe /\ \A m \in Mover : Processed(m) /\ DoneOk(m)

-----------------------------------------------------------------------------
(* Paths below an end. *)

LEMMA EndPaths == \A d \in Ends : d \in Path /\ d # <<>> /\ Len(d) \in Nat /\ Len(d) >= 1
<1> SUFFICES ASSUME NEW d \in Ends PROVE d \in Path /\ d # <<>> /\ Len(d) \in Nat /\ Len(d) >= 1
  OBVIOUS
<1>1. d \in Path /\ d # <<>>
  BY ConstantsOK, MoveConstantsOK DEF Ends, Folders, Path
<1>2. Len(d) \in Nat \ {0}
  BY <1>1, EmptySeq DEF Path
<1> QED BY <1>1, <1>2

LEMMA OneEnd ==
    ASSUME EndsApart, NEW d \in Ends, NEW e \in Ends, NEW p \in Place, Under(d, p), Under(e, p)
    PROVE  d = e
  BY EndPaths, LikeBelow DEF EndsApart

LEMMA Below ==
    ASSUME NEW d \in Path, NEW p \in Place, Under(d, p)
    PROVE  Within(d, p) \in Path /\ p.dir = d \o Within(d, p)
<1> DEFINE w == Within(d, p)
           n == Len(d)
           k == Len(p.dir)
<1>1. p.dir \in Path /\ k \in Nat /\ n \in Nat
  BY PlaceFields DEF Path
<1>2. n <= k /\ \A i \in 1..n : d[i] = p.dir[i]
  BY UnderElements
<1>3. w \in Path /\ Len(w) = k - n /\ \A i \in 1..(k - n) : w[i] = p.dir[n + i]
  BY <1>1, <1>2 DEF Within, Path
<1> HIDE DEF w, n, k
<1>4. d \o w \in Path /\ Len(d \o w) = n + Len(w)
      /\ \A i \in 1..(n + Len(w)) : (d \o w)[i] = IF i <= n THEN d[i] ELSE w[i - n]
  BY <1>3, ConcatProperties DEF Path, n
<1>5. Len(d \o w) = Len(p.dir)
  BY <1>1, <1>3, <1>4 DEF k
<1>6. \A i \in 1..Len(d \o w) : (d \o w)[i] = p.dir[i]
  BY <1>1, <1>2, <1>3, <1>4
<1>7. d \o w = p.dir
  BY <1>1, <1>4, <1>5, <1>6, SeqEqual DEF Path
<1> QED BY <1>3, <1>7 DEF w

LEMMA OnTop ==
    ASSUME NEW d \in Path, NEW w \in Path, NEW p, p.dir = d \o w
    PROVE  Under(d, p) /\ Within(d, p) = w
<1> DEFINE c == d \o w
           n == Len(d)
<1>1. n \in Nat /\ Len(w) \in Nat
  BY DEF Path
<1>2. c \in Path /\ Len(c) = n + Len(w)
      /\ \A i \in 1..(n + Len(w)) : c[i] = IF i <= n THEN d[i] ELSE w[i - n]
  BY ConcatProperties DEF Path, n
<1> HIDE DEF c
<1>3. SubSeq(c, 1, n) = SubSeq(d, 1, n)
  BY <1>1, <1>2 DEF Path
<1>4. SubSeq(c, n + 1, Len(c)) = w
  <2> DEFINE v == SubSeq(c, n + 1, Len(c))
  <2>1. v \in Path /\ Len(v) = Len(w) /\ \A i \in 1..Len(w) : v[i] = c[n + i]
    BY <1>1, <1>2 DEF Path
  <2> HIDE DEF v
  <2>2. ASSUME NEW i \in 1..Len(w) PROVE v[i] = w[i]
    <3>1. n + i \in 1..(n + Len(w)) /\ ~(n + i <= n) /\ (n + i) - n = i
      BY <1>1
    <3>2. c[n + i] = w[(n + i) - n]
      BY <1>2, <3>1
    <3> QED BY <2>1, <3>1, <3>2
  <2>3. v = w
    BY <2>1, <2>2, SeqEqual DEF Path
  <2> QED BY <2>3 DEF v
<1> QED BY <1>1, <1>2, <1>3, <1>4 DEF Under, IsPrefix, Within, c

LEMMA InsideOf ==
    ASSUME NEW d \in Path, NEW n \in Name, NEW w \in Path
    PROVE  /\ Append(d, n) \in Path /\ <<n>> \o w \in Path
           /\ Append(d, n) \o w = d \o (<<n>> \o w)
<1>1. Append(d, n) = d \o <<n>> /\ <<n>> \in Path
  BY AppendIsConcat DEF Path
<1> QED BY <1>1, ConcatAssociative, ConcatProperties, AppendProperties DEF Path

LEMMA InFolder ==
    ASSUME NEW d \in Path, NEW n \in Name, NEW p \in Place, Under(Append(d, n), p)
    PROVE  /\ Under(d, p) /\ Within(Append(d, n), p) \in Path
           /\ Within(d, p) = <<n>> \o Within(Append(d, n), p)
<1> DEFINE dir == Append(d, n)
           w == Within(dir, p)
<1>1. dir \in Path
  BY InsideOf, AppendProperties DEF Path
<1>2. w \in Path /\ p.dir = dir \o w
  BY <1>1, Below
<1> HIDE DEF w
<1>3. p.dir = d \o (<<n>> \o w) /\ <<n>> \o w \in Path
  BY <1>2, InsideOf
<1>4. Under(d, p) /\ Within(d, p) = <<n>> \o w
  BY <1>3, OnTop
<1> QED BY <1>2, <1>4 DEF w

LEMMA IntoFolder ==
    ASSUME NEW d \in Path, NEW n \in Name, NEW p \in Place, NEW w \in Path,
           Under(d, p), Within(d, p) = <<n>> \o w
    PROVE  Under(Append(d, n), p)
<1>1. p.dir = d \o (<<n>> \o w)
  BY Below
<1>2. p.dir = Append(d, n) \o w /\ Append(d, n) \in Path
  BY <1>1, InsideOf
<1> QED BY <1>2, OnTop

LEMMA MovedPlace ==
    ASSUME RoomToMove, NEW d \in Ends, NEW e \in Ends, NEW p \in Place, Under(d, p)
    PROVE  LET q == Moved(p, d, e) IN
           /\ q \in Place /\ q.dir = e \o Within(d, p) /\ q.base = p.base
           /\ Under(e, q) /\ Within(e, q) = Within(d, p) /\ Moved(q, e, d) = p
<1> DEFINE q == Moved(p, d, e)
           w == Within(d, p)
<1>1. q \in Place
  BY DEF RoomToMove
<1>2. q.dir = e \o w /\ q.base = p.base
  BY DEF Moved
<1>3. w \in Path /\ p.dir = d \o w
  BY EndPaths, Below
<1> HIDE DEF q, w
<1>4. Under(e, q) /\ Within(e, q) = w
  BY <1>2, <1>3, EndPaths, OnTop
<1>5. p \in [dir : Seq(Name), base : Name]
  BY ConstantsOK
<1>6. p = [dir |-> p.dir, base |-> p.base]
  BY <1>5
<1>7. Moved(q, e, d) = p
  BY <1>2, <1>3, <1>4, <1>6 DEF Moved
<1> QED BY <1>1, <1>2, <1>4, <1>7 DEF q, w

LEMMA TwinPlaces ==
    ASSUME RoomToMove, NEW p \in Place, NEW q, Twins(p, q)
    PROVE  q \in Place /\ Twins(q, p)
<1>1. PICK d \in Ends, e \in Ends : d # e /\ Under(d, p) /\ q = Moved(p, d, e)
  BY DEF Twins
<1>2. q \in Place /\ Under(e, q) /\ Moved(q, e, d) = p
  BY <1>1, MovedPlace
<1> QED BY <1>1, <1>2 DEF Twins

LEMMA OneTwin ==
    ASSUME EndsApart, NEW p \in Place, NEW q, NEW o, Twins(p, q), Twins(p, o)
    PROVE  q = o
<1>1. PICK d \in Ends, e \in Ends : d # e /\ Under(d, p) /\ q = Moved(p, d, e)
  BY DEF Twins
<1>2. PICK x \in Ends, y \in Ends : x # y /\ Under(x, p) /\ o = Moved(p, x, y)
  BY DEF Twins
<1>3. x = d
  BY <1>1, <1>2, OneEnd
<1>4. y = e
  BY <1>1, <1>2, <1>3 DEF EndsApart
<1> QED BY <1>1, <1>2, <1>3, <1>4

\* An author's folder in one end and in the other.
LEMMA TwinFolders ==
    ASSUME EndsApart, RoomToMove, NEW d \in Ends, NEW e \in Ends, d # e, NEW n \in Name,
           NEW p \in Place, Under(Append(d, n), p)
    PROVE  LET q == Moved(p, Append(d, n), Append(e, n)) IN
           /\ Under(d, p) /\ Twins(p, q) /\ Under(e, q) /\ Under(Append(e, n), q) /\ q \in Place
           /\ ~Under(Append(d, n), q) /\ ~Under(Append(e, n), p)
<1> DEFINE w == Within(Append(d, n), p)
           q == Moved(p, d, e)
<1>1. d \in Path /\ e \in Path
  BY EndPaths
<1>2. Under(d, p) /\ w \in Path /\ Within(d, p) = <<n>> \o w
  BY <1>1, InFolder
<1>3. q \in Place /\ q.dir = e \o Within(d, p) /\ q.base = p.base /\ Under(e, q) /\ Within(e, q) = <<n>> \o w
  BY <1>2, MovedPlace
<1> HIDE DEF q, w
<1>4. Under(Append(e, n), q)
  BY <1>1, <1>2, <1>3, IntoFolder
<1>5. Append(e, n) \o w = e \o (<<n>> \o w)
  BY <1>1, <1>2, InsideOf
<1>6. Moved(p, Append(d, n), Append(e, n)) = q
  BY <1>2, <1>5 DEF Moved, q, w
<1>7. Twins(p, q)
  BY <1>2 DEF Twins, q
<1>8. ~Under(Append(d, n), q)
  BY <1>1, <1>3, InFolder, OneEnd
<1>9. ~Under(Append(e, n), p)
  BY <1>1, <1>2, InFolder, OneEnd
<1> QED BY <1>2, <1>3, <1>4, <1>6, <1>7, <1>8, <1>9

LEMMA FrontOfAppend ==
    ASSUME NEW f \in Path, NEW x \in Name
    PROVE  Front(Append(f, x)) = f /\ Last(Append(f, x)) = x
<1> DEFINE e == Append(f, x)
           k == Len(f)
           v == SubSeq(e, 1, k)
<1>1. k \in Nat /\ e \in Path /\ Len(e) = k + 1 /\ e[k + 1] = x /\ \A i \in 1..k : e[i] = f[i]
  BY DEF Path
<1> HIDE DEF e
<1>2. v \in Path /\ Len(v) = k /\ \A i \in 1..k : v[i] = e[i]
  BY <1>1 DEF Path
<1> HIDE DEF v
<1>3. v = f
  BY <1>1, <1>2, SeqEqual DEF Path
<1> QED BY <1>1, <1>3 DEF Front, Last, v, e

LEMMA FrontAndLast ==
    ASSUME NEW e \in Path, e # <<>>
    PROVE  Front(e) \in Path /\ Last(e) \in Name /\ Front(e) \o <<Last(e)>> = e
<1>1. PICK f \in Path, x \in Name : e = Append(f, x)
  BY SequenceEmptyOrAppend DEF Path
<1>2. Front(e) = f /\ Last(e) = x
  BY <1>1, FrontOfAppend
<1> QED BY <1>1, <1>2, AppendIsConcat DEF Path

\* What an UPDATE of the transaction makes of a path.
LEMMA RebasedFolder ==
    ASSUME NEW d \in Ends, NEW e \in Ends, NEW n \in Name
    PROVE  Like(d, Append(d, n)) /\ Rebase(Append(d, n), d, e) = Append(e, n)
<1> DEFINE k == Len(d)
           c == Append(d, n)
<1>1. d \in Path /\ e \in Path /\ k \in Nat /\ k >= 1 /\ Len(e) \in Nat /\ Len(e) >= 1
  BY EndPaths
<1>2. c \in Path /\ Len(c) = k + 1 /\ c[k + 1] = n /\ \A i \in 1..k : c[i] = d[i]
  BY <1>1 DEF Path
<1> HIDE DEF c
<1>3. Like(d, c)
  BY <1>1, <1>2 DEF Like
<1>4. c[k] = Last(d)
  BY <1>1, <1>2 DEF Last
<1>5. SubSeq(c, k + 1, Len(c)) = <<n>>
  <2> DEFINE v == SubSeq(c, k + 1, Len(c))
  <2>1. v \in Path /\ Len(v) = 1 /\ v[1] = n
    BY <1>1, <1>2 DEF Path
  <2>2. <<n>> \in Path /\ Len(<<n>>) = 1 /\ <<n>>[1] = n
    BY DEF Path
  <2> HIDE DEF v
  <2>3. v = <<n>>
    BY <2>1, <2>2, SeqEqual DEF Path
  <2> QED BY <2>3 DEF v
<1>6. Front(e) \o <<Last(e)>> = e
  BY <1>1, FrontAndLast
<1>7. e \o <<n>> = Append(e, n)
  BY <1>1, AppendIsConcat DEF Path
<1> QED BY <1>3, <1>4, <1>5, <1>6, <1>7 DEF Rebase, c

LEMMA RebasedPlace ==
    ASSUME NEW d \in Ends, NEW e \in Ends, NEW p \in Place, Under(d, p)
    PROVE  RebasePlace(p, d, e) = Moved(p, d, e)
<1> DEFINE k == Len(d)
           w == Within(d, p)
           v == Append(w, p.base)
           c == Full(p)
<1>1. d \in Path /\ e \in Path /\ d # <<>> /\ e # <<>> /\ k \in Nat /\ k >= 1 /\ p.dir \in Path /\ p.base \in Name
  BY EndPaths, PlaceFields
<1>2. w \in Path /\ p.dir = d \o w
  BY <1>1, Below
<1> HIDE DEF w
<1>3. v \in Path
  BY <1>1, <1>2, AppendProperties DEF Path
<1>4. ASSUME NEW x \in Path PROVE Append(x \o w, p.base) = x \o v /\ x \o w \in Path
  <2>1. x \o w \in Path /\ <<p.base>> \in Path
    BY <1>1, <1>2, ConcatProperties DEF Path
  <2>2. Append(x \o w, p.base) = (x \o w) \o <<p.base>> /\ v = w \o <<p.base>>
    BY <1>1, <1>2, <2>1, AppendIsConcat DEF Path
  <2> QED BY <1>2, <2>1, <2>2, ConcatAssociative DEF Path
<1>5. c = d \o v
  BY <1>1, <1>2, <1>4 DEF Full
<1> HIDE DEF v, c
<1>6. SubSeq(c, k + 1, Len(c)) = v
  <2> DEFINE x == [dir |-> c, base |-> NoName]
  <2>1. x.dir = c
    OBVIOUS
  <2> HIDE DEF x
  <2>2. Within(d, x) = v
    BY <1>1, <1>3, <1>5, <2>1, OnTop
  <2> QED BY <2>1, <2>2 DEF Within
<1>7. c[k] = Last(d)
  BY <1>1, <1>3, <1>5, ConcatProperties DEF Last, Path
<1>8. Rebase(c, d, e) = e \o v
  BY <1>1, <1>6, <1>7, FrontAndLast DEF Rebase
<1>9. Rebase(c, d, e) = Append(e \o w, p.base) /\ e \o w \in Path
  BY <1>1, <1>4, <1>8
<1> QED BY <1>1, <1>9, FrontOfAppend DEF RebasePlace, Moved, c, w

-----------------------------------------------------------------------------
(* Types *)

OtherMovesStay(m) == \A n \in Mover : n # m => move'[n] = move[n]

LEMMA StepSet ==
    ASSUME Requests, NEW m \in Mover, NEW r, Step(m, r)
    PROVE  /\ move'[m] = r /\ OtherMovesStay(m)
           /\ RequestOk(r) => Requests'
<1>1. move' = [move EXCEPT ![m] = r] /\ move \in [Mover -> MoveJob]
  BY DEF Step, Requests
<1>2. move'[m] = r /\ \A n \in Mover : n # m => move'[n] = move[n]
  BY <1>1
<1>3. ASSUME RequestOk(r) PROVE Requests'
  <2>1. r \in MoveJob
    BY <1>3 DEF RequestOk
  <2>2. move' \in [Mover -> MoveJob]
    BY <1>1, <2>1
  <2>3. \A n \in Mover : RequestOk(move'[n])
    BY <1>2, <1>3 DEF Requests
  <2>4. (\A n \in Mover : RequestOk(move[n]))'
    BY <2>3 DEF RequestOk
  <2> QED BY <2>2, <2>4 DEF Requests
<1> QED BY <1>2, <1>3 DEF OtherMovesStay

LEMMA NoMoveOk == RequestOk(NoMove)
  BY EmptySeq DEF RequestOk, NoMove, MoveJob, Underway, AtHand, Path

LEMMA TheRequest == ASSUME Requests, NEW m \in Mover PROVE RequestOk(move[m])
  BY DEF Requests

LEMMA FilesHere == \A dir : FilesUnder(dir) \subseteq Place
  BY DEF FilesUnder

LEMMA BeginOk ==
    ASSUME Based, NEW m \in Mover, NEW r \in root, NEW new \in Target, MoveBegin(m, r, new)
    PROVE  Requests'
<1> DEFINE q == [NoMove EXCEPT !.pc = "list", !.id = r.id, !.old = r.path, !.new = new]
<1>1. r.path \in Ends /\ new \in Ends /\ r.path # new /\ r.id \in Nat
  BY DEF MoveBegin, Based, ReachedIn, Ends, Types, Tables, RootRows, Counters
<1>2. r.path \in Path /\ new \in Path
  BY <1>1, EndPaths
<1>3. NoMove \in MoveJob /\ NoMove.todo = {}
  BY NoMoveOk DEF RequestOk, NoMove
<1>4. q \in MoveJob /\ q.pc = "list" /\ q.old = r.path /\ q.new = new /\ q.todo = {}
  BY <1>1, <1>2, <1>3 DEF MoveJob, Underway
<1> HIDE DEF q
<1>5. RequestOk(q)
  BY <1>1, <1>4 DEF RequestOk
<1>6. Step(m, q)
  BY DEF MoveBegin, q
<1> QED BY <1>5, <1>6, StepSet DEF Based

\* The folders of a move are those of authors in the old root.
LEMMA ListedFolders ==
    ASSUME Based, EndsApart, NEW d \in Ends, NEW a \in author, Like(d, a.path)
    PROVE  \E n \in Name : a.path = Append(d, n)
<1>1. PICK e \in Ends, n \in Name : a.path = Append(e, n)
  BY DEF Based, AuthorsHome
<1>2. Like(d, Append(e, n))
  BY <1>1
<1>3. d = e
  BY <1>2 DEF EndsApart
<1> QED BY <1>1, <1>3

LEMMA ListOk ==
    ASSUME Based, EndsApart, NEW m \in Mover, ListAuthors(m)
    PROVE  Requests'
<1> DEFINE r == move[m]
           dirs == {a.path : a \in {b \in author : Like(r.old, b.path)}}
           q == [r EXCEPT !.pc = "folders", !.todo = dirs]
<1>1. RequestOk(r) /\ r.pc = "list"
  BY TheRequest DEF Based, ListAuthors
<1>2. r.old \in Ends /\ r.new \in Ends /\ r.old # r.new
  BY <1>1 DEF RequestOk, Underway
<1>3. \A dir \in dirs : \E n \in Name : dir = Append(r.old, n)
  BY <1>2, ListedFolders
<1>4. dirs \subseteq Path
  BY DEF Based, Types, Tables, AuthorRows
<1> HIDE DEF dirs
<1>5. q \in MoveJob /\ q.pc = "folders" /\ q.old = r.old /\ q.new = r.new /\ q.todo = dirs
  BY <1>1, <1>4 DEF RequestOk, MoveJob, Underway, AtHand
<1>6. Step(m, q)
  BY DEF ListAuthors, dirs
<1> HIDE DEF q, r
<1>7. RequestOk(q)
  BY <1>2, <1>3, <1>5 DEF RequestOk
<1> QED BY <1>6, <1>7, StepSet DEF Based

\* Changes of a request while its folders are moved.
LEMMA HandOk ==
    ASSUME NEW r, RequestOk(r), r.pc \in AtHand, NEW q, q \in MoveJob,
           q.old = r.old, q.new = r.new, q.todo \subseteq r.todo, q.pc \in AtHand,
           q.pc \in {"copy", "bytes"} => q.cur \in q.todo,
           q.pc = "bytes" => q.src \in q.left
    PROVE  RequestOk(q)
  BY DEF RequestOk, Underway, AtHand

LEMMA FolderOk ==
    ASSUME Based, NEW m \in Mover, NEW dir \in move[m].todo,
           SkipFolder(m, dir) \/ RenameFolder(m, dir) \/ CopyFolder(m, dir)
    PROVE  Requests'
<1> DEFINE r == move[m]
           one == [r EXCEPT !.todo = @ \ {dir}]
           two == [r EXCEPT !.pc = "copy", !.cur = dir, !.left = FilesUnder(dir)]
<1>1. RequestOk(r) /\ r.pc = "folders" /\ r.pc \in AtHand
  BY TheRequest DEF Based, SkipFolder, RenameFolder, CopyFolder, AtHand
<1>2. r \in MoveJob /\ r.todo \subseteq Path /\ dir \in r.todo
  BY <1>1 DEF RequestOk, MoveJob
<1>3. one \in MoveJob /\ one.pc = "folders" /\ one.old = r.old /\ one.new = r.new /\ one.todo = r.todo \ {dir}
  BY <1>1, <1>2 DEF MoveJob
<1>4. /\ two \in MoveJob /\ two.pc = "copy" /\ two.old = r.old /\ two.new = r.new /\ two.todo = r.todo
      /\ two.cur = dir
  BY <1>1, <1>2, FilesHere DEF MoveJob, Underway, AtHand
<1>5. Step(m, one) \/ Step(m, two)
  BY DEF SkipFolder, RenameFolder, CopyFolder
<1> HIDE DEF one, two, r
<1>6. RequestOk(one) /\ RequestOk(two)
  <2>1. RequestOk(one)
    BY <1>1, <1>3, HandOk DEF AtHand
  <2>2. RequestOk(two)
    BY <1>1, <1>2, <1>4, HandOk DEF AtHand
  <2> QED BY <2>1, <2>2
<1> QED BY <1>5, <1>6, StepSet DEF Based

LEMMA CopyStepOk ==
    ASSUME Based, NEW m \in Mover,
           (\E p \in move[m].left : OpenFile(m, p)) \/ CopyFile(m) \/ CopyFails(m) \/ RemoveOld(m)
    PROVE  Requests'
<1> DEFINE r == move[m]
           open(p) == [r EXCEPT !.pc = "bytes", !.src = p, !.held = disk[p]]
           next == [r EXCEPT !.pc = "copy", !.left = @ \ {r.src}, !.src = NoPlace, !.held = Absent]
           done == [r EXCEPT !.pc = "folders", !.todo = @ \ {r.cur}, !.cur = <<>>]
<1>1. RequestOk(r) /\ r \in MoveJob
  BY TheRequest DEF Based, RequestOk
<1>2. \/ \E p \in r.left : r.pc = "copy" /\ Step(m, open(p))
      \/ Step(m, NoMove)
      \/ r.pc = "bytes" /\ Step(m, next)
      \/ r.pc = "copy" /\ Step(m, done)
  BY DEF OpenFile, CopyFile, CopyFails, RemoveOld
<1>3. ASSUME r.pc \in {"copy", "bytes"} PROVE r.cur \in r.todo /\ r.pc \in AtHand
  BY <1>1, <1>3 DEF RequestOk, AtHand
<1>4. ASSUME NEW p \in r.left, r.pc = "copy" PROVE RequestOk(open(p))
  <2>1. p \in Place
    BY <1>1 DEF MoveJob
  <2>2. disk[p] \in Content \cup {Cut, Absent}
    BY <2>1 DEF Based, Types, Disk
  <2>3. /\ open(p) \in MoveJob /\ open(p).pc = "bytes" /\ open(p).old = r.old /\ open(p).new = r.new
        /\ open(p).todo = r.todo /\ open(p).cur = r.cur /\ open(p).src = p /\ open(p).left = r.left
    BY <1>1, <2>1, <2>2 DEF MoveJob, Underway, AtHand
  <2> HIDE DEF open, r
  <2> QED BY <1>1, <1>3, <1>4, <2>3, HandOk DEF AtHand
<1>5. ASSUME r.pc = "bytes" PROVE RequestOk(next)
  <2>1. /\ next \in MoveJob /\ next.pc = "copy" /\ next.old = r.old /\ next.new = r.new
        /\ next.todo = r.todo /\ next.cur = r.cur
    BY <1>1 DEF MoveJob, Underway, AtHand
  <2> HIDE DEF next, r
  <2> QED BY <1>1, <1>3, <1>5, <2>1, HandOk DEF AtHand
<1>6. ASSUME r.pc = "copy" PROVE RequestOk(done)
  <2>1. /\ done \in MoveJob /\ done.pc = "folders" /\ done.old = r.old /\ done.new = r.new
        /\ done.todo = r.todo \ {r.cur}
    BY <1>1, EmptySeq DEF MoveJob, Underway, AtHand, Path
  <2> HIDE DEF done, r
  <2> QED BY <1>1, <1>3, <1>6, <2>1, HandOk DEF AtHand
<1> HIDE DEF open, next, done, r
<1> QED BY <1>2, <1>4, <1>5, <1>6, NoMoveOk, StepSet DEF Based

LEMMA EndOk ==
    ASSUME Based, NEW m \in Mover, Commit(m) \/ Rollback(m) \/ MoveReturns(m)
    PROVE  Requests'
<1> DEFINE r == move[m]
           q == [NoMove EXCEPT !.pc = "done", !.old = r.old]
<1>1. RequestOk(r) /\ r \in MoveJob
  BY TheRequest DEF Based, RequestOk
<1>2. \/ Step(m, NoMove)
      \/ r.pc = "folders" /\ Step(m, q)
  BY DEF Commit, Rollback, MoveReturns
<1>3. ASSUME r.pc = "folders" PROVE RequestOk(q)
  <2>1. r.old \in Ends /\ r.old \in Path
    BY <1>1, <1>3, EndPaths DEF RequestOk, Underway, AtHand
  <2>2. NoMove \in MoveJob /\ NoMove.todo = {}
    BY NoMoveOk DEF RequestOk, NoMove
  <2>3. q \in MoveJob /\ q.pc = "done" /\ q.old = r.old /\ q.todo = {}
    BY <2>1, <2>2 DEF MoveJob
  <2> HIDE DEF q, r
  <2> QED BY <2>1, <2>3 DEF RequestOk, Underway, AtHand
<1> HIDE DEF q, r
<1> QED BY <1>2, <1>3, NoMoveOk, StepSet DEF Based

Disks == [Place -> Content \cup {Cut, Absent}]
Writes(d) == d \in Disks /\ DiskBecomes(d) /\ UNCHANGED <<tables, deleting, bounds>>

\* What a move does between its begin and its transaction.
WorkStep(m) ==
    \/ ListAuthors(m)
    \/ \E dir \in move[m].todo : SkipFolder(m, dir) \/ RenameFolder(m, dir) \/ CopyFolder(m, dir)
    \/ \E p \in move[m].left : OpenFile(m, p)
    \/ CopyFile(m) \/ CopyFails(m) \/ RemoveOld(m) \/ Rollback(m)

\* It leaves the library alone or writes the disk.
LEMMA WorkKinds ==
    ASSUME Based, NEW m \in Mover, WorkStep(m)
    PROVE  UNCHANGED scanVars \/ (\E d : Writes(d))
<1>1. disk \in Disks
  BY DEF Based, Types, Disk, Disks
<1>2. RequestOk(move[m])
  BY TheRequest DEF Based
<1>3. ASSUME NEW dir \in move[m].todo, RenameFolder(m, dir) PROVE \E d : Writes(d)
  <2> DEFINE r  == move[m]
             to == Rebase(dir, r.old, r.new)
             files == FilesUnder(dir)
             d == [p \in Place |->
                    IF p \in files THEN Absent
                    ELSE IF \E q \in files : p = Moved(q, dir, to)
                         THEN disk[CHOOSE q \in files : p = Moved(q, dir, to)]
                    ELSE disk[p]]
  <2>1. files \subseteq Place
    BY FilesHere
  <2>2. DiskBecomes(d) /\ UNCHANGED <<tables, deleting, bounds>>
    BY <1>3 DEF RenameFolder
  <2> HIDE DEF files, to
  <2>3. ASSUME NEW p \in Place, \E q \in files : p = Moved(q, dir, to)
        PROVE  disk[CHOOSE q \in files : p = Moved(q, dir, to)] \in Content \cup {Cut, Absent}
    BY <1>1, <2>1, <2>3 DEF Disks
  <2>4. d \in Disks
    BY <1>1, <2>3 DEF Disks
  <2> HIDE DEF d
  <2> QED BY <2>2, <2>4 DEF Writes
<1>4. ASSUME NEW p \in move[m].left, OpenFile(m, p), ~UNCHANGED scanVars PROVE \E d : Writes(d)
  <2> DEFINE d == [disk EXCEPT ![Destination(move[m], p)] = Cut]
  <2>1. d \in Disks
    BY <1>1 DEF Disks
  <2>2. OnDisk(p)
    BY <1>4 DEF OpenFile, scanVars, bounds
  <2>3. DiskBecomes(d) /\ UNCHANGED <<tables, deleting, bounds>>
    BY <1>4, <2>2 DEF OpenFile
  <2> HIDE DEF d
  <2> QED BY <2>1, <2>3 DEF Writes
<1>5. ASSUME CopyFile(m) PROVE \E d : Writes(d)
  <2> DEFINE r == move[m]
             d == [disk EXCEPT ![Destination(r, r.src)] = r.held]
  <2>1. d \in Disks
    BY <1>1, <1>2 DEF Disks, RequestOk, MoveJob
  <2>2. DiskBecomes(d) /\ UNCHANGED <<tables, deleting, bounds>>
    BY <1>5 DEF CopyFile
  <2> HIDE DEF d
  <2> QED BY <2>1, <2>2 DEF Writes
<1>6. ASSUME RemoveOld(m) PROVE \E d : Writes(d)
  <2> DEFINE d(kept) == [p \in Place |->
                            IF p \in FilesUnder(move[m].cur) \ kept THEN Absent ELSE disk[p]]
  <2>1. PICK kept \in SUBSET FilesUnder(move[m].cur) : DiskBecomes(d(kept))
    BY <1>6 DEF RemoveOld
  <2>2. d(kept) \in Disks
    BY <1>1 DEF Disks
  <2>3. UNCHANGED <<tables, deleting, bounds>>
    BY <1>6 DEF RemoveOld
  <2> HIDE DEF d
  <2> QED BY <2>1, <2>2, <2>3 DEF Writes
<1>7. ASSUME \/ ListAuthors(m)
             \/ \E dir \in move[m].todo : SkipFolder(m, dir) \/ CopyFolder(m, dir)
             \/ CopyFails(m) \/ Rollback(m)
      PROVE  UNCHANGED scanVars
  BY <1>7 DEF ListAuthors, SkipFolder, CopyFolder, CopyFails, Rollback
<1> QED BY <1>3, <1>4, <1>5, <1>6, <1>7 DEF WorkStep

LEMMA StepKinds ==
    ASSUME Based, NEW m \in Mover, MoveStep(m)
    PROVE  UNCHANGED scanVars \/ (\E d : Writes(d)) \/ Commit(m)
<1>1. (\E r \in root, new \in Target : MoveBegin(m, r, new)) \/ MoveReturns(m) => UNCHANGED scanVars
  BY DEF MoveBegin, MoveReturns
<1> QED BY <1>1, WorkKinds DEF MoveStep, WorkStep

LEMMA StepRequests ==
    ASSUME Based, EndsApart, NEW m \in Mover, MoveStep(m)
    PROVE  Requests'
  BY BeginOk, ListOk, FolderOk, CopyStepOk, EndOk DEF MoveStep

-----------------------------------------------------------------------------
(* The transaction *)

\* What it makes of an author and of a row.
LEMMA NewAuthor ==
    ASSUME Based, EndsApart, NEW d \in Ends, NEW e \in Ends, NEW a \in author, Like(d, a.path)
    PROVE  \E n \in Name : a.path = Append(d, n) /\ Rebase(a.path, d, e) = Append(e, n)
  BY ListedFolders, RebasedFolder

LEMMA NewRow ==
    ASSUME Based, EndsApart, RoomToMove, NEW d \in Ends, NEW e \in Ends, NEW f \in file,
           Like(d, Full(f.place))
    PROVE  LET q == RebasePlace(f.place, d, e) IN
           /\ f.place \in Place /\ Under(d, f.place) /\ q = Moved(f.place, d, e)
           /\ q \in Place /\ Under(e, q)
<1>1. f.place \in Paths /\ f.place \in Place
  BY DEF Paths, Based, Types, Tables, FileRows
<1>2. PICK x \in Ends : Under(x, f.place)
  BY <1>1 DEF Based, ReachedIn, Inside
<1>3. x = d
  BY <1>1, <1>2 DEF EndsApart
<1>4. Under(d, f.place)
  BY <1>2, <1>3
<1> QED BY <1>1, <1>4, RebasedPlace, MovedPlace

LEMMA CommitAuthors ==
    ASSUME Based, EndsApart, NEW m \in Mover, Commit(m)
    PROVE  /\ AuthorRows' /\ AuthorsHome' /\ {a.id : a \in author'} = {a.id : a \in author}
<1> DEFINE r == move[m]
           new(a) == IF Like(r.old, a.path) THEN [a EXCEPT !.path = Rebase(a.path, r.old, r.new)] ELSE a
<1>1. author' = {new(a) : a \in author} /\ lastId' = lastId
  BY DEF Commit, NewAuthors
<1>2. r.old \in Ends /\ r.new \in Ends
  BY TheRequest DEF Based, RequestOk, Commit, Underway, AtHand
<1> HIDE DEF r
<1>3. author \in SUBSET [id : 1..lastId.author, name : Name, path : Path]
      /\ \A a, b \in author : a.id = b.id => a = b
  BY DEF Based, Types, Tables, AuthorRows
<1>4. ASSUME NEW a \in author
      PROVE  /\ new(a) \in [id : 1..lastId.author, name : Name, path : Path] /\ new(a).id = a.id
             /\ \E d \in Ends, n \in Name : new(a).path = Append(d, n)
  <2>1. CASE Like(r.old, a.path)
    <3>1. PICK n \in Name : Rebase(a.path, r.old, r.new) = Append(r.new, n)
      BY <1>2, <2>1, NewAuthor
    <3>2. Append(r.new, n) \in Path
      BY <1>2, EndPaths, AppendProperties DEF Path
    <3>3. new(a) = [a EXCEPT !.path = Append(r.new, n)]
      BY <2>1, <3>1
    <3> HIDE DEF new
    <3> QED BY <1>2, <1>3, <3>2, <3>3
  <2>2. CASE ~Like(r.old, a.path)
    BY <1>3, <2>2 DEF Based, AuthorsHome
  <2> QED BY <2>1, <2>2
<1> HIDE DEF new
<1>5. AuthorRows'
  BY <1>1, <1>3, <1>4 DEF AuthorRows
<1>6. AuthorsHome'
  BY <1>1, <1>4 DEF AuthorsHome
<1>7. {a.id : a \in author'} = {a.id : a \in author}
  BY <1>1, <1>4
<1> QED BY <1>5, <1>6, <1>7

LEMMA CommitFiles ==
    ASSUME Based, EndsApart, RoomToMove, NEW m \in Mover, Commit(m)
    PROVE  FileRows' /\ \A p \in Paths' : p \in Inside
<1> DEFINE r == move[m]
           new(f) == IF Like(r.old, Full(f.place))
                     THEN [f EXCEPT !.place = RebasePlace(f.place, r.old, r.new)] ELSE f
<1>1. file' = {new(f) : f \in file} /\ book' = book
  BY DEF Commit, NewFiles
<1>2. Cardinality({f.place : f \in file'}) = Cardinality(file)
  BY <1>1 DEF Commit, NoClash, NewFiles
<1>3. r.old \in Ends /\ r.new \in Ends
  BY TheRequest DEF Based, RequestOk, Commit, Underway, AtHand
<1> HIDE DEF r
<1>4. file \in SUBSET [place : Place, book : {b.id : b \in book}, size : Nat]
      /\ IsFiniteSet(file)
  BY DEF Based, Types, Tables, FileRows
<1>5. ASSUME NEW f \in file
      PROVE  /\ new(f) \in [place : Place, book : {b.id : b \in book}, size : Nat]
             /\ new(f).place \in Inside
  <2>1. CASE Like(r.old, Full(f.place))
    <3> DEFINE q == RebasePlace(f.place, r.old, r.new)
    <3>1. q \in Inside
      BY <1>3, <2>1, NewRow DEF Inside
    <3>2. new(f) = [f EXCEPT !.place = q]
      BY <2>1
    <3> HIDE DEF new, q
    <3> QED BY <1>4, <3>1, <3>2 DEF Inside
  <2>2. CASE ~Like(r.old, Full(f.place))
    BY <1>4, <2>2 DEF Based, ReachedIn, Paths
  <2> QED BY <2>1, <2>2
<1> DEFINE g == [f \in file |-> new(f)]
           h == [f \in file |-> new(f).place]
<1>6. file' = {g[f] : f \in file} /\ {f.place : f \in file'} = {h[f] : f \in file}
  BY <1>1
<1>7. DOMAIN g = file /\ DOMAIN h = file /\ g = [f \in file |-> g[f]] /\ h = [f \in file |-> h[f]]
  OBVIOUS
<1>8. \A f \in file : g[f] = new(f) /\ h[f] = new(f).place
  OBVIOUS
<1> HIDE DEF new, g, h
<1>9. IsFiniteSet(file')
  BY <1>4, <1>6, <1>7, FiniteImage
<1>10. \A f, k \in file : h[f] = h[k] => f = k
  BY <1>2, <1>4, <1>6, <1>7, FiniteImage
<1>11. \A f, k \in file' : f.place = k.place => f = k
  BY <1>6, <1>8, <1>10
<1>12. FileRows'
  BY <1>1, <1>5, <1>9, <1>11 DEF FileRows
<1> QED BY <1>1, <1>5, <1>12 DEF Paths

LEMMA CommitBased ==
    ASSUME Based, EndsApart, RoomToMove, NEW m \in Mover, Commit(m)
    PROVE  Based'
<1> DEFINE r == move[m]
<1>1. r.old \in Ends /\ r.new \in Ends /\ r.new \in Path /\ r.new # <<>>
  BY TheRequest, EndPaths DEF Based, RequestOk, Commit, Underway, AtHand
<1>2. root' = {IF q.id = r.id THEN [q EXCEPT !.path = r.new] ELSE q : q \in root}
      /\ UNCHANGED <<book, lastId, disk, scan, deleting>>
  BY DEF Commit
<1> HIDE DEF r
<1>3. RootRows' /\ \A q \in root' : q.path \in Ends
  BY <1>1, <1>2 DEF Based, ReachedIn, Types, Tables, RootRows
<1>4. BookRows'
  BY <1>2, CommitAuthors DEF Based, Types, Tables, BookRows
<1>5. Tables'
  BY <1>2, <1>3, <1>4, CommitAuthors, CommitFiles DEF Based, Types, Tables, Counters
<1>6. Types'
  BY <1>2, <1>5 DEF Based, Types, Jobs, JobOk, Disk, Commit, Disturbed, Running
<1>7. ReachedIn(Ends, Inside)'
  BY <1>2, <1>3, CommitFiles DEF Based, ReachedIn, ReachedBy, Inside
<1>8. Requests'
  BY EndOk
<1> QED BY <1>6, <1>7, <1>8, CommitAuthors DEF Based

-----------------------------------------------------------------------------
LEMMA AuthorsAdded ==
    ASSUME Based, NEW s \in Scan, ScanStep(s)
    PROVE  \A a \in author' : a \in author \/ \E d \in Ends, n \in Name : a.path = Append(d, n)
<1>1. CASE CreateAuthor(s)
  <2> DEFINE r == scan[s]
             x == [id |-> lastId.author + 1, name |-> r.info.author,
                   path |-> Append(r.root, r.info.author)]
  <2>1. author' = author \cup {x} /\ r.pc = "newAuthor"
    BY <1>1 DEF CreateAuthor
  <2>2. r.info.author \in Name /\ r.root \in Ends
    BY <2>1, TheJob DEF Based, JobOk, Named, ReachedIn, ReachedBy
  <2>3. x.path = Append(r.root, r.info.author)
    OBVIOUS
  <2> HIDE DEF x
  <2> QED BY <2>1, <2>2, <2>3
<1>2. CASE ~CreateAuthor(s)
  BY <1>2 DEF ScanStep, ScanBegin, Snapshot, ReadDir, ReadDirFails, Visit, Compare, UpdateFile,
              Match, Discover, FindBook, CreateBook, AddFile, RemoveRow, ScanEnd, ScanAborted, Reads, tables
<1> QED BY <1>1, <1>2

LEMMA LibraryBased ==
    ASSUME ~AuthorScans, Based, LibraryStep
    PROVE  Based'
<1>1. Requests'
  BY DEF LibraryStep, Based, Requests, RequestOk
<1>2. Walks(Ends) \subseteq Inside
  BY DEF Walks, Inside, Walkable
<1>3. ASSUME NEW s \in Scan, ScanStep(s) PROVE Based'
  <2>1. Types' /\ ReachedIn(Ends, Inside)'
    BY <1>2, <1>3, ScanStepTypes, ReachedStep DEF Based, Inside
  <2>2. AuthorsHome'
    BY <1>3, AuthorsAdded DEF Based, AuthorsHome
  <2> QED BY <1>1, <2>1, <2>2 DEF Based
<1>4. CASE User
  <2>1. Types' /\ ReachedIn(Ends, Inside)'
    BY <1>4, UserTypes, ReachedUser DEF Based, Inside
  <2>2. author' \subseteq author
    BY <1>4 DEF User, FileChanges, DeleteAuthorFiles, DeleteAuthor, DeleteAuthorRow, tables
  <2> QED BY <1>1, <2>1, <2>2 DEF Based, AuthorsHome
<1> QED BY <1>3, <1>4 DEF LibraryStep

LEMMA QuietBased ==
    ASSUME Based, UNCHANGED scanVars, Requests'
    PROVE  Based'
<1>1. UNCHANGED <<tables, disk, scan, deleting, stale>> /\ UNCHANGED <<root, author, file>>
  BY DEF scanVars, history, tables
<1>2. Types'
  BY <1>1, TypesStutter DEF Based
<1> QED BY <1>1, <1>2 DEF Based, ReachedIn, ReachedBy, Inside, Paths, AuthorsHome

LEMMA WriteBased ==
    ASSUME Based, NEW d, Writes(d), Requests'
    PROVE  Based'
<1>1. Types'
  BY DiskTypes DEF Based, Types, Writes, Disks
<1>2. ReachedIn(Ends, Inside)'
  BY ReachedDisk DEF Based, Writes, Inside
<1> QED BY <1>1, <1>2 DEF Based, Writes, AuthorsHome, tables

LEMMA EditBased ==
    ASSUME Based, EditRoot
    PROVE  Based'
<1>1. UNCHANGED <<author, book, file, disk, scan, deleting, history, move>>
  BY DEF EditRoot, CreateRoot, UpdateRoot, DeleteRoot, Edit
<1> DEFINE RootsFine ==
            /\ Counters' /\ lastId'.author = lastId.author /\ lastId'.book = lastId.book
            /\ RootRows' /\ \A q \in root' : q.path \in Ends
<1>2. RootsFine
  <2>1. Counters /\ RootRows /\ \A q \in root : q.path \in Ends
    BY DEF Based, Types, Tables, ReachedIn
  <2>2. \A x \in Target : x \in Path /\ x # <<>> /\ x \in Ends
    BY EndPaths DEF Ends
  <2>3. ASSUME NEW x \in Target, CreateRoot(x) PROVE RootsFine
    <3>1. root' = root \cup {[id |-> lastId.root + 1, path |-> x]}
          /\ lastId' = [lastId EXCEPT !.root = @ + 1]
      BY <2>3 DEF CreateRoot
    <3>2. lastId'.root = lastId.root + 1 /\ lastId.root \in Nat /\ Counters'
          /\ lastId'.author = lastId.author /\ lastId'.book = lastId.book
      BY <2>1, <3>1 DEF Counters
    <3> QED BY <2>1, <2>2, <3>1, <3>2 DEF RootRows
  <2>4. ASSUME NEW r \in root, NEW x \in Target, UpdateRoot(r, x) PROVE RootsFine
    <3>1. root' = (root \ {r}) \cup {[r EXCEPT !.path = x]} /\ lastId' = lastId
      BY <2>4 DEF UpdateRoot
    <3> QED BY <2>1, <2>2, <3>1 DEF RootRows, Counters
  <2>5. ASSUME NEW r \in root, DeleteRoot(r) PROVE RootsFine
    <3>1. root' = root \ {r} /\ lastId' = lastId
      BY <2>5 DEF DeleteRoot
    <3> QED BY <2>1, <3>1 DEF RootRows, Counters
  <2> QED BY <2>3, <2>4, <2>5 DEF EditRoot
<1>3. Types'
  BY <1>1, <1>2 DEF Based, Types, Tables, AuthorRows, BookRows, FileRows, Jobs, JobOk, Disk,
                    Running, history
<1> QED BY <1>1, <1>2, <1>3 DEF Based, ReachedIn, ReachedBy, Inside, Paths, AuthorsHome,
                               Requests, RequestOk

LEMMA CrashBased ==
    ASSUME Based, Crash
    PROVE  Based'
<1>1. UNCHANGED <<tables, disk>> /\ UNCHANGED <<root, author, file>> /\ deleting' = 0
      /\ scan' = [s \in Scan |-> Idle] /\ move' = [m \in Mover |-> NoMove] /\ stale' = Running'
  BY DEF Crash, Disturbed, tables
<1>2. Jobs'
  BY <1>1, IdleJob DEF Jobs, JobOk
<1>3. Types'
  BY <1>1, <1>2, TablesStay DEF Based, Types, Disk
<1>4. \A s \in Scan : ReachedBy(Ends, s)'
  BY <1>1 DEF ReachedBy, Idle, AtFile
<1>5. Requests'
  BY <1>1, NoMoveOk DEF Requests, RequestOk
<1> QED BY <1>1, <1>3, <1>4, <1>5 DEF Based, ReachedIn, Inside, Paths, AuthorsHome

LEMMA BasedNext ==
    ASSUME ~AuthorScans, EndsApart, RoomToMove, Based, [MNext]_vars
    PROVE  Based'
<1>1. ASSUME NEW m \in Mover, MoveStep(m) PROVE Based'
  BY <1>1, StepRequests, StepKinds, QuietBased, WriteBased, CommitBased
<1>2. CASE UNCHANGED vars
  BY <1>2, QuietBased DEF vars, moveVars, Based, Requests, RequestOk
<1> QED BY <1>1, <1>2, LibraryBased, EditBased, CrashBased DEF MNext

LEMMA BasedInit == MInit => Based
<1> SUFFICES ASSUME MInit PROVE Based
  OBVIOUS
<1>1. Types /\ Reached
  BY TypesInit, ReachedInit DEF MInit
<1>2. ReachedIn(Ends, Inside)
  BY <1>1 DEF Reached, ReachedIn, ReachedBy, Ends, MInit, Init, Paths
<1>3. Requests
  BY NoMoveOk DEF MInit, Requests, RequestOk
<1> QED BY <1>1, <1>2, <1>3 DEF Based, AuthorsHome, MInit, Init

LEMMA BasedAlways ==
    ASSUME ~AuthorScans, EndsApart, RoomToMove
    PROVE  MSpec => []Based
  BY BasedInit, BasedNext, PTL DEF MSpec

-----------------------------------------------------------------------------
(* A copy that broke off has its source, in the folder of an author. *)

LEMMA OneSource ==
    ASSUME EndsApart, RoomToMove, NEW p \in Place, NEW o \in Place, NEW q, Twins(p, q), Twins(o, q)
    PROVE  p = o
<1>1. q \in Place /\ Twins(q, p) /\ Twins(q, o)
  BY TwinPlaces
<1> QED BY <1>1, OneTwin

\* The ends that a pair of twins is in.
LEMMA TwinEnds ==
    ASSUME EndsApart, RoomToMove, NEW p \in Place, NEW q, Twins(p, q),
           NEW d \in Ends, NEW e \in Ends, d # e
    PROVE  \/ Under(d, p) /\ Under(e, q) /\ ~Under(e, p) /\ ~Under(d, q)
           \/ Under(e, p) /\ Under(d, q) /\ ~Under(d, p) /\ ~Under(e, q)
<1>1. PICK x \in Ends, y \in Ends : x # y /\ Under(x, p) /\ q = Moved(p, x, y)
  BY DEF Twins
<1>2. q \in Place /\ Under(y, q)
  BY <1>1, MovedPlace
<1>3. (x = d /\ y = e) \/ (x = e /\ y = d)
  BY <1>1 DEF EndsApart
<1> QED BY <1>1, <1>2, <1>3, OneEnd

\* Where a move takes a file of one of its folders.
LEMMA Sending ==
    ASSUME Based, EndsApart, RoomToMove, NEW m \in Mover, move[m].pc \in AtHand,
           NEW dir \in move[m].todo, NEW p \in Place, Under(dir, p)
    PROVE  LET to == Rebase(dir, move[m].old, move[m].new)
               q  == Moved(p, dir, to) IN
           /\ q \in Place /\ Twins(p, q) /\ Under(move[m].old, p) /\ Under(move[m].new, q)
           /\ Under(to, q) /\ ~Under(dir, q)
<1> DEFINE r == move[m]
<1>1. r.old \in Ends /\ r.new \in Ends /\ r.old # r.new /\ \E n \in Name : dir = Append(r.old, n)
  BY TheRequest DEF Based, RequestOk, Underway
<1> HIDE DEF r
<1>2. PICK n \in Name : dir = Append(r.old, n)
  BY <1>1
<1>3. Rebase(dir, r.old, r.new) = Append(r.new, n)
  BY <1>1, <1>2, RebasedFolder
<1> QED BY <1>1, <1>2, <1>3, TwinFolders DEF r

LEMMA WholeAtHome ==
    ASSUME EndsApart, RoomToMove, OneHome, CutOk, NEW p \in Place, HomeSide(p)
    PROVE  disk[p] # Cut
<1> SUFFICES ASSUME disk[p] = Cut PROVE FALSE
  OBVIOUS
<1>1. PICK q \in Place : Twins(q, p) /\ HomeSide(q)
  BY DEF CutOk
<1> QED BY <1>1 DEF OneHome

LEMMA AtHandHome ==
    ASSUME Tidy, NEW m \in Mover, move[m].pc \in AtHand, NEW dir \in move[m].todo,
           NEW p \in Place, Under(dir, p)
    PROVE  HomeSide(p)
  BY DEF Tidy, CopyOk, Underway, HomeSide

LEMMA WholeAtHand ==
    ASSUME Based, EndsApart, RoomToMove, OneHome, Tidy, NEW m \in Mover, move[m].pc \in AtHand,
           NEW dir \in move[m].todo, NEW p \in FilesUnder(dir)
    PROVE  p \in Place /\ Under(dir, p) /\ HomeSide(p) /\ disk[p] \in Content
<1>1. p \in Place /\ Under(dir, p) /\ disk[p] # Absent
  BY DEF FilesUnder, OnDisk
<1>2. HomeSide(p)
  BY <1>1, AtHandHome
<1>3. disk[p] # Cut
  BY <1>1, <1>2, WholeAtHome DEF Tidy
<1> QED BY <1>1, <1>2, <1>3 DEF Based, Types, Disk

-----------------------------------------------------------------------------
LEMMA QuietTidy ==
    ASSUME Tidy, UNCHANGED <<disk, author>>, NEW m \in Mover, OtherMovesStay(m),
           FarCut(m)', CopyOk(m)'
    PROVE  Tidy'
<1>1. ASSUME NEW n \in Mover, n # m PROVE FarCut(n)' /\ CopyOk(n)'
  BY <1>1 DEF OtherMovesStay, Tidy, FarCut, CopyOk, FilesUnder, OnDisk
<1>2. CutOk'
  BY DEF Tidy, CutOk, HomeSide
<1> QED BY <1>1, <1>2 DEF Tidy

\* Nothing is open of a move that is not under way.
LEMMA NotAtHand ==
    ASSUME NEW m \in Mover, move'[m].pc \notin AtHand, move'[m].todo = {}
    PROVE  FarCut(m)' /\ CopyOk(m)'
  BY DEF FarCut, CopyOk, AtHand, Underway

LEMMA SoloTidy ==
    ASSUME Solo, NEW m \in Mover, move[m].pc # "idle", OtherMovesStay(m),
           CutOk', FarCut(m)', CopyOk(m)'
    PROVE  Tidy'
<1>1. ASSUME NEW n \in Mover, n # m PROVE FarCut(n)' /\ CopyOk(n)'
  <2>1. move'[n].pc = "idle"
    BY <1>1 DEF Solo, OtherMovesStay
  <2> QED BY <2>1 DEF FarCut, CopyOk, AtHand, Underway
<1> QED BY <1>1 DEF Tidy

LEMMA BeginTidy ==
    ASSUME Based, Tidy, NEW m \in Mover, NEW r \in root, NEW new \in Target, MoveBegin(m, r, new)
    PROVE  Tidy'
<1> DEFINE q == [NoMove EXCEPT !.pc = "list", !.id = r.id, !.old = r.path, !.new = new]
<1>1. Step(m, q) /\ UNCHANGED <<disk, author>>
  BY DEF MoveBegin, scanVars, tables
<1>2. q.pc = "list" /\ q.todo = {}
  BY DEF NoMove
<1> HIDE DEF q
<1>3. move'[m] = q /\ OtherMovesStay(m)
  BY <1>1, StepSet DEF Based
<1> QED BY <1>1, <1>2, <1>3, NotAtHand, QuietTidy DEF AtHand

LEMMA ListTidy ==
    ASSUME Based, EndsApart, RoomToMove, Tidy, NEW m \in Mover, ListAuthors(m)
    PROVE  Tidy'
<1> DEFINE r == move[m]
           dirs == {a.path : a \in {b \in author : Like(r.old, b.path)}}
           q == [r EXCEPT !.pc = "folders", !.todo = dirs]
<1>1. Step(m, q) /\ UNCHANGED <<disk, author>> /\ r.pc = "list" /\ RequestOk(r)
  BY TheRequest DEF Based, ListAuthors, scanVars, tables
<1>2. r.old \in Ends /\ r.new \in Ends /\ r.old # r.new /\ r \in MoveJob
  BY <1>1 DEF RequestOk, Underway
<1>3. q.pc = "folders" /\ q.todo = dirs /\ q.new = r.new /\ q.old = r.old
  BY <1>2 DEF MoveJob
<1> HIDE DEF q, r
<1>4. move'[m] = q /\ OtherMovesStay(m)
  BY <1>1, StepSet DEF Based
<1>5. CopyOk(m)'
  <2>1. \A dir \in dirs : \E a \in author' : a.path = dir
    BY <1>1
  <2> QED BY <1>3, <1>4, <2>1 DEF CopyOk
<1>6. FarCut(m)'
  <2>1. ASSUME NEW o \in Place, disk[o] = Cut, Under(r.new, o)
        PROVE  \E dir \in dirs, p \in Place : Under(dir, p) /\ Twins(p, o)
    <3>1. PICK p \in Place : Twins(p, o) /\ HomeSide(p)
      BY <2>1 DEF Tidy, CutOk
    <3>2. PICK a \in author : Under(a.path, p)
      BY <3>1 DEF HomeSide
    <3>3. PICK d \in Ends, n \in Name : a.path = Append(d, n)
      BY DEF Based, AuthorsHome
    <3>4. Under(r.old, p)
      BY <1>2, <2>1, <3>1, TwinEnds
    <3>5. Under(d, p)
      BY <3>2, <3>3, EndPaths, InFolder
    <3>6. d = r.old
      BY <1>2, <3>4, <3>5, OneEnd
    <3>7. Like(r.old, a.path)
      BY <1>2, <3>3, <3>6, RebasedFolder
    <3> QED BY <3>1, <3>2, <3>7
  <2> QED BY <1>1, <1>3, <1>4, <2>1 DEF FarCut
<1> QED BY <1>1, <1>4, <1>5, <1>6, QuietTidy

\* What a step that neither opens nor closes a copy keeps.
LEMMA SkipTidy ==
    ASSUME Based, EndsApart, RoomToMove, Tidy, NEW m \in Mover, NEW dir \in move[m].todo,
           SkipFolder(m, dir)
    PROVE  Tidy'
<1> DEFINE r == move[m]
           q == [r EXCEPT !.todo = @ \ {dir}]
<1>1. Step(m, q) /\ UNCHANGED <<disk, author>> /\ r.pc = "folders" /\ FilesUnder(dir) = {}
  BY DEF SkipFolder, scanVars, tables
<1>2. r \in MoveJob
  BY TheRequest DEF Based, RequestOk
<1>3. q.pc = "folders" /\ q.todo = r.todo \ {dir} /\ q.new = r.new
  BY <1>1, <1>2 DEF MoveJob
<1> HIDE DEF q
<1>4. move'[m] = q /\ OtherMovesStay(m)
  BY <1>1, StepSet DEF Based
<1>5. CopyOk(m)'
  BY <1>1, <1>3, <1>4 DEF Tidy, CopyOk, Underway, AtHand
<1>6. FarCut(m)'
  <2>1. ASSUME NEW o \in Place, disk[o] = Cut, Under(r.new, o)
        PROVE  \E x \in r.todo \ {dir}, p \in Place : Under(x, p) /\ Twins(p, o)
    <3>1. PICK x \in r.todo, p \in Place : Under(x, p) /\ Twins(p, o)
      BY <1>1, <2>1 DEF Tidy, FarCut, AtHand
    <3>2. PICK p1 \in Place : Twins(p1, o) /\ disk[p1] \in Content
      BY <2>1 DEF Tidy, CutOk
    <3>3. p = p1
      BY <3>1, <3>2, OneSource
    <3>4. p \in FilesUnder(x)
      BY <3>1, <3>2, <3>3, ConstantsOK DEF FilesUnder, OnDisk
    <3> QED BY <1>1, <3>1, <3>4
  <2> QED BY <1>1, <1>3, <1>4, <2>1 DEF FarCut
<1> QED BY <1>1, <1>4, <1>5, <1>6, QuietTidy

LEMMA CopyFolderTidy ==
    ASSUME Based, Tidy, NEW m \in Mover, NEW dir \in move[m].todo, CopyFolder(m, dir)
    PROVE  Tidy'
<1> DEFINE r == move[m]
           q == [r EXCEPT !.pc = "copy", !.cur = dir, !.left = FilesUnder(dir)]
<1>1. Step(m, q) /\ UNCHANGED <<disk, author>> /\ r.pc = "folders"
  BY DEF CopyFolder, scanVars, tables
<1>2. r \in MoveJob
  BY TheRequest DEF Based, RequestOk
<1>3. q.pc = "copy" /\ q.todo = r.todo /\ q.new = r.new /\ q.cur = dir /\ q.left = FilesUnder(dir)
  BY <1>1, <1>2 DEF MoveJob
<1> HIDE DEF q
<1>4. move'[m] = q /\ OtherMovesStay(m)
  BY <1>1, StepSet DEF Based
<1>5. FilesUnder(dir)' = FilesUnder(dir)
  BY <1>1 DEF FilesUnder, OnDisk
<1>6. CopyOk(m)'
  BY <1>1, <1>3, <1>4, <1>5 DEF Tidy, CopyOk, Underway, AtHand
<1>7. FarCut(m)'
  BY <1>1, <1>3, <1>4 DEF Tidy, FarCut, AtHand
<1> QED BY <1>1, <1>4, <1>6, <1>7, QuietTidy

LEMMA RenamedDisk ==
    ASSUME Based, EndsApart, RoomToMove, NEW m \in Mover, NEW dir \in move[m].todo,
           RenameFolder(m, dir), NEW p \in Place
    PROVE  /\ p \in FilesUnder(dir) => disk'[p] = Absent
           /\ \A x \in FilesUnder(dir) : Twins(x, p) => disk'[p] = disk[x] /\ disk[p] = Absent
           /\ (p \notin FilesUnder(dir) /\ \A x \in FilesUnder(dir) : ~Twins(x, p)) => disk'[p] = disk[p]
<1> DEFINE r  == move[m]
           to == Rebase(dir, r.old, r.new)
           files == FilesUnder(dir)
           sent(q) == Moved(q, dir, to)
<1>1. disk' = [q \in Place |-> IF q \in files THEN Absent
                               ELSE IF \E x \in files : q = sent(x)
                                    THEN disk[CHOOSE x \in files : q = sent(x)]
                               ELSE disk[q]]
      /\ FilesUnder(to) = {} /\ r.pc \in AtHand
  BY DEF RenameFolder, DiskBecomes, AtHand
<1>2. \A x \in files : x \in Place /\ Under(dir, x)
  BY DEF FilesUnder
<1> HIDE DEF files
<1>3. \A x \in files : sent(x) \in Place /\ Twins(x, sent(x)) /\ Under(to, sent(x)) /\ ~Under(dir, sent(x))
  BY <1>1, <1>2, Sending
<1> HIDE DEF sent, to
<1>4. \A x \in files : Twins(x, p) => p = sent(x)
  BY <1>2, <1>3, OneTwin
<1>5. \A x, y \in files : (p = sent(x) /\ p = sent(y)) => x = y
  BY <1>2, <1>3, OneSource
<1>6. ASSUME NEW x \in files, Twins(x, p) PROVE disk'[p] = disk[x] /\ disk[p] = Absent
  <2>1. p = sent(x) /\ p \notin files
    BY <1>2, <1>3, <1>4, <1>6
  <2>2. (CHOOSE y \in files : p = sent(y)) = x
    BY <1>5, <2>1
  <2>3. disk'[p] = disk[x]
    BY <1>1, <2>1, <2>2
  <2>4. disk[p] = Absent
    BY <1>1, <1>3, <2>1 DEF FilesUnder, OnDisk
  <2> QED BY <2>3, <2>4
<1>7. (p \notin files /\ \A x \in files : ~Twins(x, p)) => disk'[p] = disk[p]
  BY <1>1, <1>3
<1> QED BY <1>1, <1>6, <1>7 DEF files

LEMMA RenameTidy ==
    ASSUME Based, EndsApart, RoomToMove, Solo, OneHome, Tidy, NEW m \in Mover,
           NEW dir \in move[m].todo, RenameFolder(m, dir)
    PROVE  Tidy'
<1> DEFINE r == move[m]
           q == [r EXCEPT !.todo = @ \ {dir}]
           files == FilesUnder(dir)
<1>1. Step(m, q) /\ author' = author /\ r.pc = "folders" /\ r.pc \in AtHand
  BY DEF RenameFolder, tables, AtHand
<1>2. r \in MoveJob
  BY TheRequest DEF Based, RequestOk
<1>3. q.pc = "folders" /\ q.todo = r.todo \ {dir} /\ q.new = r.new
  BY <1>1, <1>2 DEF MoveJob
<1> HIDE DEF q
<1>4. move'[m] = q /\ OtherMovesStay(m)
  BY <1>1, StepSet DEF Based
<1>5. CopyOk(m)'
  BY <1>1, <1>3, <1>4 DEF Tidy, CopyOk, Underway, AtHand
<1>6. \A x \in files : x \in Place /\ Under(dir, x) /\ HomeSide(x) /\ disk[x] \in Content
  BY <1>1, WholeAtHand
<1>7. \A p \in Place : p \in files \/ (\E x \in files : Twins(x, p)) \/ disk'[p] = disk[p]
  BY RenamedDisk
<1>8. ASSUME NEW o \in Place, disk'[o] = Cut
      PROVE  disk[o] = Cut /\ o \notin files /\ \A x \in files : ~Twins(x, o)
  <2>1. o \notin files
    BY <1>8, RenamedDisk, ConstantsOK
  <2>2. ASSUME NEW x \in files, Twins(x, o) PROVE FALSE
    <3>1. disk'[o] = disk[x]
      BY <2>2, RenamedDisk
    <3> QED BY <1>6, <1>8, <3>1, ConstantsOK
  <2> QED BY <1>7, <1>8, <2>1, <2>2
<1>9. CutOk'
  <2>1. ASSUME NEW o \in Place, disk'[o] = Cut
        PROVE  \E p \in Place : Twins(p, o) /\ disk'[p] \in Content /\ HomeSide(p)
    <3>1. disk[o] = Cut /\ o \notin files /\ \A x \in files : ~Twins(x, o)
      BY <1>8, <2>1
    <3>2. PICK p \in Place : Twins(p, o) /\ disk[p] \in Content /\ HomeSide(p)
      BY <3>1 DEF Tidy, CutOk
    <3>3. p \notin files
      BY <3>1, <3>2
    <3>4. ASSUME NEW x \in files, Twins(x, p) PROVE FALSE
      <4>1. Twins(p, x)
        BY <1>6, <3>4, TwinPlaces
      <4>2. x = o
        BY <3>2, <4>1, OneTwin
      <4> QED BY <3>1, <4>2
    <3>5. disk'[p] = disk[p]
      BY <1>7, <3>3, <3>4
    <3> QED BY <3>2, <3>5
  <2>2. \A p : HomeSide(p)' = HomeSide(p)
    BY <1>1 DEF HomeSide
  <2> QED BY <2>1, <2>2 DEF CutOk
<1>10. FarCut(m)'
  <2>1. ASSUME NEW o \in Place, disk'[o] = Cut, Under(r.new, o)
        PROVE  \E x \in r.todo \ {dir}, p \in Place : Under(x, p) /\ Twins(p, o)
    <3>1. disk[o] = Cut /\ \A x \in files : ~Twins(x, o)
      BY <1>8, <2>1
    <3>2. PICK x \in r.todo, p \in Place : Under(x, p) /\ Twins(p, o)
      BY <1>1, <2>1, <3>1 DEF Tidy, FarCut
    <3>3. PICK p1 \in Place : Twins(p1, o) /\ disk[p1] \in Content
      BY <3>1 DEF Tidy, CutOk
    <3>4. p = p1
      BY <3>2, <3>3, OneSource
    <3>5. p \in FilesUnder(x)
      BY <3>2, <3>3, <3>4, ConstantsOK DEF FilesUnder, OnDisk
    <3> QED BY <3>1, <3>2, <3>5
  <2> QED BY <1>3, <1>4, <2>1 DEF FarCut
<1> QED BY <1>1, <1>4, <1>5, <1>9, <1>10, SoloTidy

\* The copy of one file: where it goes to and what else there is.
LEMMA CopyTarget ==
    ASSUME Based, EndsApart, RoomToMove, Tidy, OneHome, NEW m \in Mover,
           move[m].pc \in {"copy", "bytes"}, NEW p \in move[m].left
    PROVE  LET o == Destination(move[m], p) IN
           /\ o \in Place /\ Twins(p, o) /\ ~Under(move[m].cur, o) /\ o # p
           /\ p \in Place /\ Under(move[m].cur, p) /\ HomeSide(p) /\ disk[p] \in Content
           /\ \A x \in Place : Twins(x, o) => x = p
           /\ \A x : Twins(o, x) => x = p
<1> DEFINE r == move[m]
           o == Destination(r, p)
<1>1. r.cur \in r.todo /\ r.pc \in AtHand
  BY TheRequest DEF Based, RequestOk, AtHand
<1>2. p \in FilesUnder(r.cur)
  BY DEF Tidy, CopyOk
<1>3. p \in Place /\ Under(r.cur, p) /\ HomeSide(p) /\ disk[p] \in Content
  BY <1>1, <1>2, WholeAtHand
<1>4. o \in Place /\ Twins(p, o) /\ ~Under(r.cur, o)
  BY <1>1, <1>3, Sending DEF Destination
<1> HIDE DEF o, r
<1>5. \A x \in Place : Twins(x, o) => x = p
  BY <1>3, <1>4, OneSource
<1>6. \A x : Twins(o, x) => x = p
  BY <1>3, <1>4, TwinPlaces, OneTwin
<1> QED BY <1>3, <1>4, <1>5, <1>6 DEF o, r

LEMMA OpenTidy ==
    ASSUME Based, EndsApart, RoomToMove, Solo, OneHome, Tidy, NEW m \in Mover,
           NEW p \in move[m].left, OpenFile(m, p)
    PROVE  Tidy'
<1> DEFINE r == move[m]
           o == Destination(r, p)
           q == [r EXCEPT !.pc = "bytes", !.src = p, !.held = disk[p]]
<1>1. r.pc = "copy" /\ r.pc \in AtHand /\ r \in MoveJob /\ author' = author
  BY TheRequest DEF OpenFile, AtHand, Based, RequestOk, tables
<1>2. /\ o \in Place /\ Twins(p, o) /\ ~Under(r.cur, o) /\ o # p
      /\ p \in Place /\ Under(r.cur, p) /\ HomeSide(p) /\ disk[p] \in Content
      /\ \A x \in Place : Twins(x, o) => x = p
      /\ \A x : Twins(o, x) => x = p
  BY <1>1, CopyTarget
<1>3. OnDisk(p)
  BY <1>2, ConstantsOK DEF OnDisk
<1>4. disk' = [disk EXCEPT ![o] = Cut] /\ Step(m, q)
  BY <1>3 DEF OpenFile, DiskBecomes
<1>5. /\ q.pc = "bytes" /\ q.todo = r.todo /\ q.new = r.new /\ q.cur = r.cur /\ q.left = r.left
      /\ q.src = p /\ q.held = disk[p]
  BY <1>1 DEF MoveJob
<1> HIDE DEF o, q
<1>6. move'[m] = q /\ OtherMovesStay(m)
  BY <1>4, StepSet DEF Based
<1>7. disk'[o] = Cut /\ \A x \in Place : x # o => disk'[x] = disk[x]
  BY <1>2, <1>4 DEF Based, Types, Disk
<1>8. \A x : HomeSide(x)' = HomeSide(x)
  BY <1>1 DEF HomeSide
<1>9. CutOk'
  <2>1. ASSUME NEW x \in Place, disk'[x] = Cut
        PROVE  \E y \in Place : Twins(y, x) /\ disk'[y] \in Content /\ HomeSide(y)
    <3>1. CASE x = o
      BY <1>2, <1>7, <3>1
    <3>2. CASE x # o
      <4>1. PICK y \in Place : Twins(y, x) /\ disk[y] \in Content /\ HomeSide(y)
        BY <1>7, <2>1, <3>2 DEF Tidy, CutOk
      <4>2. y # o
        BY <1>2, <1>7, <2>1, <3>2, <4>1, ConstantsOK
      <4> QED BY <1>7, <4>1, <4>2
    <3> QED BY <3>1, <3>2
  <2> QED BY <1>8, <2>1 DEF CutOk
<1>10. FarCut(m)'
  <2>1. ASSUME NEW x \in Place, disk'[x] = Cut, Under(r.new, x)
        PROVE  \E dir \in r.todo, y \in Place : Under(dir, y) /\ Twins(y, x)
    <3>1. CASE x = o
      <4>1. r.cur \in r.todo
        BY <1>1, TheRequest DEF Based, RequestOk
      <4> QED BY <1>2, <3>1, <4>1
    <3>2. CASE x # o
      BY <1>1, <1>7, <2>1, <3>2 DEF Tidy, FarCut
    <3> QED BY <3>1, <3>2
  <2> QED BY <1>5, <1>6, <2>1 DEF FarCut
<1>11. FilesUnder(r.cur)' = FilesUnder(r.cur)
  <2>1. move'[m].cur = r.cur
    BY <1>5, <1>6
  <2>2. \A x \in Place : Under(r.cur, x) => disk'[x] = disk[x]
    BY <1>2, <1>7
  <2> QED BY <2>1, <2>2 DEF FilesUnder, OnDisk
<1>12. CopyOk(m)'
  <2>1. \A dir \in r.todo : \E a \in author : a.path = dir
    BY <1>1 DEF Tidy, CopyOk, Underway
  <2>2. /\ r.left \subseteq FilesUnder(r.cur)
        /\ \A x \in FilesUnder(r.cur) \ r.left : \A y \in Place : Twins(x, y) => disk[y] = disk[x]
    BY <1>1 DEF Tidy, CopyOk
  <2>3. ASSUME NEW x \in FilesUnder(r.cur) \ r.left, NEW y \in Place, Twins(x, y)
        PROVE  disk'[y] = disk'[x]
    <3>1. x \in Place /\ Under(r.cur, x) /\ x # p
      BY <2>3 DEF FilesUnder
    <3>2. x # o /\ y # o
      BY <1>2, <2>3, <3>1
    <3> QED BY <1>7, <2>2, <2>3, <3>1, <3>2
  <2>4. disk'[p] = disk[p]
    BY <1>2, <1>7
  <2> QED BY <1>1, <1>5, <1>6, <1>11, <2>1, <2>2, <2>3, <2>4 DEF CopyOk
<1> QED BY <1>1, <1>6, <1>9, <1>10, <1>12, SoloTidy

LEMMA CopyTidy ==
    ASSUME Based, EndsApart, RoomToMove, Solo, OneHome, Tidy, NEW m \in Mover, CopyFile(m)
    PROVE  Tidy'
<1> DEFINE r == move[m]
           p == r.src
           o == Destination(r, p)
           q == [r EXCEPT !.pc = "copy", !.left = @ \ {r.src}, !.src = NoPlace, !.held = Absent]
<1>1. r.pc = "bytes" /\ r.pc \in AtHand /\ r \in MoveJob /\ author' = author /\ p \in r.left
      /\ r.held = disk[p]
  BY TheRequest DEF CopyFile, AtHand, Based, RequestOk, tables, Tidy, CopyOk
<1>2. /\ o \in Place /\ Twins(p, o) /\ ~Under(r.cur, o) /\ o # p
      /\ p \in Place /\ Under(r.cur, p) /\ HomeSide(p) /\ disk[p] \in Content
      /\ \A x \in Place : Twins(x, o) => x = p
      /\ \A x : Twins(o, x) => x = p
  BY <1>1, CopyTarget
<1>3. disk' = [disk EXCEPT ![o] = disk[p]] /\ Step(m, q)
  BY <1>1 DEF CopyFile, DiskBecomes
<1>4. q.pc = "copy" /\ q.todo = r.todo /\ q.new = r.new /\ q.cur = r.cur /\ q.left = r.left \ {p}
  BY <1>1 DEF MoveJob
<1> HIDE DEF o, q
<1>5. move'[m] = q /\ OtherMovesStay(m)
  BY <1>3, StepSet DEF Based
<1>6. disk'[o] = disk[p] /\ \A x \in Place : x # o => disk'[x] = disk[x]
  BY <1>2, <1>3 DEF Based, Types, Disk
<1>7. \A x : HomeSide(x)' = HomeSide(x)
  BY <1>1 DEF HomeSide
<1>8. \A x \in Place : disk'[x] = Cut => x # o /\ disk[x] = Cut
  BY <1>2, <1>6, ConstantsOK
<1>9. CutOk'
  <2>1. ASSUME NEW x \in Place, disk'[x] = Cut
        PROVE  \E y \in Place : Twins(y, x) /\ disk'[y] \in Content /\ HomeSide(y)
    <3>1. PICK y \in Place : Twins(y, x) /\ disk[y] \in Content /\ HomeSide(y)
      BY <1>8, <2>1 DEF Tidy, CutOk
    <3>2. y # o
      BY <1>2, <1>8, <2>1, <3>1, ConstantsOK
    <3> QED BY <1>6, <3>1, <3>2
  <2> QED BY <1>7, <2>1 DEF CutOk
<1>10. FarCut(m)'
  BY <1>1, <1>4, <1>5, <1>8 DEF Tidy, FarCut
<1>11. FilesUnder(r.cur)' = FilesUnder(r.cur)
  <2>1. move'[m].cur = r.cur
    BY <1>4, <1>5
  <2>2. \A x \in Place : Under(r.cur, x) => disk'[x] = disk[x]
    BY <1>2, <1>6
  <2> QED BY <2>1, <2>2 DEF FilesUnder, OnDisk
<1>12. CopyOk(m)'
  <2>1. \A dir \in r.todo : \E a \in author : a.path = dir
    BY <1>1 DEF Tidy, CopyOk, Underway
  <2>2. /\ r.left \subseteq FilesUnder(r.cur)
        /\ \A x \in FilesUnder(r.cur) \ r.left : \A y \in Place : Twins(x, y) => disk[y] = disk[x]
    BY <1>1 DEF Tidy, CopyOk
  <2>3. ASSUME NEW x \in FilesUnder(r.cur) \ (r.left \ {p}), NEW y \in Place, Twins(x, y)
        PROVE  disk'[y] = disk'[x]
    <3>1. x \in Place /\ Under(r.cur, x) /\ x # o
      BY <1>2, <2>3 DEF FilesUnder
    <3>2. CASE x = p
      <4>1. y = o
        BY <1>2, <2>3, <3>2, OneTwin
      <4> QED BY <1>2, <1>6, <3>2, <4>1
    <3>3. CASE x # p
      <4>1. y # o
        BY <1>2, <2>3, <3>1, <3>3
      <4> QED BY <1>6, <2>2, <2>3, <3>1, <3>3, <4>1
    <3> QED BY <3>2, <3>3
  <2> QED BY <1>1, <1>4, <1>5, <1>11, <2>1, <2>2, <2>3 DEF CopyOk
<1> QED BY <1>1, <1>5, <1>9, <1>10, <1>12, SoloTidy

\* RemoveAll takes no file whose copy is not whole.
LEMMA RemovedDisk ==
    ASSUME Based, EndsApart, RoomToMove, OneHome, Tidy, NEW m \in Mover, RemoveOld(m), NEW p \in Place
    PROVE  \/ disk'[p] = disk[p]
           \/ /\ p \in FilesUnder(move[m].cur) /\ disk'[p] = Absent /\ disk[p] \in Content
              /\ \A q \in Place : Twins(p, q) => disk[q] = disk[p] /\ disk'[q] = disk[q]
<1> DEFINE r == move[m]
           files == FilesUnder(r.cur)
<1>1. r.pc = "copy" /\ r.left = {} /\ r.pc \in AtHand /\ r.cur \in r.todo
  BY TheRequest DEF RemoveOld, AtHand, Based, RequestOk
<1>2. PICK kept \in SUBSET files : disk' = [x \in Place |-> IF x \in files \ kept THEN Absent ELSE disk[x]]
  BY DEF RemoveOld, DiskBecomes
<1>3. ASSUME p \in files
      PROVE  disk[p] \in Content /\ \A q \in Place : Twins(p, q) => disk[q] = disk[p] /\ q \notin files
  <2>1. disk[p] \in Content /\ Under(r.cur, p)
    BY <1>1, <1>3, WholeAtHand
  <2>2. ASSUME NEW q \in Place, Twins(p, q) PROVE ~Under(r.cur, q)
    <3>1. Twins(p, Destination(r, p)) /\ ~Under(r.cur, Destination(r, p))
      BY <1>1, <2>1, Sending DEF Destination
    <3> QED BY <2>2, <3>1, OneTwin
  <2>3. \A q \in Place : Twins(p, q) => disk[q] = disk[p]
    BY <1>1, <1>3 DEF Tidy, CopyOk
  <2> QED BY <2>1, <2>2, <2>3 DEF FilesUnder
<1> HIDE DEF files
<1> QED BY <1>2, <1>3 DEF files

LEMMA RemoveTidy ==
    ASSUME Based, EndsApart, RoomToMove, Solo, OneHome, Tidy, NEW m \in Mover, RemoveOld(m)
    PROVE  Tidy'
<1> DEFINE r == move[m]
           q == [r EXCEPT !.pc = "folders", !.todo = @ \ {r.cur}, !.cur = <<>>]
<1>1. r.pc = "copy" /\ r.pc \in AtHand /\ r \in MoveJob /\ author' = author /\ Step(m, q) /\ r.left = {}
  BY TheRequest DEF RemoveOld, AtHand, Based, RequestOk, tables
<1>2. q.pc = "folders" /\ q.todo = r.todo \ {r.cur} /\ q.new = r.new
  BY <1>1 DEF MoveJob
<1> HIDE DEF q
<1>3. move'[m] = q /\ OtherMovesStay(m)
  BY <1>1, StepSet DEF Based
<1>4. ASSUME NEW x \in Place, disk'[x] = Cut
      PROVE  /\ disk[x] = Cut
             /\ \E y \in Place : /\ Twins(y, x) /\ disk[y] \in Content /\ HomeSide(y)
                                 /\ disk'[y] = disk[y] /\ y \notin FilesUnder(r.cur)
  <2>1. disk[x] = Cut
    BY <1>4, RemovedDisk, ConstantsOK
  <2>2. PICK y \in Place : Twins(y, x) /\ disk[y] \in Content /\ HomeSide(y)
    BY <2>1 DEF Tidy, CutOk
  <2>3. y \notin FilesUnder(r.cur)
    BY <1>1, <2>1, <2>2, ConstantsOK DEF Tidy, CopyOk
  <2> QED BY <2>1, <2>2, <2>3, RemovedDisk
<1>5. CutOk'
  <2>1. \A x : HomeSide(x)' = HomeSide(x)
    BY <1>1 DEF HomeSide
  <2> QED BY <1>4, <2>1 DEF CutOk
<1>6. CopyOk(m)'
  BY <1>1, <1>2, <1>3 DEF Tidy, CopyOk, Underway, AtHand
<1>7. FarCut(m)'
  <2>1. ASSUME NEW o \in Place, disk'[o] = Cut, Under(r.new, o)
        PROVE  \E x \in r.todo \ {r.cur}, p \in Place : Under(x, p) /\ Twins(p, o)
    <3>1. disk[o] = Cut
      BY <1>4, <2>1
    <3>2. PICK x \in r.todo, p \in Place : Under(x, p) /\ Twins(p, o)
      BY <1>1, <2>1, <3>1 DEF Tidy, FarCut
    <3>3. PICK y \in Place : Twins(y, o) /\ disk[y] \in Content /\ y \notin FilesUnder(r.cur)
      BY <1>4, <2>1
    <3>4. p = y
      BY <3>2, <3>3, OneSource
    <3>5. x # r.cur
      BY <3>2, <3>3, <3>4, ConstantsOK DEF FilesUnder, OnDisk
    <3> QED BY <3>2, <3>5
  <2> QED BY <1>2, <1>3, <2>1 DEF FarCut
<1> QED BY <1>1, <1>3, <1>5, <1>6, <1>7, SoloTidy

\* The transaction turns no copy that broke off into an author's file.
LEMMA CommitTidy ==
    ASSUME Based, EndsApart, RoomToMove, Solo, Tidy, NEW m \in Mover, Commit(m)
    PROVE  Tidy'
<1> DEFINE r == move[m]
           q == [NoMove EXCEPT !.pc = "done", !.old = r.old]
<1>1. /\ r.pc = "folders" /\ r.pc \in AtHand /\ r.todo = {} /\ RequestOk(r) /\ Step(m, q) /\ disk' = disk
      /\ author' = {IF Like(r.old, a.path) THEN [a EXCEPT !.path = Rebase(a.path, r.old, r.new)] ELSE a :
                       a \in author}
  BY TheRequest DEF Based, Commit, NewAuthors, AtHand
<1>2. r.old \in Ends /\ r.new \in Ends /\ r.old # r.new
  BY <1>1 DEF RequestOk, Underway
<1>3. q.pc = "done" /\ q.todo = {}
  BY DEF NoMove
<1> HIDE DEF q, r
<1>4. move'[m] = q /\ OtherMovesStay(m)
  BY <1>1, StepSet DEF Based
<1>5. CutOk'
  <2>1. ASSUME NEW o \in Place, disk[o] = Cut
        PROVE  \E p \in Place : Twins(p, o) /\ disk[p] \in Content /\ HomeSide(p)'
    <3>1. PICK p \in Place : Twins(p, o) /\ disk[p] \in Content /\ HomeSide(p)
      BY <2>1 DEF Tidy, CutOk
    <3>2. PICK a \in author : Under(a.path, p)
      BY <3>1 DEF HomeSide
    <3>3. ~Under(r.new, o)
      BY <1>1, <2>1 DEF Tidy, FarCut, r
    <3>4. Under(r.new, p)
      BY <1>2, <3>1, <3>3, TwinEnds
    <3>5. PICK d \in Ends, n \in Name : a.path = Append(d, n)
      BY DEF Based, AuthorsHome
    <3>6. Under(d, p)
      BY <3>2, <3>5, EndPaths, InFolder
    <3>7. d = r.new
      BY <1>2, <3>4, <3>6, OneEnd
    <3>8. ~Like(r.old, a.path)
      BY <1>2, <3>5, <3>7 DEF EndsApart
    <3>9. a \in author'
      BY <1>1, <3>8
    <3> QED BY <3>1, <3>2, <3>9 DEF HomeSide
  <2> QED BY <1>1, <2>1 DEF CutOk
<1>6. FarCut(m)' /\ CopyOk(m)'
  BY <1>3, <1>4, NotAtHand DEF AtHand
<1> QED BY <1>1, <1>4, <1>5, <1>6, SoloTidy DEF r

\* The other ends of a move leave everything as it is.
LEMMA BackTidy ==
    ASSUME Based, Tidy, NEW m \in Mover, Step(m, NoMove), UNCHANGED <<disk, author>>
    PROVE  Tidy'
<1>1. move'[m] = NoMove /\ OtherMovesStay(m)
  BY StepSet DEF Based
<1> QED BY <1>1, NotAtHand, QuietTidy DEF NoMove, AtHand

LEMMA MoveStepTidy ==
    ASSUME Based, EndsApart, RoomToMove, Solo, OneHome, Tidy, NEW m \in Mover, MoveStep(m)
    PROVE  Tidy'
<1>1. ASSUME CopyFails(m) \/ Rollback(m) \/ MoveReturns(m) PROVE Tidy'
  BY <1>1, BackTidy DEF CopyFails, Rollback, MoveReturns, scanVars, tables
<1> QED BY <1>1, BeginTidy, ListTidy, SkipTidy, RenameTidy, CopyFolderTidy, OpenTidy, CopyTidy,
           RemoveTidy, CommitTidy DEF MoveStep

\* More authors change nothing.
LEMMA MoreAuthorsTidy ==
    ASSUME Tidy, disk' = disk, author \subseteq author', move' = move
    PROVE  Tidy'
<1>1. \A p : HomeSide(p) => HomeSide(p)'
  BY DEF HomeSide
<1>2. CutOk'
  BY <1>1 DEF Tidy, CutOk
<1>3. ASSUME NEW m \in Mover PROVE FarCut(m)' /\ CopyOk(m)'
  <2>1. FarCut(m)'
    BY DEF Tidy, FarCut
  <2>2. FilesUnder(move[m].cur)' = FilesUnder(move[m].cur)
    BY DEF FilesUnder, OnDisk
  <2>3. CopyOk(m)'
    BY <2>2 DEF Tidy, CopyOk
  <2> QED BY <2>1, <2>3
<1> QED BY <1>2, <1>3 DEF Tidy

LEMMA ScanKeepsAuthors ==
    ASSUME NEW s \in Scan, ScanStep(s)
    PROVE  disk' = disk /\ author \subseteq author'
  BY DEF ScanStep, ScanBegin, Snapshot, ReadDir, ReadDirFails, Visit, Compare, UpdateFile, Match,
         Discover, CreateAuthor, FindBook, CreateBook, AddFile, RemoveRow, ScanEnd, ScanAborted, Reads, tables

LEMMA CrashTidy ==
    ASSUME Tidy, Crash
    PROVE  Tidy'
<1>1. UNCHANGED <<disk, author>> /\ \A m \in Mover : move'[m] = NoMove
  BY DEF Crash, tables
<1>2. \A m \in Mover : FarCut(m)' /\ CopyOk(m)'
  BY <1>1, NotAtHand DEF NoMove, AtHand
<1>3. CutOk'
  BY <1>1 DEF Tidy, CutOk, HomeSide
<1> QED BY <1>2, <1>3 DEF Tidy

LEMMA TidyNext ==
    ASSUME EndsApart, RoomToMove, Based, Solo, OneHome, Tidy, [MNext]_vars, [~User]_vars
    PROVE  Tidy'
<1>1. CASE LibraryStep /\ ~User
  BY <1>1, ScanKeepsAuthors, MoreAuthorsTidy DEF LibraryStep
<1>2. CASE \E m \in Mover : MoveStep(m)
  BY <1>2, MoveStepTidy
<1>3. CASE EditRoot
  BY <1>3, MoreAuthorsTidy DEF EditRoot, CreateRoot, UpdateRoot, DeleteRoot, Edit
<1>4. CASE Crash
  BY <1>4, CrashTidy
<1>5. CASE UNCHANGED vars
  BY <1>5, MoreAuthorsTidy DEF vars, moveVars, scanVars, tables
<1> QED BY <1>1, <1>2, <1>3, <1>4, <1>5 DEF MNext

-----------------------------------------------------------------------------
(* Nothing is lost. *)

\* A write of a move takes a content away only from where it is twice, and
\* leaves twins alike.
Keeps(p) ==
    \/ disk'[p] = disk[p]
    \/ disk[p] \in Content => \E q \in Place : disk[p] = disk'[q]

LEMMA KeptFrame ==
    ASSUME Kept, owned' = owned, \A p \in Place : Keeps(p),
           \A p, q \in Place : (Twins(p, q) /\ disk'[p] \in Content /\ disk'[q] \in Content)
                                    => disk'[p] = disk'[q]
    PROVE  Kept'
<1>1. ASSUME NEW c \in owned PROVE \E p \in Place : disk'[p] = c
  <2>1. PICK p \in Place : disk[p] = c /\ disk[p] \in Content
    BY DEF Kept, MoveLosesNothing
  <2> QED BY <2>1 DEF Keeps
<1>2. MoveLosesNothing'
  BY <1>1 DEF MoveLosesNothing
<1>3. TwinsAlike'
  BY DEF TwinsAlike
<1> QED BY <1>2, <1>3 DEF Kept

LEMMA RenameKeeps ==
    ASSUME Based, EndsApart, RoomToMove, OneHome, Tidy, Kept, NEW m \in Mover,
           NEW dir \in move[m].todo, RenameFolder(m, dir)
    PROVE  Kept'
<1> DEFINE files == FilesUnder(dir)
<1>1. \A x \in files : x \in Place /\ Under(dir, x) /\ disk[x] \in Content
  BY WholeAtHand DEF RenameFolder, AtHand
<1>2. \A p \in Place : p \in files \/ (\E x \in files : Twins(x, p)) \/ disk'[p] = disk[p]
  BY RenamedDisk
<1>3. ASSUME NEW p \in Place PROVE Keeps(p)
  <2>1. CASE p \in files
    <3>1. PICK q \in Place : Twins(p, q)
      BY <1>1, <2>1, Sending DEF RenameFolder, AtHand
    <3>2. disk'[q] = disk[p]
      BY <2>1, <3>1, RenamedDisk
    <3> QED BY <3>2 DEF Keeps
  <2>2. ASSUME NEW x \in files, Twins(x, p) PROVE Keeps(p)
    <3>1. disk[p] = Absent
      BY <2>2, RenamedDisk
    <3> QED BY <3>1, ConstantsOK DEF Keeps
  <2> QED BY <1>2, <2>1, <2>2 DEF Keeps
<1>4. ASSUME NEW p \in Place, disk'[p] \in Content, NEW q \in Place, Twins(p, q), disk'[q] \in Content
      PROVE  disk'[p] = disk[p] /\ disk'[q] = disk[q]
  <2>1. p \notin files /\ q \notin files
    BY <1>4, RenamedDisk, ConstantsOK
  <2>2. \A x \in files : ~Twins(x, p) /\ ~Twins(x, q)
    <3>1. Twins(q, p)
      BY <1>4, TwinPlaces
    <3> QED BY <1>1, <1>4, <2>1, <3>1, OneSource
  <2> QED BY <1>2, <2>1, <2>2
<1>5. owned' = owned
  BY DEF RenameFolder
<1> QED BY <1>3, <1>4, <1>5, KeptFrame DEF Kept, TwinsAlike

\* The destination of a copy holds nothing that its source does not.
LEMMA WriteKeeps ==
    ASSUME Kept, owned' = owned, NEW p \in Place, NEW o \in Place, Twins(p, o), o # p,
           disk[p] \in Content, disk' = [disk EXCEPT ![o] = disk'[o]],
           disk'[o] \in {Cut, disk[p]}, DOMAIN disk = Place,
           \A x \in Place : Twins(x, o) => x = p, \A x : Twins(o, x) => x = p
    PROVE  Kept'
<1>1. \A x \in Place : x # o => disk'[x] = disk[x]
  BY DEF Kept
<1>2. ASSUME NEW x \in Place PROVE Keeps(x)
  <2>1. CASE x = o
    BY <1>1, <2>1 DEF Kept, TwinsAlike, Keeps
  <2>2. CASE x # o
    BY <1>1, <2>2 DEF Keeps
  <2> QED BY <2>1, <2>2
<1>3. ASSUME NEW x \in Place, NEW y \in Place, Twins(x, y), disk'[x] \in Content, disk'[y] \in Content
      PROVE  disk'[x] = disk'[y]
  <2>1. CASE x = o
    BY <1>1, <1>3, <2>1, ConstantsOK
  <2>2. CASE y = o
    BY <1>1, <1>3, <2>2, ConstantsOK
  <2>3. CASE x # o /\ y # o
    BY <1>1, <1>3, <2>3 DEF Kept, TwinsAlike
  <2> QED BY <2>1, <2>2, <2>3
<1> QED BY <1>2, <1>3, KeptFrame

LEMMA CopyKeeps ==
    ASSUME Based, EndsApart, RoomToMove, OneHome, Tidy, Kept, NEW m \in Mover,
           (\E p \in move[m].left : OpenFile(m, p)) \/ CopyFile(m)
    PROVE  Kept'
<1>1. disk \in Disks /\ DOMAIN disk = Place
  BY DEF Based, Types, Disk, Disks
<1>2. ASSUME NEW p \in move[m].left, OpenFile(m, p) PROVE Kept'
  <2> DEFINE o == Destination(move[m], p)
  <2>1. /\ o \in Place /\ Twins(p, o) /\ o # p /\ p \in Place /\ disk[p] \in Content
        /\ (\A x \in Place : Twins(x, o) => x = p) /\ \A x : Twins(o, x) => x = p
    BY <1>2, CopyTarget DEF OpenFile
  <2>2. OnDisk(p)
    BY <2>1, ConstantsOK DEF OnDisk
  <2>3. disk' = [disk EXCEPT ![o] = Cut] /\ owned' = owned
    BY <1>2, <2>2 DEF OpenFile, DiskBecomes
  <2> HIDE DEF o
  <2>4. disk'[o] = Cut
    BY <1>1, <2>1, <2>3
  <2> QED BY <1>1, <2>1, <2>3, <2>4, WriteKeeps
<1>3. ASSUME CopyFile(m) PROVE Kept'
  <2> DEFINE r == move[m]
             p == r.src
             o == Destination(r, p)
  <2>1. r.pc = "bytes" /\ p \in r.left /\ r.held = disk[p]
    BY <1>3, TheRequest DEF CopyFile, Based, RequestOk, Tidy, CopyOk
  <2>2. /\ o \in Place /\ Twins(p, o) /\ o # p /\ p \in Place /\ disk[p] \in Content
        /\ (\A x \in Place : Twins(x, o) => x = p) /\ \A x : Twins(o, x) => x = p
    BY <2>1, CopyTarget
  <2>3. disk' = [disk EXCEPT ![o] = disk[p]] /\ owned' = owned
    BY <1>3, <2>1 DEF CopyFile, DiskBecomes
  <2> HIDE DEF o, p
  <2>4. disk'[o] = disk[p]
    BY <1>1, <2>2, <2>3
  <2> QED BY <1>1, <2>2, <2>3, <2>4, WriteKeeps
<1> QED BY <1>2, <1>3

LEMMA RemoveKeeps ==
    ASSUME Based, EndsApart, RoomToMove, OneHome, Tidy, Kept, NEW m \in Mover, RemoveOld(m)
    PROVE  Kept'
<1>1. move[m].cur \in move[m].todo /\ move[m].pc \in AtHand
  BY TheRequest DEF RemoveOld, AtHand, Based, RequestOk
<1>2. ASSUME NEW p \in Place PROVE Keeps(p)
  <2>1. CASE disk'[p] # disk[p]
    <3>1. /\ p \in FilesUnder(move[m].cur)
          /\ \A q \in Place : Twins(p, q) => disk[q] = disk[p] /\ disk'[q] = disk[q]
      BY <2>1, RemovedDisk
    <3>2. PICK q \in Place : Twins(p, q)
      BY <1>1, <3>1, Sending DEF FilesUnder
    <3> QED BY <3>1, <3>2 DEF Keeps
  <2> QED BY <2>1 DEF Keeps
<1>3. \A p \in Place : disk'[p] \in Content => disk'[p] = disk[p]
  BY RemovedDisk, ConstantsOK
<1>4. owned' = owned
  BY DEF RemoveOld
<1> QED BY <1>2, <1>3, <1>4, KeptFrame DEF Kept, TwinsAlike

LEMMA KeptStays == ASSUME Kept, UNCHANGED <<disk, owned>> PROVE Kept'
  BY DEF Kept, MoveLosesNothing, TwinsAlike

LEMMA KeptNext ==
    ASSUME EndsApart, RoomToMove, Based, OneHome, Tidy, Kept, [MNext]_vars, [~User]_vars
    PROVE  Kept'
<1>1. ASSUME NEW m \in Mover, MoveStep(m) PROVE Kept'
  <2>1. ASSUME \/ \E r \in root, new \in Target : MoveBegin(m, r, new)
               \/ ListAuthors(m)
               \/ \E dir \in move[m].todo : SkipFolder(m, dir) \/ CopyFolder(m, dir)
               \/ CopyFails(m) \/ Commit(m) \/ Rollback(m) \/ MoveReturns(m)
        PROVE  UNCHANGED <<disk, owned>>
    BY <2>1 DEF MoveBegin, ListAuthors, SkipFolder, CopyFolder, CopyFails, Commit, Rollback,
                MoveReturns, scanVars
  <2> QED BY <1>1, <2>1, KeptStays, RenameKeeps, CopyKeeps, RemoveKeeps DEF MoveStep
<1>2. CASE LibraryStep /\ ~User
  BY <1>2, ScanKeepsAuthors, KeptStays DEF LibraryStep
<1>3. CASE EditRoot
  BY <1>3, KeptStays DEF EditRoot, CreateRoot, UpdateRoot, DeleteRoot, Edit
<1>4. CASE Crash
  BY <1>4, KeptStays DEF Crash
<1>5. CASE UNCHANGED vars
  BY <1>5, KeptStays DEF vars, moveVars, scanVars
<1> QED BY <1>1, <1>2, <1>3, <1>4, <1>5 DEF MNext

LEMMA TidyInit == MInit => Tidy
  BY ConstantsOK DEF MInit, Init, Tidy, CutOk, FarCut, CopyOk, NoMove, AtHand, Underway

LEMMA KeptInit ==
    ASSUME LibraryAlike
    PROVE  MInit => Kept
<1> SUFFICES ASSUME MInit PROVE Kept
  OBVIOUS
<1>1. disk = Library /\ owned = {disk[p] : p \in {q \in Place : disk[q] # Absent}}
  BY DEF MInit, Init, OnDisk
<1>2. owned \subseteq Content /\ MoveLosesNothing
  BY <1>1, ConstantsOK DEF MoveLosesNothing
<1>3. TwinsAlike
  BY <1>1, ConstantsOK DEF TwinsAlike, LibraryAlike
<1> QED BY <1>2, <1>3 DEF Kept

\* MoveRootFolder: wherever a move stops, by an error or with the process, and
\* however often it is tried again, there and back, beside any number of scans
\* and with root folders created, changed and deleted meanwhile, every content
\* is whole in some place.  That is so for two paths, neither inside the other,
\* moves one at a time, and authors whose folders are not in both; the user
\* changes no file.
THEOREM MovesKeepContents ==
    ASSUME ~AuthorScans, EndsApart, RoomToMove, LibraryAlike
    PROVE  MSpec /\ []Solo /\ []OneHome /\ [][~User]_vars => []MoveLosesNothing
<1>1. MInit => Tidy /\ Kept
  BY TidyInit, KeptInit
<1>2. Based /\ Solo /\ OneHome /\ Tidy /\ Kept /\ [MNext]_vars /\ [~User]_vars => Tidy' /\ Kept'
  BY TidyNext, KeptNext
<1>3. Kept => MoveLosesNothing
  BY DEF Kept
<1> QED BY <1>1, <1>2, <1>3, BasedAlways, PTL DEF MSpec

-----------------------------------------------------------------------------
(* The rows of a move that succeeds. *)

\* A folder below an end that a place is in is one.
LEMMA OneFolderBelow ==
    ASSUME NEW d \in Ends, NEW n \in Name, NEW k \in Name, NEW p \in Place,
           Under(Append(d, n), p), Under(Append(d, k), p)
    PROVE  n = k
<1> DEFINE w == Within(d, p)
           x == Within(Append(d, n), p)
           y == Within(Append(d, k), p)
<1>1. w = <<n>> \o x /\ x \in Path /\ w = <<k>> \o y /\ y \in Path
  BY EndPaths, InFolder
<1> HIDE DEF w, x, y
<1>2. ASSUME NEW v \in Path, NEW a \in Name PROVE (<<a>> \o v)[1] = a
  <2>1. <<a>> \in Path /\ Len(<<a>>) = 1 /\ <<a>>[1] = a /\ Len(v) \in Nat
    BY DEF Path
  <2> QED BY <2>1, ConcatProperties DEF Path
<1> QED BY <1>1, <1>2

\* What a step leaves of a whole file: itself or its twin.
Spares(p) == Whole(p) => Whole(p)' \/ \E q \in Place : Twins(p, q) /\ Whole(q)'

LEMMA SparedRows ==
    ASSUME EndsApart, RoomToMove, Based, RowsSafe, Paths' = Paths, \A p \in Place : Spares(p)
    PROVE  RowsSafe'
<1> SUFFICES ASSUME NEW p \in Paths
             PROVE  Whole(p)' \/ \E q \in Place : Twins(p, q) /\ Whole(q)'
  BY DEF RowsSafe
<1>1. p \in Place
  BY PathsAreHere DEF Based
<1>2. CASE Whole(p)
  BY <1>1, <1>2 DEF Spares
<1>3. ASSUME NEW q \in Place, Twins(p, q), Whole(q) PROVE Whole(p)' \/ Whole(q)'
  <2>1. Twins(q, p)
    BY <1>1, <1>3, TwinPlaces
  <2>2. \A o \in Place : Twins(q, o) => o = p
    BY <1>1, <2>1, OneTwin
  <2> QED BY <1>3, <2>2 DEF Spares
<1> QED BY <1>2, <1>3 DEF RowsSafe

LEMMA QuietSpares == ASSUME disk' = disk PROVE \A p \in Place : Spares(p)
  BY DEF Spares, Whole

LEMMA RenameSpares ==
    ASSUME Based, EndsApart, RoomToMove, OneHome, Tidy, NEW m \in Mover,
           NEW dir \in move[m].todo, RenameFolder(m, dir), NEW p \in Place
    PROVE  Spares(p)
<1> DEFINE files == FilesUnder(dir)
<1>1. \A x \in files : x \in Place /\ Under(dir, x) /\ disk[x] \in Content
  BY WholeAtHand DEF RenameFolder, AtHand
<1>2. p \in files \/ (\E x \in files : Twins(x, p)) \/ disk'[p] = disk[p]
  BY RenamedDisk
<1>3. CASE p \in files
  <2>1. PICK q \in Place : Twins(p, q)
    BY <1>1, <1>3, Sending DEF RenameFolder, AtHand
  <2>2. disk'[q] = disk[p]
    BY <1>3, <2>1, RenamedDisk
  <2> QED BY <2>1, <2>2 DEF Spares, Whole
<1>4. ASSUME NEW x \in files, Twins(x, p) PROVE Spares(p)
  <2>1. disk[p] = Absent
    BY <1>4, RenamedDisk
  <2> QED BY <2>1, ConstantsOK DEF Spares, Whole
<1> QED BY <1>2, <1>3, <1>4 DEF Spares, Whole

\* A folder that is done with is another's, or has nothing that the new root has not.
LEMMA RenameProcessed ==
    ASSUME Based, EndsApart, RoomToMove, OneHome, Tidy, NEW m \in Mover,
           NEW dir \in move[m].todo, RenameFolder(m, dir), Processed(m)
    PROVE  Processed(m)'
<1> DEFINE r == move[m]
           q == [r EXCEPT !.todo = @ \ {dir}]
           files == FilesUnder(dir)
<1>1. Step(m, q) /\ author' = author /\ r.pc \in AtHand /\ RequestOk(r)
  BY TheRequest DEF RenameFolder, tables, AtHand, Based
<1>2. r \in MoveJob /\ r.old \in Ends /\ r.new \in Ends /\ r.old # r.new
  BY <1>1 DEF RequestOk, Underway
<1>3. q.todo = r.todo \ {dir} /\ q.old = r.old
  BY <1>2 DEF MoveJob
<1> HIDE DEF q
<1>4. move'[m] = q
  BY <1>1, StepSet DEF Based
<1>5. \A x \in files : x \in Place /\ Under(dir, x) /\ Under(r.old, x)
  BY <1>1, WholeAtHand, Sending
<1> SUFFICES ASSUME NEW a \in author, NEW p \in Place, NEW o \in Place,
                    a.path \notin r.todo \ {dir}, Under(a.path, p), Under(r.old, p), Twins(p, o),
                    disk'[p] \in Content
             PROVE  disk'[o] \in Content
  BY <1>1, <1>3, <1>4 DEF Processed, Whole
<1>6. ~Under(r.new, p) /\ ~Under(r.old, o)
  BY <1>2, TwinEnds
<1>7. p \notin files /\ o \notin files
  BY <1>5, <1>6, RenamedDisk, ConstantsOK
<1>8. \A x \in files : ~Twins(x, p) /\ ~Twins(x, o)
  <2>1. ASSUME NEW x \in files, Twins(x, p) PROVE FALSE
    BY <1>2, <1>5, <2>1, TwinEnds
  <2>2. ASSUME NEW x \in files, Twins(x, o) PROVE FALSE
    BY <1>5, <1>7, <2>2, OneSource
  <2> QED BY <2>1, <2>2
<1>9. disk'[p] = disk[p] /\ disk'[o] = disk[o]
  BY <1>7, <1>8, RenamedDisk
<1>10. a.path # dir
  BY <1>7, <1>9, ConstantsOK DEF FilesUnder, OnDisk
<1> QED BY <1>1, <1>9, <1>10 DEF Processed, Whole

LEMMA CopyFacts ==
    ASSUME Based, EndsApart, RoomToMove, OneHome, Tidy, NEW m \in Mover,
           (\E p \in move[m].left : OpenFile(m, p) /\ move'[m].pc # "idle") \/ CopyFile(m)
    PROVE  \E p \in move[m].left :
             LET o == Destination(move[m], p) IN
             /\ move[m].pc \in {"copy", "bytes"} /\ author' = author
             /\ \A x \in Place : x # o => disk'[x] = disk[x]
             /\ disk'[o] = Cut \/ disk'[o] = disk[p]
             /\ CopyFile(m) => disk'[o] \in Content
             /\ move'[m].todo = move[m].todo /\ move'[m].old = move[m].old /\ move'[m].id = move[m].id
             /\ move'[m].pc \in AtHand
<1> DEFINE r == move[m]
<1>1. disk \in Disks /\ r \in MoveJob
  BY TheRequest DEF Based, Types, Disk, Disks, RequestOk
<1>2. ASSUME NEW p \in r.left, OpenFile(m, p), move'[m].pc # "idle"
      PROVE  LET o == Destination(r, p) IN
             /\ r.pc = "copy" /\ author' = author /\ ~CopyFile(m)
             /\ disk' = [disk EXCEPT ![o] = Cut] /\ o \in Place
             /\ Step(m, [r EXCEPT !.pc = "bytes", !.src = p, !.held = disk[p]])
  <2>1. OnDisk(p)
    <3>1. ~OnDisk(p) => Step(m, NoMove)
      BY <1>2 DEF OpenFile
    <3>2. ~OnDisk(p) => move'[m] = NoMove
      BY <3>1, StepSet DEF Based
    <3> QED BY <1>2, <3>2 DEF NoMove
  <2>2. r.pc = "copy" /\ author' = author /\ ~CopyFile(m)
    BY <1>2 DEF OpenFile, CopyFile, tables
  <2>3. Destination(r, p) \in Place
    BY <2>2, CopyTarget
  <2> QED BY <1>2, <2>1, <2>2, <2>3 DEF OpenFile, DiskBecomes
<1>3. ASSUME CopyFile(m)
      PROVE  LET o == Destination(r, r.src) IN
             /\ r.pc = "bytes" /\ author' = author /\ r.src \in r.left
             /\ disk' = [disk EXCEPT ![o] = disk[r.src]] /\ o \in Place /\ disk[r.src] \in Content
             /\ Step(m, [r EXCEPT !.pc = "copy", !.left = @ \ {r.src}, !.src = NoPlace, !.held = Absent])
  <2>1. r.pc = "bytes" /\ author' = author /\ r.src \in r.left /\ r.held = disk[r.src]
    BY <1>3, TheRequest DEF CopyFile, tables, Based, RequestOk, Tidy, CopyOk
  <2>2. Destination(r, r.src) \in Place /\ disk[r.src] \in Content
    BY <2>1, CopyTarget
  <2> QED BY <1>3, <2>1, <2>2 DEF CopyFile, DiskBecomes
<1>4. CASE \E p \in r.left : OpenFile(m, p) /\ move'[m].pc # "idle"
  <2>1. PICK p \in r.left : OpenFile(m, p) /\ move'[m].pc # "idle"
    BY <1>4
  <2> DEFINE q == [r EXCEPT !.pc = "bytes", !.src = p, !.held = disk[p]]
             o == Destination(r, p)
  <2>2. /\ r.pc = "copy" /\ author' = author /\ ~CopyFile(m) /\ disk' = [disk EXCEPT ![o] = Cut]
        /\ o \in Place /\ Step(m, q)
    BY <1>2, <2>1
  <2>3. q.pc = "bytes" /\ q.todo = r.todo /\ q.old = r.old /\ q.id = r.id
    BY <1>1 DEF MoveJob
  <2> HIDE DEF q, o
  <2>4. move'[m] = q
    BY <2>2, StepSet DEF Based
  <2>5. disk'[o] = Cut /\ \A x \in Place : x # o => disk'[x] = disk[x]
    BY <1>1, <2>2 DEF Disks
  <2> QED BY <2>2, <2>3, <2>4, <2>5 DEF AtHand, o
<1>5. CASE CopyFile(m)
  <2> DEFINE p == r.src
             q == [r EXCEPT !.pc = "copy", !.left = @ \ {r.src}, !.src = NoPlace, !.held = Absent]
             o == Destination(r, p)
  <2>1. /\ r.pc = "bytes" /\ author' = author /\ p \in r.left /\ disk' = [disk EXCEPT ![o] = disk[p]]
        /\ o \in Place /\ disk[p] \in Content /\ Step(m, q)
    BY <1>3, <1>5
  <2>2. q.pc = "copy" /\ q.todo = r.todo /\ q.old = r.old /\ q.id = r.id
    BY <1>1 DEF MoveJob
  <2> HIDE DEF q, o, p
  <2>3. move'[m] = q
    BY <2>1, StepSet DEF Based
  <2>4. disk'[o] = disk[p] /\ \A x \in Place : x # o => disk'[x] = disk[x]
    BY <1>1, <2>1 DEF Disks
  <2> QED BY <1>5, <2>1, <2>2, <2>3, <2>4 DEF AtHand, o
<1> QED BY <1>4, <1>5

LEMMA CopySpares ==
    ASSUME Based, EndsApart, RoomToMove, OneHome, Tidy, NEW m \in Mover,
           (\E p \in move[m].left : OpenFile(m, p) /\ move'[m].pc # "idle") \/ CopyFile(m)
    PROVE  (\A p \in Place : Spares(p)) /\ (Processed(m) => Processed(m)')
<1> DEFINE r == move[m]
<1>1. PICK p \in r.left :
             LET o == Destination(r, p) IN
             /\ r.pc \in {"copy", "bytes"} /\ author' = author
             /\ \A x \in Place : x # o => disk'[x] = disk[x]
             /\ disk'[o] = Cut \/ disk'[o] = disk[p]
             /\ CopyFile(m) => disk'[o] \in Content
             /\ move'[m].todo = r.todo /\ move'[m].old = r.old
             /\ move'[m].pc \in AtHand
  BY CopyFacts
<1> DEFINE o == Destination(r, p)
<1>2. /\ o \in Place /\ Twins(p, o) /\ o # p /\ p \in Place /\ Under(r.cur, p) /\ disk[p] \in Content
      /\ (\A x \in Place : Twins(x, o) => x = p) /\ \A x : Twins(o, x) => x = p
  BY <1>1, CopyTarget
<1>3. disk'[p] = disk[p]
  BY <1>1, <1>2
<1>4. Twins(o, p)
  BY <1>2, TwinPlaces
<1>5. RequestOk(r) /\ r.pc \in AtHand
  BY <1>1, TheRequest DEF Based, AtHand
<1>6. r.old \in Ends /\ r.new \in Ends /\ r.old # r.new /\ r.cur \in r.todo
      /\ \E n \in Name : r.cur = Append(r.old, n)
  BY <1>1, <1>5 DEF RequestOk, Underway
<1>7. Under(r.old, p)
  <2>1. PICK n \in Name : r.cur = Append(r.old, n)
    BY <1>6
  <2>2. r.old \in Path /\ p \in Place /\ Under(Append(r.old, n), p)
    BY <1>2, <1>6, <2>1, EndPaths
  <2> QED BY <2>2, InFolder
<1> HIDE DEF o
<1>8. ASSUME NEW x \in Place PROVE Spares(x)
  <2>1. CASE x = o
    BY <1>2, <1>3, <1>4, <2>1 DEF Spares, Whole
  <2>2. CASE x # o
    BY <1>1, <2>2 DEF Spares, Whole, o
  <2> QED BY <2>1, <2>2
<1>9. ASSUME Processed(m), NEW a \in author, NEW x \in Place, NEW y \in Place, a.path \notin r.todo,
             Under(a.path, x), Under(r.old, x), Twins(x, y), disk'[x] \in Content
      PROVE  disk'[y] \in Content
  <2>1. x # o
    BY <1>2, <1>6, <1>7, <1>9, TwinEnds
  <2>2. disk[x] \in Content
    BY <1>1, <1>9, <2>1 DEF o
  <2>3. disk[y] \in Content
    BY <1>5, <1>9, <2>2 DEF Processed, Whole
  <2>4. y # o
    <3> SUFFICES ASSUME y = o PROVE FALSE
      OBVIOUS
    <3>1. x = p
      BY <1>2, <1>9
    <3>2. PICK d \in Ends, n \in Name : a.path = Append(d, n)
      BY DEF Based, AuthorsHome
    <3>3. d = r.old
      <4>1. Under(d, x)
        BY <1>9, <3>2, EndPaths, InFolder
      <4> QED BY <1>6, <1>9, <4>1, OneEnd
    <3>4. a.path = r.cur
      BY <1>2, <1>6, <1>9, <3>1, <3>2, <3>3, OneFolderBelow
    <3> QED BY <1>6, <1>9, <3>4
  <2> QED BY <1>1, <2>3, <2>4 DEF o
<1>10. Processed(m) => Processed(m)'
  BY <1>1, <1>9 DEF Processed, Whole
<1> QED BY <1>8, <1>10

LEMMA RemoveSpares ==
    ASSUME Based, EndsApart, RoomToMove, OneHome, Tidy, NEW m \in Mover, RemoveOld(m)
    PROVE  (\A p \in Place : Spares(p)) /\ (Processed(m) => Processed(m)')
<1> DEFINE r == move[m]
           q == [r EXCEPT !.pc = "folders", !.todo = @ \ {r.cur}, !.cur = <<>>]
<1>1. r.pc = "copy" /\ r.pc \in AtHand /\ RequestOk(r) /\ author' = author /\ Step(m, q) /\ r.left = {}
  BY TheRequest DEF RemoveOld, AtHand, Based, tables
<1>2. r \in MoveJob /\ r.old \in Ends /\ r.new \in Ends /\ r.old # r.new /\ r.cur \in r.todo
      /\ \E n \in Name : r.cur = Append(r.old, n)
  BY <1>1 DEF RequestOk, Underway
<1>3. q.pc = "folders" /\ q.todo = r.todo \ {r.cur} /\ q.old = r.old
  BY <1>2 DEF MoveJob
<1> HIDE DEF q
<1>4. move'[m] = q
  BY <1>1, StepSet DEF Based
<1>5. ASSUME NEW p \in Place PROVE Spares(p)
  <2>1. CASE disk'[p] = disk[p]
    BY <2>1 DEF Spares, Whole
  <2>2. CASE disk'[p] # disk[p]
    <3>1. p \in FilesUnder(r.cur) /\ \A x \in Place : Twins(p, x) => disk'[x] = disk[p]
      BY <2>2, RemovedDisk
    <3>2. PICK x \in Place : Twins(p, x)
      BY <1>1, <1>2, <3>1, Sending DEF FilesUnder
    <3> QED BY <3>1, <3>2 DEF Spares, Whole
  <2> QED BY <2>1, <2>2
<1>6. ASSUME Processed(m), NEW a \in author, NEW x \in Place, NEW y \in Place,
             a.path \notin r.todo \ {r.cur},
             Under(a.path, x), Under(r.old, x), Twins(x, y), disk'[x] \in Content
      PROVE  disk'[y] \in Content
  <2>1. disk'[x] = disk[x]
    BY <1>6, RemovedDisk, ConstantsOK
  <2>2. ~Under(r.cur, y)
    <3>1. ~Under(r.old, y)
      BY <1>2, <1>6, TwinEnds
    <3>2. PICK n \in Name : r.cur = Append(r.old, n)
      BY <1>2
    <3> QED BY <1>2, <3>1, <3>2, EndPaths, InFolder
  <2>3. disk'[y] = disk[y]
    BY <2>2, RemovedDisk DEF FilesUnder
  <2>4. CASE a.path # r.cur
    BY <1>1, <1>6, <2>1, <2>3, <2>4 DEF Processed, Whole
  <2>5. CASE a.path = r.cur
    <3>1. x \in FilesUnder(r.cur)
      BY <1>6, <2>1, <2>5, ConstantsOK DEF FilesUnder, OnDisk
    <3>2. disk[y] = disk[x]
      BY <1>1, <1>6, <3>1 DEF Tidy, CopyOk
    <3> QED BY <1>6, <2>1, <2>3, <3>2
  <2> QED BY <2>4, <2>5
<1>7. Processed(m) => Processed(m)'
  BY <1>1, <1>3, <1>4, <1>6 DEF Processed, Whole
<1> QED BY <1>5, <1>7

\* The steps of a move that do not write.
LEMMA WaitProcessed ==
    ASSUME Based, EndsApart, RoomToMove, NEW m \in Mover, Processed(m),
           \/ ListAuthors(m)
           \/ \E dir \in move[m].todo : SkipFolder(m, dir) \/ CopyFolder(m, dir)
    PROVE  /\ Processed(m)' /\ UNCHANGED <<disk, author>> /\ move[m].pc \in Underway
           /\ move'[m].pc \in AtHand /\ move'[m].old = move[m].old /\ move'[m].id = move[m].id
<1> DEFINE r == move[m]
<1>1. RequestOk(r) /\ UNCHANGED <<disk, author>> /\ r.pc \in {"list", "folders"}
  BY TheRequest DEF Based, ListAuthors, SkipFolder, CopyFolder, scanVars, tables
<1>2. r \in MoveJob /\ r.old \in Ends /\ r.new \in Ends
  BY <1>1 DEF RequestOk, Underway, AtHand
<1>3. ASSUME ListAuthors(m)
      PROVE  /\ Processed(m)' /\ move'[m].pc = "folders" /\ move'[m].old = r.old /\ move'[m].id = r.id
  <2> DEFINE dirs == {a.path : a \in {b \in author : Like(r.old, b.path)}}
             q == [r EXCEPT !.pc = "folders", !.todo = dirs]
  <2>1. Step(m, q)
    BY <1>3 DEF ListAuthors
  <2>2. q.pc = "folders" /\ q.todo = dirs /\ q.old = r.old /\ q.id = r.id
    BY <1>2 DEF MoveJob
  <2> HIDE DEF q
  <2>3. move'[m] = q
    BY <2>1, StepSet DEF Based
  <2>4. ASSUME NEW a \in author, NEW p \in Place, Under(a.path, p), Under(r.old, p)
        PROVE  a.path \in dirs
    <3>1. PICK d \in Ends, n \in Name : a.path = Append(d, n)
      BY DEF Based, AuthorsHome
    <3>2. Under(d, p)
      BY <2>4, <3>1, EndPaths, InFolder
    <3>3. d = r.old
      BY <1>2, <2>4, <3>2, OneEnd
    <3> QED BY <1>2, <3>1, <3>3, RebasedFolder
  <2> QED BY <1>1, <2>2, <2>3, <2>4 DEF Processed
<1>4. ASSUME NEW dir \in r.todo, SkipFolder(m, dir)
      PROVE  /\ Processed(m)' /\ move'[m].pc = "folders" /\ move'[m].old = r.old /\ move'[m].id = r.id
  <2> DEFINE q == [r EXCEPT !.todo = @ \ {dir}]
  <2>1. Step(m, q) /\ r.pc = "folders" /\ FilesUnder(dir) = {}
    BY <1>4 DEF SkipFolder
  <2>2. q.pc = "folders" /\ q.todo = r.todo \ {dir} /\ q.old = r.old /\ q.id = r.id
    BY <1>2, <2>1 DEF MoveJob
  <2> HIDE DEF q
  <2>3. move'[m] = q
    BY <2>1, StepSet DEF Based
  <2>4. \A p \in Place : Under(dir, p) => disk[p] \notin Content
    BY <2>1, ConstantsOK DEF FilesUnder, OnDisk
  <2> QED BY <1>1, <2>1, <2>2, <2>3, <2>4 DEF Processed, Whole, AtHand
<1>5. ASSUME NEW dir \in r.todo, CopyFolder(m, dir)
      PROVE  /\ Processed(m)' /\ move'[m].pc = "copy" /\ move'[m].old = r.old /\ move'[m].id = r.id
  <2> DEFINE q == [r EXCEPT !.pc = "copy", !.cur = dir, !.left = FilesUnder(dir)]
  <2>1. Step(m, q) /\ r.pc = "folders"
    BY <1>5 DEF CopyFolder
  <2>2. q.pc = "copy" /\ q.todo = r.todo /\ q.old = r.old /\ q.id = r.id
    BY <1>2 DEF MoveJob
  <2> HIDE DEF q
  <2>3. move'[m] = q
    BY <2>1, StepSet DEF Based
  <2> QED BY <1>1, <2>1, <2>2, <2>3 DEF Processed, Whole, AtHand
<1> QED BY <1>1, <1>3, <1>4, <1>5 DEF AtHand, Underway

-----------------------------------------------------------------------------
\* The steps of a move before its transaction, and one that gives up.
LEMMA FollowedFrame ==
    ASSUME EndsApart, RoomToMove, Based, Followed, Solo, NEW m \in Mover, move[m].pc \in Underway,
           UNCHANGED tables, Running' = Running, OtherMovesStay(m), Tidy',
           \A p \in Place : Spares(p), Processed(m)', move'[m].pc \in Underway \cup {"idle"},
           move'[m].pc \in Underway => move'[m].id = move[m].id /\ move'[m].old = move[m].old
    PROVE  Followed'
<1>1. UNCHANGED <<root, author, file>> /\ Paths' = Paths
  BY DEF tables, Paths
<1>2. m \in Moving
  BY DEF Moving, Underway, AtHand
<1>3. Running = {} /\ Running' = {}
  BY <1>2 DEF Followed, Rooted
<1>4. \A s \in Scan : scan'[s].pc = "idle"
  BY <1>3 DEF Running
<1>5. RowsSafe'
  BY <1>1, SparedRows DEF Followed
<1>6. ASSUME NEW n \in Mover, n # m PROVE move'[n] = move[n] /\ move'[n].pc = "idle"
  BY <1>6 DEF OtherMovesStay, Solo, Underway, AtHand
<1>7. \A n \in Mover : Processed(n)' /\ DoneOk(n)'
  BY <1>6 DEF Processed, DoneOk, AtHand, Underway
<1>8. Rooted'
  <2>1. \A s \in Scan : scan'[s].pc \notin AtFile
    BY <1>4 DEF AtFile
  <2>2. \A n \in Mover : move'[n].pc \in Underway =>
                            \E r \in root : r.id = move'[n].id /\ r.path = move'[n].old
    BY <1>6 DEF Followed, Rooted, Underway, AtHand
  <2> QED BY <1>1, <1>3, <2>1, <2>2 DEF Followed, Rooted
<1> QED BY <1>5, <1>7, <1>8 DEF Followed

LEMMA WorkFollowed ==
    ASSUME EndsApart, RoomToMove, Based, Followed, Solo, OneHome, Tidy', NEW m \in Mover, WorkStep(m)
    PROVE  Followed'
<1>1. UNCHANGED tables /\ Running' = Running
  <2>1. CASE UNCHANGED scanVars
    BY <2>1 DEF scanVars, tables, Running
  <2>2. ASSUME NEW d, Writes(d) PROVE UNCHANGED tables /\ Running' = Running
    BY <2>2, DiskTypes DEF Based, Types, Writes, Disks
  <2> QED BY <2>1, <2>2, WorkKinds
<1>2. Tidy /\ Processed(m) /\ move[m] \in MoveJob
  BY TheRequest DEF Followed, Based, RequestOk
<1>3. move[m].pc \in Underway /\ OtherMovesStay(m)
  <2>1. \E q : Step(m, q)
    BY DEF WorkStep, ListAuthors, SkipFolder, RenameFolder, CopyFolder, OpenFile, CopyFile,
           CopyFails, RemoveOld, Rollback
  <2>2. move[m].pc \in {"list", "folders", "copy", "bytes"}
    BY DEF WorkStep, ListAuthors, SkipFolder, RenameFolder, CopyFolder, OpenFile, CopyFile,
           CopyFails, RemoveOld, Rollback
  <2> QED BY <2>1, <2>2, StepSet DEF Based, Underway, AtHand
<1>4. ASSUME \/ ListAuthors(m)
             \/ \E dir \in move[m].todo : SkipFolder(m, dir) \/ CopyFolder(m, dir)
      PROVE  /\ (\A p \in Place : Spares(p)) /\ Processed(m)' /\ move'[m].pc \in Underway
             /\ move'[m].id = move[m].id /\ move'[m].old = move[m].old
  BY <1>2, <1>4, WaitProcessed, QuietSpares DEF Underway
<1>5. ASSUME NEW dir \in move[m].todo, RenameFolder(m, dir)
      PROVE  /\ (\A p \in Place : Spares(p)) /\ Processed(m)' /\ move'[m].pc \in Underway
             /\ move'[m].id = move[m].id /\ move'[m].old = move[m].old
  <2> DEFINE q == [move[m] EXCEPT !.todo = @ \ {dir}]
  <2>1. Step(m, q) /\ move[m].pc = "folders"
    BY <1>5 DEF RenameFolder
  <2>2. q.pc = "folders" /\ q.id = move[m].id /\ q.old = move[m].old
    BY <1>2, <2>1 DEF MoveJob
  <2> HIDE DEF q
  <2>3. move'[m] = q
    BY <2>1, StepSet DEF Based
  <2> QED BY <1>2, <1>5, <2>2, <2>3, RenameSpares, RenameProcessed DEF Underway, AtHand
<1>6. ASSUME (\E p \in move[m].left : OpenFile(m, p) /\ move'[m].pc # "idle") \/ CopyFile(m)
      PROVE  /\ (\A p \in Place : Spares(p)) /\ Processed(m)' /\ move'[m].pc \in Underway
             /\ move'[m].id = move[m].id /\ move'[m].old = move[m].old
  BY <1>2, <1>6, CopySpares, CopyFacts DEF Underway
<1>7. ASSUME Step(m, NoMove), disk' = disk
      PROVE  (\A p \in Place : Spares(p)) /\ Processed(m)' /\ move'[m].pc = "idle"
  <2>1. move'[m] = NoMove
    BY <1>7, StepSet DEF Based
  <2> QED BY <1>7, <2>1, QuietSpares DEF Processed, NoMove, AtHand
<1>8. ASSUME NEW p \in move[m].left, OpenFile(m, p), move'[m].pc = "idle"
      PROVE  Step(m, NoMove) /\ disk' = disk
  <2> DEFINE q == [move[m] EXCEPT !.pc = "bytes", !.src = p, !.held = disk[p]]
  <2>1. Step(m, q) => move'[m] = q
    BY StepSet DEF Based
  <2>2. q.pc = "bytes"
    BY <1>2 DEF MoveJob
  <2> HIDE DEF q
  <2>3. ~Step(m, q)
    BY <1>8, <2>1, <2>2
  <2> QED BY <1>8, <2>3 DEF OpenFile, q
<1>9. ASSUME CopyFails(m) \/ Rollback(m) PROVE Step(m, NoMove) /\ disk' = disk
  BY <1>9 DEF CopyFails, Rollback, scanVars
<1>10. ASSUME RemoveOld(m)
       PROVE  /\ (\A p \in Place : Spares(p)) /\ Processed(m)' /\ move'[m].pc \in Underway
              /\ move'[m].id = move[m].id /\ move'[m].old = move[m].old
  <2> DEFINE q == [move[m] EXCEPT !.pc = "folders", !.todo = @ \ {move[m].cur}, !.cur = <<>>]
  <2>1. Step(m, q)
    BY <1>10 DEF RemoveOld
  <2>2. q.pc = "folders" /\ q.id = move[m].id /\ q.old = move[m].old
    BY <1>2 DEF MoveJob
  <2> HIDE DEF q
  <2>3. move'[m] = q
    BY <2>1, StepSet DEF Based
  <2> QED BY <1>2, <1>10, <2>2, <2>3, RemoveSpares DEF Underway, AtHand
<1>11. /\ (\A p \in Place : Spares(p)) /\ Processed(m)'
       /\ \/ move'[m].pc = "idle"
          \/ /\ move'[m].pc \in Underway
             /\ move'[m].id = move[m].id /\ move'[m].old = move[m].old
  BY <1>4, <1>5, <1>6, <1>7, <1>8, <1>9, <1>10 DEF WorkStep
<1>12. /\ move'[m].pc \in Underway \cup {"idle"}
       /\ move'[m].pc \in Underway => move'[m].id = move[m].id /\ move'[m].old = move[m].old
  BY <1>11 DEF Underway, AtHand
<1> QED BY <1>1, <1>3, <1>11, <1>12, FollowedFrame

\* A move that begins with nothing else at work.
LEMMA BeginFollowed ==
    ASSUME Based, Followed, Tidy', NEW m \in Mover, NEW r \in root, NEW new \in Target,
           MoveBegin(m, r, new), ~meddled'
    PROVE  Followed'
<1> DEFINE q == [NoMove EXCEPT !.pc = "list", !.id = r.id, !.old = r.path, !.new = new]
<1>1. Step(m, q) /\ UNCHANGED <<disk, root, author, file, scan>>
  BY DEF MoveBegin, scanVars, tables
<1>2. Running = {} /\ Moving = {}
  BY DEF MoveBegin
<1>3. q.pc = "list" /\ q.id = r.id /\ q.old = r.path
  BY DEF NoMove
<1> HIDE DEF q
<1>4. move'[m] = q /\ \A n \in Mover : n # m => move'[n] = move[n]
  BY <1>1, StepSet DEF Based, OtherMovesStay
<1>5. Paths' = Paths /\ \A p : Whole(p)' = Whole(p)
  BY <1>1 DEF Paths, Whole
<1>6. RowsSafe'
  BY <1>5 DEF Followed, RowsSafe
<1>7. \A n \in Mover : Processed(n)' /\ DoneOk(n)'
  BY <1>1, <1>3, <1>4, <1>5 DEF Followed, Processed, DoneOk, AtHand
<1>8. Rooted'
  <2>1. Running' = Running /\ \A p : OnDisk(p)' = OnDisk(p)
    BY <1>1 DEF Running, OnDisk
  <2>2. \A n \in Mover : move'[n].pc \in Underway => n = m
    BY <1>2, <1>4 DEF Moving, Underway, AtHand
  <2> QED BY <1>1, <1>2, <1>3, <1>4, <1>5, <2>1, <2>2 DEF Followed, Rooted
<1> QED BY <1>6, <1>7, <1>8 DEF Followed

\* Requests and scans that end, or with nothing at all.
LEMMA EndedFollowed ==
    ASSUME Followed, Tidy', UNCHANGED <<disk, root, author, file>>,
           \A n \in Mover : move'[n] = move[n] \/ move'[n].pc = "idle",
           \A s \in Scan : scan'[s] = scan[s] \/ scan'[s].pc = "idle"
    PROVE  Followed'
<1>1. Paths' = Paths /\ \A p : Whole(p)' = Whole(p) /\ OnDisk(p)' = OnDisk(p)
  BY DEF Paths, Whole, OnDisk
<1>2. RowsSafe'
  BY <1>1 DEF Followed, RowsSafe
<1>3. \A n \in Mover : Processed(n)' /\ DoneOk(n)'
  BY <1>1 DEF Followed, Processed, DoneOk, AtHand
<1>4. Rooted'
  <2>1. Moving' \subseteq Moving
    BY DEF Moving
  <2>2. Running' \subseteq Running /\ \A s \in Running' : scan'[s] = scan[s]
    BY DEF Running
  <2>3. \A s \in Scan : scan'[s].pc \in AtFile => scan'[s] = scan[s]
    BY DEF AtFile
  <2>4. \A n \in Mover : move'[n].pc \in Underway => move'[n] = move[n]
    BY DEF Underway, AtHand
  <2> QED BY <1>1, <2>1, <2>2, <2>3, <2>4 DEF Followed, Rooted
<1> QED BY <1>2, <1>3, <1>4 DEF Followed

\* The root folder a transaction moves is the only one: the other end is free.
LEMMA CommitRoot ==
    ASSUME Based, EndsApart, Rooted, NEW m \in Mover, Commit(m)
    PROVE  /\ move[m].old \in Ends /\ move[m].new \in Ends /\ move[m].old # move[m].new
           /\ \A x \in root : x.path = move[m].old
           /\ \E x \in root' : x.path = move[m].new
           /\ \A x, y \in root' : x = y
           /\ \A x \in root' : x.path # move[m].old
<1> DEFINE r == move[m]
           next(q) == IF q.id = r.id THEN [q EXCEPT !.path = r.new] ELSE q
<1>1. r.pc \in Underway /\ RequestOk(r) /\ NoClash(r) /\ root' = {next(q) : q \in root}
  BY TheRequest DEF Based, Commit, Underway, AtHand
<1>2. r.old \in Ends /\ r.new \in Ends /\ r.old # r.new
  BY <1>1 DEF RequestOk
<1>3. PICK y \in root : y.id = r.id /\ y.path = r.old
  BY <1>1 DEF Rooted
<1>4. ASSUME NEW x \in root PROVE x.path = r.old
  <2>1. x.path \in Ends
    BY DEF Based, ReachedIn
  <2>2. x.path # r.new
    BY <1>1, <1>2, <1>3 DEF NoClash, Rooted
  <2> QED BY <1>2, <2>1, <2>2 DEF EndsApart
<1>5. root = {y}
  BY <1>3, <1>4 DEF Rooted
<1>6. root' = {next(y)}
  BY <1>1, <1>5
<1>7. next(y).path = r.new
  <2>1. y \in [id : 1..lastId.root, path : Path]
    BY DEF Based, Types, Tables, RootRows
  <2> QED BY <1>3, <2>1
<1> HIDE DEF next, r
<1> QED BY <1>2, <1>4, <1>6, <1>7 DEF r

\* All its rows go with it, to where a whole file is.
LEMMA CommitRows ==
    ASSUME Based, EndsApart, RoomToMove, Rooted, RowsSafe, Housed, NEW m \in Mover,
           Processed(m), Commit(m)
    PROVE  \A p \in Paths' : Under(move[m].new, p) /\ Whole(p)'
<1> DEFINE r == move[m]
           new(f) == IF Like(r.old, Full(f.place))
                     THEN [f EXCEPT !.place = RebasePlace(f.place, r.old, r.new)] ELSE f
<1>1. r.pc \in AtHand /\ r.todo = {} /\ file' = {new(f) : f \in file} /\ disk' = disk
  BY DEF Commit, NewFiles, AtHand
<1>2. r.old \in Ends /\ r.new \in Ends /\ r.old # r.new
  BY CommitRoot
<1>3. ASSUME NEW f \in file PROVE Under(r.new, new(f).place) /\ Whole(new(f).place)
  <2> DEFINE p == f.place
             q == RebasePlace(p, r.old, r.new)
  <2>1. p \in Paths /\ p \in Place /\ f \in [place : Place, book : {b.id : b \in book}, size : Nat]
    BY DEF Paths, Based, Types, Tables, FileRows
  <2>2. Under(r.old, p)
    BY <2>1, CommitRoot DEF Rooted
  <2>3. Like(r.old, Full(p))
    BY <1>2, <2>1, <2>2, EndPaths, LikeBelow
  <2>4. q = Moved(p, r.old, r.new) /\ q \in Place /\ Under(r.new, q)
    BY <1>2, <2>3, NewRow
  <2>5. Twins(p, q)
    BY <1>2, <2>2, <2>4 DEF Twins
  <2>6. Whole(q)
    <3>1. CASE Whole(p)
      <4>1. PICK a \in author : Under(a.path, p)
        BY DEF Housed, HomeSide
      <4>2. a.path \notin r.todo
        BY <1>1
      <4> QED BY <1>1, <2>1, <2>2, <2>4, <2>5, <3>1, <4>1, <4>2 DEF Processed
    <3>2. CASE ~Whole(p)
      <4>1. PICK o \in Place : Twins(p, o) /\ Whole(o)
        BY <2>1, <3>2 DEF RowsSafe
      <4>2. o = q
        BY <2>1, <2>5, <4>1, OneTwin
      <4> QED BY <4>1, <4>2
    <3> QED BY <3>1, <3>2
  <2>7. new(f).place = q
    BY <2>1, <2>3
  <2> QED BY <2>4, <2>6, <2>7
<1> HIDE DEF new, r
<1>4. \A p : Whole(p)' = Whole(p)
  BY <1>1 DEF Whole
<1> QED BY <1>1, <1>3, <1>4 DEF Paths, r

LEMMA CommitHomes ==
    ASSUME Based, EndsApart, Rooted, NEW m \in Mover, Commit(m)
    PROVE  \A a \in author' : \E x \in root', n \in Name : a.path = Append(x.path, n)
<1> DEFINE r == move[m]
           new(a) == IF Like(r.old, a.path) THEN [a EXCEPT !.path = Rebase(a.path, r.old, r.new)] ELSE a
<1>1. author' = {new(a) : a \in author}
  BY DEF Commit, NewAuthors
<1>2. r.old \in Ends /\ r.new \in Ends
  BY CommitRoot
<1>3. ASSUME NEW a \in author PROVE \E n \in Name : new(a).path = Append(r.new, n)
  <2>1. PICK n \in Name : a.path = Append(r.old, n)
    BY CommitRoot DEF Rooted
  <2>2. Like(r.old, a.path) /\ Rebase(a.path, r.old, r.new) = Append(r.new, n)
    BY <1>2, <2>1, RebasedFolder
  <2>3. a \in [id : 1..lastId.author, name : Name, path : Path]
    BY DEF Based, Types, Tables, AuthorRows
  <2>4. new(a).path = Rebase(a.path, r.old, r.new)
    BY <2>2, <2>3
  <2> QED BY <2>2, <2>4
<1>4. PICK x \in root' : x.path = r.new
  BY CommitRoot
<1> HIDE DEF new, r
<1> QED BY <1>1, <1>3, <1>4

LEMMA CommitFollowed ==
    ASSUME Based, EndsApart, RoomToMove, Solo, Followed, Housed, Tidy', NEW m \in Mover, Commit(m)
    PROVE  Followed'
<1> DEFINE r == move[m]
           q == [NoMove EXCEPT !.pc = "done", !.old = r.old]
<1>1. Step(m, q) /\ r.pc \in Underway /\ scan' = scan
  BY DEF Commit, Underway, AtHand
<1>2. q.pc = "done" /\ q.old = r.old
  BY DEF NoMove
<1> HIDE DEF q
<1>3. move'[m] = q /\ \A n \in Mover : n # m => move'[n].pc = "idle"
  BY <1>1, StepSet DEF Based, OtherMovesStay, Solo, Underway, AtHand
<1>4. \A p \in Paths' : Under(r.new, p) /\ Whole(p)'
  BY CommitRows DEF Followed
<1>5. RowsSafe'
  BY <1>4 DEF RowsSafe
<1>6. ASSUME NEW n \in Mover PROVE Processed(n)' /\ DoneOk(n)'
  <2>1. \A x \in root' : x.path # r.old
    BY CommitRoot DEF Followed
  <2>2. move'[n].pc = "idle" \/ (move'[n].pc = "done" /\ move'[n].old = r.old)
    BY <1>2, <1>3
  <2> QED BY <1>4, <2>1, <2>2 DEF Processed, DoneOk, AtHand
<1>7. Rooted'
  <2>1. Running = {}
    BY <1>1 DEF Followed, Rooted, Moving, Underway, AtHand
  <2>2. Running' = {} /\ \A s \in Scan : scan'[s].pc \notin AtFile
    BY <1>1, <2>1 DEF Running, AtFile
  <2>3. \A n \in Mover : move'[n].pc \notin Underway
    BY <1>2, <1>3 DEF Underway, AtHand
  <2>4. \A p \in Paths' : \E x \in root' : Under(x.path, p)
    BY <1>4, CommitRoot DEF Followed
  <2>5. \A x, y \in root' : x = y
    BY CommitRoot DEF Followed
  <2>6. \A a \in author' : \E x \in root', n \in Name : a.path = Append(x.path, n)
    BY CommitHomes DEF Followed
  <2> QED BY <2>2, <2>3, <2>4, <2>5, <2>6 DEF Rooted
<1> QED BY <1>5, <1>6, <1>7 DEF Followed

-----------------------------------------------------------------------------
(* A scan between moves. *)

LEMMA ScanScope ==
    ASSUME ~AuthorScans, Based, NEW s \in Scan, ScanStep(s)
    PROVE  LET r == scan[s]
               q == scan'[s] IN
           /\ OthersStay(s) /\ UNCHANGED <<root, disk>>
           /\ \/ q.pc = "idle" \/ \E x \in root : x.path = q.root
              \/ r.pc # "idle" /\ q.root = r.root
           /\ q.pc \in AtFile => OnDisk(q.at) \/ (r.pc \in AtFile /\ q.at = r.at)
           /\ \A p \in Paths' : p \in Paths \/ (r.pc \in AtFile /\ p = r.at)
           /\ \A a \in author' :
                a \in author \/ (r.pc # "idle" /\ \E n \in Name : a.path = Append(r.root, n))
<1> DEFINE r == scan[s]
           q == scan'[s]
<1>0. Types
  BY DEF Based
<1>1. ASSUME NEW dir, ScanBegin(s, dir)
      PROVE  /\ OthersStay(s) /\ UNCHANGED <<tables, disk>> /\ q.pc = "snapshot"
             /\ \E x \in root : x.path = q.root
  BY <1>0, <1>1, ScanBeginWalk DEF ScanBegin
<1>2. ASSUME Snapshot(s) \/ \E dir \in r.dirs : ReadDir(s, dir) \/ ReadDirFails(s, dir)
      PROVE  /\ OthersStay(s) /\ UNCHANGED <<tables, disk>> /\ q.pc = "walk"
             /\ r.pc # "idle" /\ q.root = r.root
  BY <1>0, <1>2, SnapshotWalk, ReadDirWalk, ReadDirFailsWalk DEF SameFile
<1>3. ASSUME NEW p \in r.todo, Visit(s, p)
      PROVE  /\ OthersStay(s) /\ UNCHANGED <<tables, disk>>
             /\ r.pc # "idle" /\ q.root = r.root
             /\ q.pc \in AtFile => OnDisk(q.at)
  BY <1>0, <1>3, VisitWalk DEF AtFile
<1>4. ASSUME NEW p \in r.existing, RemoveRow(s, p)
      PROVE  /\ OthersStay(s) /\ UNCHANGED <<root, author, disk>> /\ q.pc = "walk"
             /\ r.pc # "idle" /\ q.root = r.root /\ \A o \in Paths' : o \in Paths
  BY <1>0, <1>4, RemoveRowWalk DEF SameFile, Paths
<1>5. ASSUME ScanEnd(s) \/ ScanAborted(s)
      PROVE  OthersStay(s) /\ UNCHANGED <<tables, disk>> /\ q.pc = "idle"
  BY <1>0, <1>5, ScanStopsWalk DEF Idle
<1>6. ASSUME FileStep(s)
      PROVE  /\ OthersStay(s) /\ UNCHANGED <<root, disk>> /\ r.pc \in AtFile /\ q.root = r.root
             /\ q.pc \in AtFile => q.at = r.at
             /\ \A p \in Paths' : p \in Paths \/ p = r.at
  BY <1>0, <1>6, FileStepWalk, NewRows DEF SameWalk
<1>7. ASSUME CreateAuthor(s)
      PROVE  \A a \in author' :
                a \in author \/ (r.pc # "idle" /\ \E n \in Name : a.path = Append(r.root, n))
  <2> DEFINE x == [id |-> lastId.author + 1, name |-> r.info.author,
                   path |-> Append(r.root, r.info.author)]
  <2>1. author' = author \cup {x} /\ r.pc = "newAuthor"
    BY <1>7 DEF CreateAuthor
  <2>2. r.info.author \in Name
    BY <2>1, TheJob DEF Based, JobOk, Named
  <2>3. x.path = Append(r.root, r.info.author)
    OBVIOUS
  <2> HIDE DEF x
  <2> QED BY <2>1, <2>2, <2>3
<1>8. ASSUME FileStep(s), ~CreateAuthor(s) PROVE author' = author
  BY <1>8 DEF FileStep, Compare, UpdateFile, Match, Discover, FindBook, CreateBook, AddFile, Reads,
              tables
<1>9. UNCHANGED tables => UNCHANGED <<root, author>> /\ Paths' = Paths
  BY DEF tables, Paths
<1>10. "idle" \notin AtFile /\ "walk" \notin AtFile /\ "snapshot" \notin AtFile
  BY DEF AtFile
<1>11. CASE FileStep(s)
  BY <1>6, <1>7, <1>8, <1>10, <1>11
<1>12. CASE ~FileStep(s)
  BY <1>1, <1>2, <1>3, <1>4, <1>5, <1>9, <1>10, <1>12 DEF ScanStep, FileStep
<1> QED BY <1>11, <1>12

\* The file a scan is at is whole or a copy that broke off, in a root folder,
\* and no such copy once a move has succeeded.
LEMMA ScannedFile ==
    ASSUME EndsApart, RoomToMove, Based, Followed, NEW s \in Scan, scan[s].pc \in AtFile
    PROVE  LET x == scan[s].at IN
           /\ \E r \in root : Under(r.path, x)
           /\ Whole(x) \/ \E p \in Place : Twins(x, p) /\ Whole(p)
           /\ (\E m \in Mover : move[m].pc = "done") => Whole(x)
<1> DEFINE x == scan[s].at
<1>1. x \in Place /\ OnDisk(x) /\ s \in Running
  BY TheJob DEF Based, JobOk, Followed, Rooted, Running, AtFile
<1>2. PICK r \in root : r.path = scan[s].root
  BY <1>1 DEF Followed, Rooted
<1>3. Under(r.path, x)
  BY <1>2 DEF Based, ReachedIn, ReachedBy, Walkable
<1>4. Whole(x) \/ disk[x] = Cut
  BY <1>1 DEF Based, Types, Disk, Whole, OnDisk
<1>5. ASSUME disk[x] = Cut
      PROVE  \E p \in Place : Twins(p, x) /\ Whole(p) /\ HomeSide(p)
  BY <1>1, <1>5 DEF Followed, Tidy, CutOk, Whole
<1>6. ASSUME NEW m \in Mover, move[m].pc = "done", disk[x] = Cut PROVE FALSE
  <2>1. PICK p \in Place : Twins(p, x) /\ HomeSide(p)
    BY <1>5, <1>6
  <2>2. PICK y \in root : Under(y.path, p)
    <3>1. PICK a \in author : Under(a.path, p)
      BY <2>1 DEF HomeSide
    <3>2. PICK y \in root, n \in Name : a.path = Append(y.path, n)
      BY DEF Followed, Rooted
    <3>3. y.path \in Path
      BY DEF Based, Types, Tables, RootRows
    <3> QED BY <3>1, <3>2, <3>3, InFolder
  <2>3. r.path \in Ends /\ y.path \in Ends /\ move[m].old \in Ends
    BY <1>6, TheRequest DEF Based, ReachedIn, RequestOk
  <2>4. r.path # move[m].old /\ y.path # move[m].old
    BY <1>6 DEF Followed, DoneOk
  <2>5. r.path = y.path
    BY <2>3, <2>4 DEF EndsApart
  <2>6. PICK d \in Ends, e \in Ends : d # e /\ Under(d, p) /\ x = Moved(p, d, e)
    BY <2>1 DEF Twins
  <2>7. Under(e, x)
    BY <2>6, MovedPlace
  <2>8. d = y.path /\ e = r.path
    BY <1>1, <1>3, <2>2, <2>3, <2>6, <2>7, OneEnd
  <2> QED BY <2>5, <2>6, <2>8
<1>7. ASSUME disk[x] = Cut PROVE \E p \in Place : Twins(x, p) /\ Whole(p)
  BY <1>5, <1>7, TwinPlaces
<1> QED BY <1>3, <1>4, <1>6, <1>7

LEMMA ScanFollowed ==
    ASSUME ~AuthorScans, EndsApart, RoomToMove, Based, Followed, Tidy', NEW s \in Scan, ScanStep(s),
           move' = move, Moving = {}
    PROVE  Followed'
<1> DEFINE r == scan[s]
           q == scan'[s]
<1>1. OthersStay(s) /\ UNCHANGED <<root, disk, move>>
  BY ScanScope
<1>2. \A p : Whole(p)' = Whole(p) /\ OnDisk(p)' = OnDisk(p)
  BY <1>1 DEF Whole, OnDisk
<1>3. ASSUME NEW p \in Paths'
      PROVE  /\ \E x \in root : Under(x.path, p)
             /\ Whole(p) \/ \E o \in Place : Twins(p, o) /\ Whole(o)
             /\ \A m \in Mover : move[m].pc = "done" => Whole(p)
  <2>1. p \in Paths \/ (r.pc \in AtFile /\ p = r.at)
    BY ScanScope
  <2>2. CASE p \in Paths
    BY <2>2 DEF Followed, Rooted, RowsSafe, DoneOk
  <2>3. CASE r.pc \in AtFile /\ p = r.at
    BY <2>3, ScannedFile
  <2> QED BY <2>1, <2>2, <2>3
<1>4. RowsSafe'
  BY <1>2, <1>3 DEF RowsSafe
<1>5. \A m \in Mover : Processed(m)' /\ DoneOk(m)'
  <2>1. \A m \in Mover : move'[m].pc \notin AtHand
    BY <1>1 DEF Moving, AtHand
  <2> QED BY <1>1, <1>2, <1>3, <2>1 DEF Followed, Processed, DoneOk
<1>6. Rooted'
  <2>1. Moving' = {} /\ \A m \in Mover : move'[m].pc \notin Underway
    BY <1>1 DEF Moving, Underway, AtHand
  <2>2. ASSUME NEW t \in Running' PROVE \E x \in root : x.path = scan'[t].root
    <3>1. CASE t # s
      BY <1>1, <2>2, <3>1 DEF OthersStay, Running, Followed, Rooted
    <3>2. CASE t = s
      <4>1. q.pc # "idle"
        BY <2>2, <3>2 DEF Running
      <4>2. r.pc # "idle" => \E x \in root : x.path = r.root
        BY DEF Running, Followed, Rooted
      <4> QED BY <3>2, <4>1, <4>2, ScanScope
    <3> QED BY <3>1, <3>2
  <2>3. ASSUME NEW t \in Scan, scan'[t].pc \in AtFile PROVE OnDisk(scan'[t].at)
    <3>1. CASE t # s
      BY <1>1, <2>3, <3>1 DEF OthersStay, Followed, Rooted
    <3>2. CASE t = s
      <4>1. r.pc \in AtFile => OnDisk(r.at)
        BY DEF Followed, Rooted
      <4> QED BY <2>3, <3>2, <4>1, ScanScope
    <3> QED BY <3>1, <3>2
  <2>4. ASSUME NEW a \in author' PROVE \E x \in root, n \in Name : a.path = Append(x.path, n)
    <3>1. r.pc # "idle" => \E x \in root : x.path = r.root
      BY DEF Running, Followed, Rooted
    <3>2. a \in author \/ (r.pc # "idle" /\ \E n \in Name : a.path = Append(r.root, n))
      BY ScanScope
    <3> QED BY <3>1, <3>2 DEF Followed, Rooted
  <2>5. (\A t \in Scan : scan[t].pc \in AtFile => OnDisk(scan[t].at))'
    BY <1>1, <2>3 DEF OnDisk
  <2>6. \A x, y \in root : x.path = y.path \/ x.id = y.id => x = y
    BY DEF Followed, Rooted
  <2> QED BY <1>1, <1>3, <2>1, <2>2, <2>4, <2>5, <2>6 DEF Rooted
<1> QED BY <1>4, <1>5, <1>6 DEF Followed

-----------------------------------------------------------------------------
LEMMA MoveStepFollowed ==
    ASSUME EndsApart, RoomToMove, Based, Solo, OneHome, Housed, Followed, NEW m \in Mover,
           MoveStep(m), ~meddled'
    PROVE  Followed'
<1>1. Tidy'
  BY MoveStepTidy DEF Followed
<1>2. ASSUME MoveReturns(m) PROVE Followed'
  <2>1. Step(m, NoMove) /\ UNCHANGED <<disk, root, author, file, scan>>
    BY <1>2 DEF MoveReturns, scanVars, tables
  <2>2. \A n \in Mover : move'[n] = move[n] \/ move'[n] = NoMove
    BY <2>1, StepSet DEF Based, OtherMovesStay
  <2> QED BY <1>1, <2>1, <2>2, EndedFollowed DEF NoMove
<1>3. WorkStep(m) => Followed'
  BY <1>1, WorkFollowed
<1> QED BY <1>1, <1>2, <1>3, BeginFollowed, CommitFollowed DEF MoveStep, WorkStep

\* A step with which nothing has meddled: a scan's between moves, a move's, the
\* death of the process.
LEMMA FollowedNext ==
    ASSUME ~AuthorScans, EndsApart, RoomToMove, Based, Solo, ~meddled => OneHome /\ Housed,
           ~meddled => Followed, [MNext]_vars, ~meddled'
    PROVE  Followed'
<1>1. ASSUME NEW s \in Scan, ScanStep(s), meddled' = (meddled \/ Moving # {}), move' = move
      PROVE  Followed'
  <2>1. Followed /\ Moving = {}
    BY <1>1
  <2>2. Tidy'
    BY <1>1, <2>1, ScanKeepsAuthors, MoreAuthorsTidy DEF Followed
  <2> QED BY <1>1, <2>1, <2>2, ScanFollowed
<1>2. CASE LibraryStep
  BY <1>1, <1>2 DEF LibraryStep
<1>3. ASSUME NEW m \in Mover, MoveStep(m) PROVE Followed'
  <2>1. ~meddled
    BY <1>3 DEF MoveStep, MoveBegin, ListAuthors, SkipFolder, RenameFolder, CopyFolder, OpenFile,
                CopyFile, CopyFails, RemoveOld, Commit, Rollback, MoveReturns
  <2> QED BY <1>3, <2>1, MoveStepFollowed
<1>4. CASE EditRoot
  BY <1>4 DEF EditRoot, CreateRoot, UpdateRoot, DeleteRoot, Edit
<1>5. CASE Crash
  <2>1. /\ Followed /\ UNCHANGED <<disk, root, author, file>>
        /\ \A m \in Mover : move'[m].pc = "idle"
        /\ \A s \in Scan : scan'[s].pc = "idle"
    BY <1>5 DEF Crash, tables, NoMove, Idle
  <2>2. Tidy'
    BY <1>5, <2>1, CrashTidy DEF Followed
  <2> QED BY <2>1, <2>2, EndedFollowed
<1>6. CASE UNCHANGED vars
  <2>1. Followed /\ UNCHANGED <<disk, root, author, file, scan, move>>
    BY <1>6 DEF vars, moveVars, scanVars, tables
  <2>2. Tidy'
    BY <2>1, MoreAuthorsTidy DEF Followed
  <2> QED BY <2>1, <2>2, EndedFollowed
<1> QED BY <1>2, <1>3, <1>4, <1>5, <1>6 DEF MNext

LEMMA FollowedInit == MInit => Followed
<1> SUFFICES ASSUME MInit PROVE Followed
  OBVIOUS
<1>1. /\ root = {[id |-> i, path |-> Roots[i]] : i \in DOMAIN Roots}
      /\ author = {} /\ Paths = {}
      /\ \A s \in Scan : scan[s].pc = "idle"
      /\ \A m \in Mover : move[m].pc = "idle"
  BY DEF MInit, Init, Paths, Idle, NoMove
<1>2. \A r, q \in root : r.path = q.path \/ r.id = q.id => r = q
  BY <1>1, ConstantsOK
<1>3. Rooted
  BY <1>1, <1>2 DEF Rooted, Running, Moving, AtFile, Underway, AtHand
<1>4. RowsSafe /\ \A m \in Mover : Processed(m) /\ DoneOk(m)
  BY <1>1 DEF RowsSafe, Processed, DoneOk, AtHand
<1> QED BY <1>3, <1>4, TidyInit DEF Followed

\* MoveRootFolder: a move that succeeds leaves every row with a whole file,
\* also when earlier tries, there or back, broke off half way or the process
\* died in them and scans came in between.  That is so for two paths, neither
\* inside the other, moves one at a time, authors whose folders are not in both
\* and rows in the folders of authors, as long as no scan was at work during a
\* move and the user changed nothing else.
THEOREM MovedRowsFollowFiles ==
    ASSUME ~AuthorScans, EndsApart, RoomToMove
    PROVE  MSpec /\ []Solo /\ [](~meddled => OneHome /\ Housed) => []RowsFollowFiles
<1> DEFINE Homes == ~meddled => OneHome /\ Housed
           IInv  == ~meddled => Followed
<1>1. MInit => IInv
  BY FollowedInit
<1>2. Based /\ Solo /\ Homes /\ IInv /\ [MNext]_vars => IInv'
  BY FollowedNext
<1>3. IInv => RowsFollowFiles
  BY DEF Followed, DoneOk, RowsFollowFiles, Paths, Whole
<1> HIDE DEF IInv, Homes
<1>4. MSpec /\ []Solo /\ []Homes => []RowsFollowFiles
  BY <1>1, <1>2, <1>3, BasedAlways, PTL DEF MSpec
<1> QED BY <1>4 DEF Homes

-----------------------------------------------------------------------------
(* One author to a name, and so one folder, while scans come one at a time. *)

OneScan == \A s, t \in Scan : (scan[s].pc # "idle" /\ scan[t].pc # "idle") => s = t

NamedHome == \A a \in author : \E d \in Ends : a.path = Append(d, a.name)

Unmet == \A s \in Scan : scan[s].pc = "newAuthor" => AuthorsNamed(scan[s].info.author) = {}

OneName == OneAuthorPerName /\ NamedHome /\ Unmet

LEMMA FewerNames ==
    ASSUME OneName, author' \subseteq author,
           \A s \in Scan : scan'[s].pc = "newAuthor" =>
                              scan[s].pc = "newAuthor" /\ scan'[s].info = scan[s].info
    PROVE  OneName'
  BY DEF OneName, OneAuthorPerName, NamedHome, Unmet, AuthorsNamed

\* How a scan comes by an author, a book and a row.
LEMMA SearchKinds ==
    ASSUME Types, NEW s \in Scan, ScanStep(s)
    PROVE  LET r == scan[s]
               q == scan'[s] IN
           /\ q.pc = "newAuthor" =>
                /\ r.pc = "discover" /\ q.at = r.at /\ q.root = r.root
                /\ q.info = Discovered(r.root, r.at) /\ AuthorsNamed(q.info.author) = {}
           /\ q.pc = "title" =>
                /\ q.at = r.at
                /\ \/ CreateAuthor(s)
                   \/ r.pc = "discover" /\ AuthorsNamed(Discovered(r.root, r.at).author) # {}
           /\ q.pc \in {"newBook", "insert"} =>
                /\ q.at = r.at
                /\ r.pc \in {"title", "newBook"} \/ (r.pc = "match" /\ Matches(r.at) # {})
           /\ \A p \in Paths' : p \in Paths \/ (r.pc = "insert" /\ p = r.at)
<1> DEFINE r == scan[s]
           q == scan'[s]
           later == {"newAuthor", "title", "newBook", "insert"}
<1>1. JobOk(r)
  BY TheJob
<1>2. FileStep(s) => (q.pc \in later => q.at = r.at) /\ q.root = r.root
  BY FileStepWalk DEF AtFile, SameWalk
<1>3. ASSUME Discover(s)
      PROVE  /\ r.pc = "discover"
             /\ \/ q.pc = "title" /\ AuthorsNamed(Discovered(r.root, r.at).author) # {}
                \/ /\ q.pc = "newAuthor" /\ q.info = Discovered(r.root, r.at)
                   /\ AuthorsNamed(q.info.author) = {}
  <2> DEFINE info == Discovered(r.root, r.at)
             new == [r EXCEPT !.pc = "newAuthor", !.info = info]
             had(a) == [r EXCEPT !.pc = "title", !.info = info, !.author = a.id]
  <2>1. /\ r.pc = "discover"
        /\ \/ \E a \in author : Become(s, had(a)) /\ AuthorsNamed(info.author) # {}
           \/ AuthorsNamed(info.author) = {} /\ Become(s, new)
    BY <1>3 DEF Discover, Reads, AuthorsNamed
  <2> HIDE DEF info
  <2>2. new.pc = "newAuthor" /\ new.info = info /\ \A a \in author : had(a).pc = "title"
    BY <1>1 DEF JobOk, Job
  <2> HIDE DEF new, had
  <2>3. \/ q.pc = "title" /\ AuthorsNamed(info.author) # {}
        \/ q.pc = "newAuthor" /\ q.info = info /\ AuthorsNamed(info.author) = {}
    BY <2>1, <2>2, BecomeSet
  <2> QED BY <2>1, <2>3 DEF info
<1>4. ASSUME Match(s)
      PROVE  /\ r.pc = "match"
             /\ q.pc = "discover" \/ (q.pc = "insert" /\ Matches(r.at) # {})
  <2> DEFINE found(b) == [r EXCEPT !.pc = "insert", !.book = b.id]
             none     == [r EXCEPT !.pc = "discover"]
  <2>1. /\ r.pc = "match"
        /\ (\E b \in Matches(r.at) : Become(s, found(b))) \/ Become(s, none)
    BY <1>4 DEF Match, Reads
  <2>2. (\A b \in Matches(r.at) : found(b).pc = "insert") /\ none.pc = "discover"
    BY <1>1 DEF JobOk, Job
  <2> HIDE DEF found, none
  <2> QED BY <2>1, <2>2, BecomeSet
<1>5. ASSUME FindBook(s) PROVE r.pc = "title" /\ q.pc \in {"insert", "newBook"}
  <2> DEFINE had(b) == [r EXCEPT !.pc = "insert", !.book = b.id, !.author = 0, !.info = NoInfo]
             new    == [r EXCEPT !.pc = "newBook"]
  <2>1. r.pc = "title" /\ ((\E b \in book : Become(s, had(b))) \/ Become(s, new))
    BY <1>5 DEF FindBook, Reads, BooksTitled
  <2>2. (\A b \in book : had(b).pc = "insert") /\ new.pc = "newBook"
    BY <1>1 DEF JobOk, Job
  <2> HIDE DEF had, new
  <2> QED BY <2>1, <2>2, BecomeSet
<1>6. ASSUME Compare(s) \/ UpdateFile(s) \/ AddFile(s) PROVE q.pc \in {"update", "walk"}
  <2> DEFINE next == [r EXCEPT !.pc = "update"]
  <2>1. Become(s, next) \/ Become(s, BackToWalk(r))
    BY <1>6 DEF Compare, UpdateFile, AddFile, Reads
  <2>2. next.pc = "update" /\ BackToWalk(r).pc = "walk"
    BY <1>1, BackToWalkJob DEF JobOk, Job
  <2> HIDE DEF next
  <2> QED BY <2>1, <2>2, BecomeSet
<1>7. ASSUME CreateBook(s) PROVE r.pc = "newBook" /\ q.pc \in {"insert", "walk"}
  <2> DEFINE new == [r EXCEPT !.pc = "insert", !.book = lastId.book + 1, !.author = 0, !.info = NoInfo]
  <2>1. r.pc = "newBook" /\ (Become(s, new) \/ Become(s, BackToWalk(r)))
    BY <1>7 DEF CreateBook
  <2>2. new.pc = "insert" /\ BackToWalk(r).pc = "walk"
    BY <1>1, BackToWalkJob DEF JobOk, Job
  <2> HIDE DEF new
  <2> QED BY <2>1, <2>2, BecomeSet
<1>8. ASSUME CreateAuthor(s) PROVE q.pc = "title"
  <2> DEFINE new == [r EXCEPT !.pc = "title", !.author = lastId.author + 1]
  <2>1. Become(s, new)
    BY <1>8 DEF CreateAuthor
  <2>2. new.pc = "title"
    BY <1>1 DEF JobOk, Job
  <2> HIDE DEF new
  <2> QED BY <2>1, <2>2, BecomeSet
<1>9. ASSUME ~FileStep(s) PROVE q.pc \notin later /\ \A p \in Paths' : p \in Paths
  <2>1. ASSUME NEW p \in r.existing, RemoveRow(s, p)
        PROVE  q.pc = "walk" /\ \A o \in Paths' : o \in Paths
    BY <2>1, RemoveRowWalk DEF SameFile, Paths
  <2>2. UNCHANGED tables => Paths' = Paths
    BY DEF tables, Paths
  <2>3. ASSUME NEW p \in r.todo, Visit(s, p)
        PROVE  q.pc \in {"walk", "match", "compare"} /\ UNCHANGED tables
    BY <2>3, VisitWalk
  <2>4. ASSUME NEW dir, ScanBegin(s, dir) PROVE q.pc = "snapshot" /\ UNCHANGED tables
    BY <2>4, ScanBeginWalk
  <2>5. ASSUME NEW dir \in r.dirs, ReadDir(s, dir) \/ ReadDirFails(s, dir)
        PROVE  q.pc = "walk" /\ UNCHANGED tables
    BY <2>5, ReadDirWalk, ReadDirFailsWalk DEF SameFile
  <2>6. ASSUME Snapshot(s) PROVE q.pc = "walk" /\ UNCHANGED tables
    BY <2>6, SnapshotWalk
  <2>7. ASSUME ScanEnd(s) \/ ScanAborted(s) PROVE q.pc = "idle" /\ UNCHANGED tables
    BY <2>7, ScanStopsWalk DEF Idle
  <2> QED BY <1>9, <2>1, <2>2, <2>3, <2>4, <2>5, <2>6, <2>7 DEF ScanStep, FileStep
<1>10. ASSUME FileStep(s) PROVE \A p \in Paths' : p \in Paths \/ (r.pc = "insert" /\ p = r.at)
  <2>1. CASE AddFile(s)
    BY <1>10, <2>1, NewRows DEF AddFile
  <2>2. CASE UpdateFile(s)
    BY <2>2, UpdateFileTypes
  <2>3. CASE ~AddFile(s) /\ ~UpdateFile(s)
    BY <1>10, <2>3 DEF FileStep, Compare, Match, Discover, CreateAuthor, FindBook, CreateBook, Reads,
                       tables, Paths
  <2> QED BY <2>1, <2>2, <2>3
<1>11. CASE FileStep(s)
  BY <1>2, <1>3, <1>4, <1>5, <1>6, <1>7, <1>8, <1>10, <1>11 DEF FileStep
<1> QED BY <1>9, <1>11

LEMMA ScanOneName ==
    ASSUME Based, OneScan, OneName, NEW s \in Scan, ScanStep(s)
    PROVE  OneName'
<1>0. Types
  BY DEF Based
<1> DEFINE r == scan[s]
<1>1. ASSUME NEW t \in Scan, t # s, scan[s].pc # "idle" PROVE scan[t].pc = "idle"
  BY <1>1 DEF OneScan
<1>2. CASE CreateAuthor(s)
  <2> DEFINE x == [id |-> lastId.author + 1, name |-> r.info.author,
                   path |-> Append(r.root, r.info.author)]
  <2>1. author' = author \cup {x} /\ r.pc = "newAuthor"
    BY <1>2 DEF CreateAuthor
  <2>2. x.name = r.info.author /\ x.path = Append(r.root, x.name)
    OBVIOUS
  <2> HIDE DEF x
  <2>3. \A a \in author : ~SameName(a.name, x.name) /\ ~SameName(x.name, a.name)
    BY <2>1, <2>2 DEF OneName, Unmet, AuthorsNamed, SameName
  <2>4. OneAuthorPerName'
    BY <2>1, <2>3 DEF OneName, OneAuthorPerName
  <2>5. r.root \in Ends
    BY <2>1 DEF Based, ReachedIn, ReachedBy
  <2>6. NamedHome'
    BY <2>1, <2>2, <2>5 DEF OneName, NamedHome
  <2>7. scan'[s].pc = "title"
    <3> DEFINE q == [r EXCEPT !.pc = "title", !.author = lastId.author + 1]
    <3>1. Become(s, q)
      BY <1>2 DEF CreateAuthor
    <3>2. q.pc = "title"
      BY <1>0, TheJob DEF JobOk, Job
    <3> HIDE DEF q
    <3> QED BY <1>0, <3>1, <3>2, BecomeSet
  <2>8. \A t \in Scan : t # s => scan'[t].pc = "idle"
    BY <1>0, <1>1, <1>2, <2>1, FileStepWalk DEF FileStep, OthersStay
  <2>9. Unmet'
    BY <2>7, <2>8 DEF Unmet
  <2> QED BY <2>4, <2>6, <2>9 DEF OneName
<1>3. CASE ~CreateAuthor(s)
  <2>1. author' = author
    BY <1>3 DEF ScanStep, ScanBegin, Snapshot, ReadDir, ReadDirFails, Visit, Compare, UpdateFile,
                Match, Discover, FindBook, CreateBook, AddFile, RemoveRow, ScanEnd, ScanAborted, Reads, tables
  <2>2. OthersStay(s)
    <3>1. FileStep(s) => OthersStay(s)
      BY <1>0, FileStepWalk
    <3>2. ~FileStep(s) => OthersStay(s)
      BY <1>0, ScanBeginWalk, SnapshotWalk, ReadDirWalk, ReadDirFailsWalk, VisitWalk,
         RemoveRowWalk, ScanStopsWalk
         DEF ScanStep, FileStep
    <3> QED BY <3>1, <3>2
  <2>3. Unmet'
    BY <1>0, <2>1, <2>2, SearchKinds DEF OneName, Unmet, AuthorsNamed, OthersStay
  <2> QED BY <2>1, <2>3 DEF OneName, OneAuthorPerName, NamedHome
<1> QED BY <1>2, <1>3

LEMMA CommitOneName ==
    ASSUME Based, EndsApart, OneName, NEW m \in Mover, Commit(m)
    PROVE  OneName'
<1> DEFINE r == move[m]
           new(a) == IF Like(r.old, a.path) THEN [a EXCEPT !.path = Rebase(a.path, r.old, r.new)] ELSE a
<1>1. author' = {new(a) : a \in author} /\ scan' = scan
  BY DEF Commit, NewAuthors
<1>2. r.old \in Ends /\ r.new \in Ends
  BY TheRequest DEF Based, RequestOk, Commit, Underway, AtHand
<1> HIDE DEF r
<1>3. ASSUME NEW a \in author
      PROVE  new(a).name = a.name /\ \E d \in Ends : new(a).path = Append(d, a.name)
  <2>1. a \in [id : 1..lastId.author, name : Name, path : Path]
    BY DEF Based, Types, Tables, AuthorRows
  <2>2. PICK d \in Ends : a.path = Append(d, a.name)
    BY DEF OneName, NamedHome
  <2>3. CASE Like(r.old, a.path)
    <3>1. d = r.old
      BY <1>2, <2>1, <2>2, <2>3 DEF EndsApart
    <3>2. Rebase(a.path, r.old, r.new) = Append(r.new, a.name)
      BY <1>2, <2>1, <2>2, <3>1, RebasedFolder
    <3>3. new(a).name = a.name /\ new(a).path = Rebase(a.path, r.old, r.new)
      BY <2>1, <2>3
    <3> QED BY <1>2, <3>2, <3>3
  <2>4. CASE ~Like(r.old, a.path)
    BY <2>2, <2>4
  <2> QED BY <2>3, <2>4
<1> HIDE DEF new
<1>4. OneAuthorPerName' /\ NamedHome'
  BY <1>1, <1>3 DEF OneName, OneAuthorPerName, NamedHome
<1>5. Unmet'
  BY <1>1, <1>3 DEF OneName, Unmet, AuthorsNamed
<1> QED BY <1>4, <1>5 DEF OneName

LEMMA OneNameNext ==
    ASSUME EndsApart, Based, OneScan, OneName, [MNext]_vars
    PROVE  OneName'
<1>1. ASSUME NEW d, DiskBecomes(d), author' = author PROVE OneName'
  BY <1>1, DiskWalk, FewerNames DEF Based, SameFile
<1>2. ASSUME UNCHANGED <<author, scan>> PROVE OneName'
  BY <1>2, FewerNames
<1>3. ASSUME NEW s \in Scan, ScanStep(s) PROVE OneName'
  BY <1>3, ScanOneName
<1>4. CASE User
  <2>1. ASSUME NEW id, DeleteAuthor(id) PROVE OneName'
    BY <2>1, FewerNames DEF DeleteAuthor, DeleteAuthorRow
  <2>2. (\E d : DiskBecomes(d) /\ UNCHANGED tables) \/ (\E id : DeleteAuthor(id))
    BY <1>4 DEF User, FileChanges, DeleteAuthorFiles
  <2> QED BY <1>1, <2>1, <2>2 DEF tables
<1>5. ASSUME NEW m \in Mover, MoveStep(m) PROVE OneName'
  BY <1>1, <1>2, <1>5, StepKinds, CommitOneName DEF Writes, scanVars, tables
<1>6. CASE EditRoot
  BY <1>2, <1>6 DEF EditRoot, CreateRoot, UpdateRoot, DeleteRoot, Edit
<1>7. CASE Crash
  BY <1>7, FewerNames DEF Crash, tables, Idle
<1>8. CASE UNCHANGED vars
  BY <1>2, <1>8 DEF vars, scanVars, tables
<1> QED BY <1>3, <1>4, <1>5, <1>6, <1>7, <1>8 DEF MNext, LibraryStep

LEMMA OneFolderOneHome ==
    ASSUME EndsApart, RoomToMove, Based, OneName
    PROVE  OneHome
<1> SUFFICES ASSUME NEW p \in Place, NEW q \in Place, Twins(p, q), HomeSide(p), HomeSide(q)
             PROVE  FALSE
  BY DEF OneHome
<1>1. PICK a \in author : Under(a.path, p)
  BY DEF HomeSide
<1>2. PICK b \in author : Under(b.path, q)
  BY DEF HomeSide
<1>3. PICK d \in Ends : a.path = Append(d, a.name)
  BY DEF OneName, NamedHome
<1>4. PICK e \in Ends : b.path = Append(e, b.name)
  BY DEF OneName, NamedHome
<1>5. a.name \in Name /\ b.name \in Name
  BY DEF Based, Types, Tables, AuthorRows
<1>6. Under(d, p) /\ Under(e, q)
  BY <1>1, <1>2, <1>3, <1>4, <1>5, EndPaths, InFolder
<1>7. d # e
  <2>1. PICK x \in Ends, y \in Ends : x # y /\ Under(x, p) /\ q = Moved(p, x, y)
    BY DEF Twins
  <2>2. Under(y, q)
    BY <2>1, MovedPlace
  <2> QED BY <1>6, <2>1, <2>2, OneEnd
<1> DEFINE o == Moved(p, Append(d, a.name), Append(e, a.name))
<1>8. Twins(p, o) /\ Under(Append(e, a.name), o) /\ o \in Place
  BY <1>1, <1>3, <1>5, <1>7, TwinFolders
<1> HIDE DEF o
<1>9. o = q
  BY <1>8, OneTwin
<1>10. a.name = b.name
  BY <1>2, <1>4, <1>5, <1>8, <1>9, OneFolderBelow
<1>11. a = b
  BY <1>10 DEF OneName, OneAuthorPerName, SameName
<1>12. d = e
  <2>1. Append(d, a.name) = Append(e, a.name)
    BY <1>3, <1>4, <1>10, <1>11
  <2>2. d \in Path /\ e \in Path
    BY EndPaths
  <2>3. Front(Append(d, a.name)) = d /\ Front(Append(e, a.name)) = e
    BY <1>5, <2>2, FrontOfAppend
  <2> QED BY <2>1, <2>3
<1> QED BY <1>7, <1>12

\* findOrCreateAuthor: scans that come one at a time make one author of a name,
\* whatever moves, edits, deletions and crashes come between their statements,
\* and with it one folder: what the theorems above ask of authors.
THEOREM OneScanOneAuthor ==
    ASSUME ~AuthorScans, EndsApart, RoomToMove
    PROVE  MSpec /\ []OneScan => [](OneAuthorPerName /\ OneHome)
<1>1. MInit => OneName
  BY DEF MInit, Init, OneName, OneAuthorPerName, NamedHome, Unmet, AuthorsNamed
<1>2. Based /\ OneScan /\ OneName /\ [MNext]_vars => OneName'
  BY OneNameNext
<1>3. Based /\ OneName => OneAuthorPerName /\ OneHome
  BY OneFolderOneHome DEF OneName
<1> QED BY <1>1, <1>2, <1>3, BasedAlways, PTL DEF MSpec

-----------------------------------------------------------------------------
(* A library in which every row is in the folder of an author. *)

\* There is one root folder to begin with, files are in folders below it, and
\* two authors' names differ in more than case.
Plain ==
    /\ \A i, j \in DOMAIN Roots : i = j
    /\ \A d \in Ends, p \in Place : Under(d, p) => p.dir # d
    /\ \A n, k \in Name : SameName(n, k) => n = k

\* A file's metadata name no author but the one whose folder it is in.
OwnLabels ==
    \A d \in Ends, p \in Place :
        (OnDisk(p) /\ Under(d, p)) => Meta[disk[p]].author \in {NoName, Within(d, p)[1]}

\* What a scan knows of its file leads to the author whose folder the file is in.
Found(s) ==
    LET r == scan[s] IN
    /\ r.pc = "newAuthor" => Under(Append(r.root, r.info.author), r.at)
    /\ r.pc \in {"title", "newBook", "insert"} => HomeSide(r.at)

AllHoused == Housed /\ (\A x, y \in root : x = y) /\ \A s \in Scan : Found(s)

LEMMA FolderOfFirst ==
    ASSUME NEW d \in Path, NEW p \in Place, Under(d, p), p.dir # d
    PROVE  Within(d, p)[1] \in Name /\ Under(Append(d, Within(d, p)[1]), p)
<1> DEFINE w == Within(d, p)
<1>1. w \in Path /\ w # <<>> /\ w[1] \in Name
  BY FirstWithin
<1> HIDE DEF w
<1>2. w[1] = Head(w) /\ Tail(w) \in Path /\ w = <<w[1]>> \o Tail(w)
  BY <1>1, HeadTailProperties DEF Path
<1> QED BY <1>1, <1>2, IntoFolder DEF w

LEMMA DiscoveredFolder ==
    ASSUME Plain, OwnLabels, NEW d \in Ends, NEW p \in Place, Under(d, p)
    PROVE  LET n == Discovered(d, p).author IN n \in Name /\ Under(Append(d, n), p)
<1> DEFINE w == Within(d, p)
<1>1. d \in Path /\ p.dir # d
  BY EndPaths DEF Plain
<1>2. w # <<>> /\ w[1] \in Name /\ Under(Append(d, w[1]), p)
  BY <1>1, FirstWithin, FolderOfFirst
<1>3. parsePathForBookInfo(d, p).author = w[1]
  BY <1>2 DEF parsePathForBookInfo
<1>4. w[1] # NoName
  BY <1>2, ConstantsOK
<1>5. Discovered(d, p).author = w[1]
  <2>1. disk[p] # Absent => Meta[disk[p]].author \in {NoName, w[1]}
    BY DEF OwnLabels, OnDisk
  <2> QED BY <1>3, <1>4, <2>1 DEF Discovered, NoInfo
<1> QED BY <1>2, <1>5

\* matchFileToBook: a book found by the file's folder is that of its author.
LEMMA MatchedHome ==
    ASSUME Types, NEW p \in Place, p.dir # <<>>, Matches(p) # {}
    PROVE  HomeSide(p)
<1>1. PICK a \in author : a.path = p.dir \/ a.path = Front(p.dir)
  BY DEF Matches, BooksIn
<1>2. p.dir \in Path
  BY PlaceFields DEF Path
<1>3. CASE a.path = p.dir
  <2>1. p.dir = p.dir \o <<>> /\ <<>> \in Path
    BY <1>2, ConcatEmptySeq DEF Path
  <2>2. Under(p.dir, p)
    BY <1>2, <2>1, OnTop
  <2> QED BY <1>3, <2>2 DEF HomeSide
<1>4. CASE a.path = Front(p.dir)
  <2>1. Front(p.dir) \in Path /\ Last(p.dir) \in Name /\ Front(p.dir) \o <<Last(p.dir)>> = p.dir
    BY <1>2, FrontAndLast
  <2>2. <<Last(p.dir)>> \in Path
    BY <2>1 DEF Path
  <2>3. Under(Front(p.dir), p)
    BY <2>1, <2>2, OnTop
  <2> QED BY <1>4, <2>3 DEF HomeSide
<1> QED BY <1>1, <1>3, <1>4

LEMMA ScanHoused ==
    ASSUME ~AuthorScans, EndsApart, RoomToMove, Plain, Based, OwnLabels, OneName, Rooted, AllHoused,
           NEW s \in Scan, ScanStep(s)
    PROVE  AllHoused'
<1> DEFINE r == scan[s]
           q == scan'[s]
<1>0. Types /\ OthersStay(s) /\ UNCHANGED root /\ author \subseteq author'
  BY ScanScope, ScanKeepsAuthors DEF Based
<1>1. \A p : HomeSide(p) => \E a \in author' : Under(a.path, p)
  BY <1>0 DEF HomeSide
<1>2. ASSUME r.pc \in AtFile
      PROVE  /\ r.at \in Place /\ r.root \in Ends /\ Under(r.root, r.at)
             /\ \E x \in root : x.path = r.root
  <2>1. r.pc # "idle" /\ r.at \in Place
    BY <1>0, <1>2, TheJob DEF JobOk, AtFile
  <2>2. r.root \in Ends /\ Under(r.root, r.at)
    BY <1>2, <2>1 DEF Based, ReachedIn, ReachedBy, Walkable
  <2> QED BY <2>1, <2>2 DEF Rooted, Running
<1>3. ASSUME r.pc = "discover", AuthorsNamed(Discovered(r.root, r.at).author) # {}
      PROVE  HomeSide(r.at)
  <2> DEFINE n == Discovered(r.root, r.at).author
  <2>1. n \in Name /\ Under(Append(r.root, n), r.at)
    BY <1>2, <1>3, DiscoveredFolder DEF AtFile
  <2>2. PICK a \in author : SameName(a.name, n)
    BY <1>3 DEF AuthorsNamed
  <2> HIDE DEF n
  <2>3. a.name \in Name
    BY <1>0 DEF Types, Tables, AuthorRows
  <2>4. a.name = n
    BY <2>1, <2>2, <2>3 DEF Plain
  <2>5. PICK d \in Ends : a.path = Append(d, a.name)
    BY DEF OneName, NamedHome
  <2>6. PICK x \in root, k \in Name : a.path = Append(x.path, k)
    BY DEF Rooted
  <2>7. x.path = r.root /\ x.path \in Path
    BY <1>0, <1>2, <1>3 DEF AllHoused, AtFile, Types, Tables, RootRows
  <2>8. d = x.path
    <3>1. d \in Path
      BY EndPaths
    <3>2. Front(Append(d, a.name)) = d /\ Front(Append(x.path, k)) = x.path
      BY <2>3, <2>6, <2>7, <3>1, FrontOfAppend
    <3> QED BY <2>5, <2>6, <3>2
  <2>9. a.path = Append(r.root, n)
    BY <2>4, <2>5, <2>7, <2>8
  <2> QED BY <2>1, <2>9 DEF HomeSide
<1>4. ASSUME CreateAuthor(s) PROVE \E a \in author' : Under(a.path, r.at)
  <2> DEFINE x == [id |-> lastId.author + 1, name |-> r.info.author,
                   path |-> Append(r.root, r.info.author)]
  <2>1. x \in author' /\ r.pc = "newAuthor"
    BY <1>4 DEF CreateAuthor
  <2>2. x.path = Append(r.root, r.info.author)
    OBVIOUS
  <2> HIDE DEF x
  <2> QED BY <2>1, <2>2 DEF AllHoused, Found
<1>5. r.pc = "match" /\ Matches(r.at) # {} => HomeSide(r.at)
  <2>1. r.pc = "match" => r.at.dir # <<>>
    <3>1. ASSUME r.pc = "match", r.at.dir = <<>> PROVE FALSE
      <4>1. r.at \in Place /\ r.root \in Ends /\ Under(r.root, r.at)
        BY <1>2, <3>1 DEF AtFile
      <4>2. Len(r.root) <= Len(r.at.dir) /\ Len(r.root) >= 1
        BY <4>1, EndPaths, UnderElements
      <4> QED BY <3>1, <4>2
    <3> QED BY <3>1
  <2> QED BY <1>0, <1>2, <2>1, MatchedHome DEF AtFile
<1>6. Found(s)'
  <2>1. ASSUME q.pc = "newAuthor" PROVE Under(Append(q.root, q.info.author), q.at)
    BY <1>0, <1>2, <2>1, SearchKinds, DiscoveredFolder DEF AtFile
  <2>2. ASSUME q.pc = "title" PROVE \E a \in author' : Under(a.path, q.at)
    <3>1. \E a \in author' : Under(a.path, r.at)
      BY <1>0, <1>1, <1>3, <1>4, <2>2, SearchKinds
    <3>2. q.at = r.at
      BY <1>0, <2>2, SearchKinds
    <3> QED BY <3>1, <3>2
  <2>3. ASSUME q.pc \in {"newBook", "insert"} PROVE \E a \in author' : Under(a.path, q.at)
    <3>1. HomeSide(r.at)
      BY <1>0, <1>5, <2>3, SearchKinds DEF AllHoused, Found
    <3>2. q.at = r.at
      BY <1>0, <2>3, SearchKinds
    <3> QED BY <1>1, <3>1, <3>2
  <2> QED BY <2>1, <2>2, <2>3 DEF Found, HomeSide
<1>7. ASSUME NEW t \in Scan, t # s PROVE Found(t)'
  <2>1. scan'[t] = scan[t] /\ Found(t)
    BY <1>0, <1>7 DEF OthersStay, AllHoused
  <2> QED BY <1>0, <2>1 DEF Found, HomeSide
<1>8. Housed'
  <2>1. ASSUME NEW p \in Paths' PROVE HomeSide(p)
    <3>1. p \in Paths \/ (r.pc = "insert" /\ p = r.at)
      BY <1>0, SearchKinds
    <3> QED BY <3>1 DEF AllHoused, Housed, Found, Paths
  <2>2. \A p \in Paths' : HomeSide(p)'
    BY <1>1, <2>1 DEF HomeSide
  <2> QED BY <2>2 DEF Housed, Paths
<1> QED BY <1>0, <1>6, <1>7, <1>8 DEF AllHoused

LEMMA CommitHoused ==
    ASSUME Based, EndsApart, RoomToMove, Rooted, AllHoused, NEW m \in Mover, Commit(m)
    PROVE  AllHoused'
<1> DEFINE r == move[m]
           new(f) == IF Like(r.old, Full(f.place))
                     THEN [f EXCEPT !.place = RebasePlace(f.place, r.old, r.new)] ELSE f
           home(a) == IF Like(r.old, a.path) THEN [a EXCEPT !.path = Rebase(a.path, r.old, r.new)] ELSE a
<1>1. /\ file' = {new(f) : f \in file} /\ author' = {home(a) : a \in author} /\ scan' = scan
      /\ r.pc \in Underway
  BY DEF Commit, NewFiles, NewAuthors, Underway, AtHand
<1>2. r.old \in Ends /\ r.new \in Ends /\ r.old # r.new
  BY CommitRoot
<1>3. ASSUME NEW f \in file PROVE \E b \in author' : Under(b.path, new(f).place)
  <2> DEFINE p == f.place
  <2>1. p \in Place /\ p \in Paths /\ f \in [place : Place, book : {b.id : b \in book}, size : Nat]
    BY DEF Paths, Based, Types, Tables, FileRows
  <2>2. PICK a \in author : Under(a.path, p)
    BY DEF AllHoused, Housed, HomeSide
  <2>3. PICK n \in Name : a.path = Append(r.old, n)
    BY CommitRoot DEF Rooted
  <2>4. Like(r.old, a.path) /\ Rebase(a.path, r.old, r.new) = Append(r.new, n)
    BY <1>2, <2>3, RebasedFolder
  <2>5. a \in [id : 1..lastId.author, name : Name, path : Path]
    BY DEF Based, Types, Tables, AuthorRows
  <2>6. home(a).path = Append(r.new, n)
    BY <2>4, <2>5
  <2>7. Under(r.old, p)
    BY <1>2, <2>1, <2>2, <2>3, EndPaths, InFolder
  <2>8. Like(r.old, Full(p))
    BY <1>2, <2>1, <2>7, EndPaths, LikeBelow
  <2>9. RebasePlace(p, r.old, r.new) = Moved(p, r.old, r.new)
    BY <1>2, <2>8, NewRow
  <2>10. new(f).place = Moved(p, r.old, r.new)
    BY <2>1, <2>8, <2>9
  <2> DEFINE o == Moved(p, Append(r.old, n), Append(r.new, n))
  <2>11. Twins(p, o) /\ Under(Append(r.new, n), o)
    BY <1>2, <2>1, <2>2, <2>3, TwinFolders
  <2>12. Twins(p, Moved(p, r.old, r.new))
    BY <1>2, <2>7 DEF Twins
  <2> HIDE DEF o, new, home
  <2>13. new(f).place = o
    BY <2>1, <2>10, <2>11, <2>12, OneTwin
  <2>14. home(a) \in author'
    BY <1>1
  <2> QED BY <2>6, <2>11, <2>13, <2>14
<1> HIDE DEF new, home
<1>4. Housed'
  BY <1>1, <1>3 DEF Housed, HomeSide
<1>5. Running = {}
  BY <1>1 DEF Rooted, Moving, Underway, AtHand
<1>6. \A s \in Scan : scan'[s].pc = "idle"
  BY <1>1, <1>5 DEF Running
<1>7. \A s \in Scan : Found(s)'
  BY <1>6 DEF Found
<1>8. \A x, y \in root' : x = y
  BY CommitRoot
<1> QED BY <1>4, <1>7, <1>8 DEF AllHoused

LEMMA HousedFrame ==
    ASSUME AllHoused, UNCHANGED <<root, author, file>>,
           \A s \in Scan : scan'[s] = scan[s] \/ scan'[s].pc = "idle"
    PROVE  AllHoused'
<1>1. Housed'
  BY DEF AllHoused, Housed, HomeSide
<1>2. ASSUME NEW s \in Scan PROVE Found(s)'
  <2>1. Found(s)
    BY DEF AllHoused
  <2>2. CASE scan'[s] = scan[s]
    BY <2>1, <2>2 DEF Found, HomeSide
  <2>3. CASE scan'[s].pc = "idle"
    BY <2>3 DEF Found
  <2> QED BY <2>2, <2>3
<1> QED BY <1>1, <1>2 DEF AllHoused

LEMMA HousedNext ==
    ASSUME ~AuthorScans, EndsApart, RoomToMove, Plain, Based, OwnLabels, OneName,
           ~meddled => Rooted /\ AllHoused, [MNext]_vars, ~meddled'
    PROVE  AllHoused'
<1>1. CASE LibraryStep
  BY <1>1, ScanHoused DEF LibraryStep
<1>2. ASSUME NEW m \in Mover, MoveStep(m) PROVE AllHoused'
  <2>1. ~meddled
    BY <1>2 DEF MoveStep, MoveBegin, ListAuthors, SkipFolder, RenameFolder, CopyFolder, OpenFile,
                CopyFile, CopyFails, RemoveOld, Commit, Rollback, MoveReturns
  <2>2. ASSUME UNCHANGED scanVars PROVE AllHoused'
    BY <2>1, <2>2, HousedFrame DEF scanVars, tables
  <2>3. ASSUME WorkStep(m), NEW d, Writes(d) PROVE AllHoused'
    <3>1. m \in Moving
      BY <2>3 DEF WorkStep, ListAuthors, SkipFolder, RenameFolder, CopyFolder, OpenFile, CopyFile,
                  CopyFails, RemoveOld, Rollback, Moving
    <3>2. Running = {}
      BY <2>1, <3>1 DEF Rooted
    <3>3. \A s \in Scan : scan'[s].pc = "idle"
      BY <2>3, <3>2, DiskWalk DEF Writes, Running, Based, SameFile
    <3> QED BY <2>1, <2>3, <3>3, HousedFrame DEF Writes, tables
  <2>4. WorkStep(m) => AllHoused'
    BY <2>2, <2>3, WorkKinds
  <2>5. Commit(m) => AllHoused'
    BY <2>1, CommitHoused
  <2>6. (\E r \in root, new \in Target : MoveBegin(m, r, new)) \/ MoveReturns(m) => UNCHANGED scanVars
    BY DEF MoveBegin, MoveReturns
  <2> QED BY <1>2, <2>2, <2>4, <2>5, <2>6 DEF MoveStep, WorkStep
<1>3. CASE EditRoot
  BY <1>3 DEF EditRoot, CreateRoot, UpdateRoot, DeleteRoot, Edit
<1>4. CASE Crash
  BY <1>4, HousedFrame DEF Crash, tables, Idle
<1>5. CASE UNCHANGED vars
  BY <1>5, HousedFrame DEF vars, moveVars, scanVars, tables
<1> QED BY <1>1, <1>2, <1>3, <1>4, <1>5 DEF MNext

\* MoveRootFolder, from one root folder to another path and back, for a library
\* whose files are in their authors' folders and say so: with scans and moves
\* each one at a time, a move that succeeds leaves every row with a whole file.
\* Nothing is supposed here of where rows and authors are.
THEOREM PlainLibraryMoves ==
    ASSUME ~AuthorScans, EndsApart, RoomToMove, Plain
    PROVE  MSpec /\ []Solo /\ []OneScan /\ []OwnLabels => []RowsFollowFiles
<1> DEFINE IInv == OneName /\ (~meddled => Followed /\ AllHoused)
<1>1. MInit => IInv
  <2> SUFFICES ASSUME MInit PROVE IInv
    OBVIOUS
  <2>1. OneName
    BY DEF MInit, Init, OneName, OneAuthorPerName, NamedHome, Unmet, AuthorsNamed
  <2>2. AllHoused
    BY DEF MInit, Init, AllHoused, Housed, Found, Idle, Plain
  <2> QED BY <2>1, <2>2, FollowedInit
<1>2. Based /\ Solo /\ OneScan /\ OwnLabels /\ IInv /\ [MNext]_vars => IInv'
  <2> SUFFICES ASSUME Based, Solo, OneScan, OwnLabels, IInv, [MNext]_vars PROVE IInv'
    OBVIOUS
  <2>1. OneName'
    BY OneNameNext
  <2>2. OneHome
    BY OneFolderOneHome
  <2>3. ~meddled' => Followed'
    BY <2>2, FollowedNext DEF AllHoused
  <2>4. ~meddled' => AllHoused'
    BY HousedNext DEF Followed
  <2> QED BY <2>1, <2>3, <2>4
<1>3. IInv => RowsFollowFiles
  BY DEF Followed, DoneOk, RowsFollowFiles, Paths, Whole
<1> QED BY <1>1, <1>2, <1>3, BasedAlways, PTL DEF MSpec
=============================================================================
