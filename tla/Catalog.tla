---------------------------------- MODULE Catalog ----------------------------------
(***************************************************************************)
(* internal/core/author and internal/core/book: authors, books and the     *)
(* file a book has, as the REST handlers create, change and delete them.   *)
(*                                                                         *)
(* The database has one connection: a statement is one step. Find-or-      *)
(* create is a statement for each question and one for the INSERT, and     *)
(* requests run side by side. Ids are AUTOINCREMENT, never given twice: a  *)
(* row that is gone stays gone, so that a SELECT of it by id followed by   *)
(* its UPDATE is one step, the UPDATE's.                                   *)
(***************************************************************************)
EXTENDS Naturals, Sequences, FiniteSets

CONSTANTS
    Proc,               \* requests being served
    AuthorId, BookId,   \* ids the tables can give
    Name, Title,        \* told apart as LOWER(...) = LOWER(...) does
    ForeignId,          \* ids of a metadata provider
    Shelf,              \* the library a start finds: a sequence of [name, title]
    MaxRequests         \* bound

ASSUME CatalogConstantsOK ==
    /\ AuthorId \subseteq Nat \ {0} /\ BookId \subseteq Nat \ {0} /\ IsFiniteSet(BookId)
    /\ "null" \notin ForeignId
    /\ Shelf \in Seq([name : Name, title : Title])
    /\ 1 .. Len(Shelf) \subseteq AuthorId \cap BookId
    /\ \A i, j \in 1 .. Len(Shelf) : Shelf[i].name = Shelf[j].name => i = j
    /\ MaxRequests \in Nat

VARIABLES
    author,     \* the authors table
    book,       \* the books table
    file,       \* book_files: the path of each book's file, or NoFile
    proc,       \* what each request is doing
    \* History: the bound; names that several authors may have.
    requests, shared

catVars == <<author, book, file, proc, requests, shared>>

-----------------------------------------------------------------------------
NoAuthor == [st |-> "free", name |-> "", fid |-> "null"]
NoBook == [st |-> "free", author |-> 0, title |-> "", fid |-> "null", wish |-> FALSE]
NoFile == [dir |-> "", name |-> <<>>]

Authors == {a \in AuthorId : author[a].st = "row"}
Books == {b \in BookId : book[b].st = "row"}
Named(n) == {a \in Authors : author[a].name = n}

Idle == [pc |-> "idle", kind |-> "none", id |-> 0, name |-> "", fid |-> "",
         title |-> "", bfid |-> "", wish |-> FALSE]

\* firstFile[i]: where the file of the i-th book of the shelf is.
CatInit(firstFile) ==
    LET n == Len(Shelf) IN
    /\ author = [a \in AuthorId |->
          IF a > n THEN NoAuthor ELSE [st |-> "row", name |-> Shelf[a].name, fid |-> "null"]]
    /\ book = [b \in BookId |->
          IF b > n THEN NoBook ELSE [st |-> "row", author |-> b, title |-> Shelf[b].title,
                                     fid |-> "null", wish |-> FALSE]]
    /\ file = [b \in BookId |-> IF b > n THEN NoFile ELSE firstFile[b]]
    /\ proc = [p \in Proc |-> Idle]
    /\ requests = 0 /\ shared = {}

Become(p, r) == proc' = [proc EXCEPT ![p] = r]
Goto(p, pc) == proc' = [proc EXCEPT ![p].pc = pc]
Return(p) == Become(p, Idle)

Request(p) ==
    /\ proc[p] = Idle
    /\ requests < MaxRequests
    /\ requests' = requests + 1

UNCHANGEDrows == UNCHANGED <<author, book, file>>

-----------------------------------------------------------------------------
(* author.Service.Create, and the wishlist's find-or-create in front of it. *)

CreateAuthor(p) ==
    /\ Request(p)
    /\ \E n \in Name, f \in ForeignId \cup {""} :
        Become(p, [Idle EXCEPT !.pc = IF f = "" THEN "byName" ELSE "byFid",
                               !.kind = "author", !.name = n, !.fid = f])
    /\ UNCHANGEDrows /\ UNCHANGED shared

\* An existing author is set to monitored, a created one read again: both end
\* with a SELECT by id, which finds nothing if the author has been deleted.
Found(p, a) == Become(p, [proc[p] EXCEPT !.pc = "reread", !.id = a])

\* Mutant: an unknown foreign id is taken for an unknown author.
FindByForeignID_only(p) ==
    /\ proc[p].pc \in {"byFid", "refindFid"}
    /\ \/ \E a \in Authors : author[a].fid = proc[p].fid /\ Found(p, a)
       \/ /\ \A a \in Authors : author[a].fid # proc[p].fid
          /\ Goto(p, IF proc[p].pc = "byFid" THEN "insert" ELSE "refindName")
    /\ UNCHANGEDrows /\ UNCHANGED shared /\ UNCHANGED requests

FindByForeignID(p) ==
    /\ proc[p].pc \in {"byFid", "refindFid"}
    /\ \/ \E a \in Authors : author[a].fid = proc[p].fid /\ Found(p, a)
       \/ /\ \A a \in Authors : author[a].fid # proc[p].fid
          /\ Goto(p, IF proc[p].pc = "byFid" THEN "byName" ELSE "refindName")
    /\ UNCHANGEDrows /\ UNCHANGED shared /\ UNCHANGED requests

\* No author of the name: it will be inserted. Another request may be about
\* to insert it too; from here on there may be two.
NotNamed(p) ==
    /\ Named(proc[p].name) = {}
    /\ Goto(p, "insert")
    /\ shared' = shared \cup {proc[q].name : q \in
                    {r \in Proc \ {p} : proc[r].pc = "insert" /\ proc[r].name = proc[p].name}}

FindByName(p) ==
    /\ proc[p].pc = "byName"
    /\ \/ /\ \E a \in Named(proc[p].name) : Found(p, a)
          /\ UNCHANGED shared
       \/ NotNamed(p)
    /\ UNCHANGEDrows /\ UNCHANGED requests

\* The id that AUTOINCREMENT gives next.
NewId(free, i) == i \in free /\ \A j \in free : i <= j

\* An empty foreign id is stored as NULL; any other is UNIQUE.
FidTaken(p) == proc[p].fid # "" /\ \E a \in Authors : author[a].fid = proc[p].fid

InsertAuthor(p) ==
    /\ proc[p].pc = "insert"
    /\ \/ /\ FidTaken(p)
          /\ Goto(p, "refindFid")
          /\ UNCHANGED author
       \/ /\ ~FidTaken(p)
          /\ \E a \in AuthorId :
              /\ NewId({i \in AuthorId : author[i] = NoAuthor}, a)
              /\ author' = [author EXCEPT ![a] = [st |-> "row", name |-> proc[p].name,
                              fid |-> IF proc[p].fid = "" THEN "null" ELSE proc[p].fid]]
              /\ Found(p, a)
    /\ UNCHANGED <<book, file, requests>> /\ UNCHANGED shared

\* After the UNIQUE error the author is looked for once more.
FindAgain(p) ==
    /\ proc[p].pc = "refindName"
    /\ \/ \E a \in Named(proc[p].name) : Found(p, a)
       \/ Named(proc[p].name) = {} /\ Return(p)
    /\ UNCHANGEDrows /\ UNCHANGED shared /\ UNCHANGED requests

BookPc(p) == IF proc[p].bfid = "" THEN "bookAuthor" ELSE "bookFid"

Reread(p) ==
    /\ proc[p].pc = "reread"
    /\ IF proc[p].id \in Authors /\ proc[p].kind = "wish" THEN Goto(p, BookPc(p)) ELSE Return(p)
    /\ UNCHANGEDrows /\ UNCHANGED shared /\ UNCHANGED requests

-----------------------------------------------------------------------------
(* book.Service.Create, and the wishlist. *)

CreateBook(p) ==
    /\ Request(p)
    /\ \E a \in AuthorId, t \in Title, f \in ForeignId \cup {""}, w \in BOOLEAN :
        Become(p, [Idle EXCEPT !.pc = IF f = "" THEN "bookAuthor" ELSE "bookFid",
                               !.kind = "book", !.id = a, !.title = t, !.bfid = f, !.wish = w])
    /\ UNCHANGEDrows /\ UNCHANGED shared

AddToWishlist(p) ==
    /\ Request(p)
    /\ \E n \in Name, t \in Title, f \in ForeignId \cup {""} :
        Become(p, [Idle EXCEPT !.pc = "wishName", !.kind = "wish", !.name = n, !.title = t,
                               !.bfid = f, !.wish = TRUE])
    /\ UNCHANGEDrows /\ UNCHANGED shared

WishName(p) ==
    /\ proc[p].pc = "wishName"
    /\ \/ \E a \in Named(proc[p].name) :
            Become(p, [proc[p] EXCEPT !.pc = BookPc(p), !.id = a])
       \/ Named(proc[p].name) = {} /\ Goto(p, "byName")
    /\ UNCHANGEDrows /\ UNCHANGED shared /\ UNCHANGED requests

\* A known book is returned, or put on the wishlist.
FindBook(p) ==
    /\ proc[p].pc = "bookFid"
    /\ \/ \E b \in Books :
            /\ book[b].fid = proc[p].bfid
            /\ IF proc[p].wish THEN Become(p, [Idle EXCEPT !.pc = "wish", !.id = b])
               ELSE Return(p)
       \/ /\ \A b \in Books : book[b].fid # proc[p].bfid
          /\ Goto(p, "bookAuthor")
    /\ UNCHANGEDrows /\ UNCHANGED shared /\ UNCHANGED requests

CheckAuthor(p) ==
    /\ proc[p].pc = "bookAuthor"
    /\ IF proc[p].id \in Authors THEN Goto(p, "bookInsert") ELSE Return(p)
    /\ UNCHANGEDrows /\ UNCHANGED shared /\ UNCHANGED requests

\* Here an empty foreign id is stored as the empty string, UNIQUE like the
\* others. The INSERT fails too if the author has gone (FOREIGN KEY).
InsertBook(p) ==
    /\ proc[p].pc = "bookInsert"
    /\ Return(p)
    /\ IF proc[p].id \notin Authors \/ \E b \in Books : book[b].fid = proc[p].bfid
       THEN UNCHANGED book
       ELSE \E b \in BookId :
              /\ NewId({i \in BookId : book[i] = NoBook}, b)
              /\ book' = [book EXCEPT ![b] =
                    [st |-> "row", author |-> proc[p].id, title |-> proc[p].title,
                     fid |-> proc[p].bfid, wish |-> proc[p].wish]]
    /\ UNCHANGED <<author, file, requests>> /\ UNCHANGED shared

SetWish(p) ==
    /\ proc[p].pc \in {"wish", "unwish"}
    /\ book' = IF proc[p].id \in Books
               THEN [book EXCEPT ![proc[p].id].wish = (proc[p].pc = "wish")] ELSE book
    /\ Return(p)
    /\ UNCHANGED <<author, file, requests>> /\ UNCHANGED shared

\* A book without a file is deleted, whether or not it gets one before that.
RemoveFromWishlist(p) ==
    /\ Request(p)
    /\ \E b \in Books :
        Become(p, [Idle EXCEPT !.pc = IF file[b] = NoFile THEN "drop" ELSE "unwish", !.id = b])
    /\ UNCHANGEDrows /\ UNCHANGED shared

\* ON DELETE CASCADE: the row in book_files goes, the file stays.
DeleteBooks(bs) ==
    /\ book' = [b \in BookId |-> IF b \in bs THEN [NoBook EXCEPT !.st = "gone"] ELSE book[b]]
    /\ file' = [b \in BookId |-> IF b \in bs THEN NoFile ELSE file[b]]

DropBook(p) ==
    /\ proc[p].pc = "drop"
    /\ DeleteBooks({proc[p].id} \cap Books)
    /\ Return(p)
    /\ UNCHANGED <<author, requests, shared>>

-----------------------------------------------------------------------------
(* Changes and deletions. *)

\* No question is asked before a new name is stored.
UpdateAuthor(p) ==
    /\ Request(p)
    /\ \E a \in Authors, n \in Name, f \in ForeignId \cup {""} :
        \/ /\ author' = [author EXCEPT ![a].name = n]
           /\ shared' = shared \cup {n}
        \/ /\ \A o \in Authors \ {a} : author[o].fid # f
           /\ author' = [author EXCEPT ![a].fid = f]
           /\ UNCHANGED shared
    /\ UNCHANGED <<proc, book, file>>

UpdateBook(p) ==
    /\ Request(p)
    /\ \E b \in Books :
        \/ \E t \in Title : book' = [book EXCEPT ![b].title = t]
        \/ \E a \in Authors : book' = [book EXCEPT ![b].author = a]
    /\ UNCHANGED <<proc, author, file>> /\ UNCHANGED shared

DeleteRow(a) ==
    /\ author' = [author EXCEPT ![a] = [NoAuthor EXCEPT !.st = "gone"]]
    /\ DeleteBooks({b \in Books : book[b].author = a})

DeleteAuthor(p) ==
    /\ Request(p)
    /\ \E a \in Authors : DeleteRow(a)
    /\ UNCHANGED <<proc, shared>>

\* With deleteFiles the author's folder goes first (Naming's RemoveFolder).
PurgeAuthor(p) ==
    /\ proc[p].pc = "purge"
    /\ IF proc[p].id \in Authors THEN DeleteRow(proc[p].id) ELSE UNCHANGEDrows
    /\ Return(p)
    /\ UNCHANGED <<requests, shared>>

DeleteBook(p) ==
    /\ Request(p)
    /\ \E b \in Books : DeleteBooks({b})
    /\ UNCHANGED <<proc, author>> /\ UNCHANGED shared

CatRequest(p) ==
    \/ CreateAuthor(p) \/ UpdateAuthor(p) \/ DeleteAuthor(p)
    \/ CreateBook(p) \/ UpdateBook(p) \/ DeleteBook(p)
    \/ AddToWishlist(p) \/ RemoveFromWishlist(p)
CatStep(p) ==
    \/ FindByForeignID(p) \/ FindByName(p) \/ InsertAuthor(p) \/ FindAgain(p) \/ Reread(p)
    \/ WishName(p) \/ FindBook(p) \/ CheckAuthor(p) \/ InsertBook(p) \/ SetWish(p)
    \/ DropBook(p) \/ PurgeAuthor(p)

-----------------------------------------------------------------------------
(* Properties. *)

\* Find-or-create makes one author of a name, whether asked by foreign id, by
\* name or by the wishlist, though no column but foreign_id is UNIQUE. Two of
\* one name exist only where the answer "no such author" was given to two
\* requests before either had inserted, or where an author was renamed.
NoTwins ==
    \A a, b \in Authors : a # b =>
        /\ author[a].name = author[b].name => author[a].name \in shared
        /\ author[a].fid = author[b].fid => author[a].fid = "null"
================================================================================
