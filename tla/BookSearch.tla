------------------------------- MODULE BookSearch -------------------------------
(***************************************************************************)
(* Everything that asks several outside sources and merges what they say:  *)
(* the search for a book (internal/wanted: the digital libraries and the   *)
(* indexers side by side, by ISBN and then by title), the libraries alone  *)
(* (internal/library) and the metadata providers one after the other       *)
(* (internal/metadata). Order, scores and sizes of results are left out.   *)
(***************************************************************************)
EXTENDS Indexers

CONSTANTS
    Library,        \* providers of the library aggregator
    MetaProviders,  \* how many metadata providers there are, tried from 1 on
    Key,            \* what metadata results are deduplicated by
    MaxFaults       \* bound: statements that fail

ASSUME ProvidersAssumption == MetaProviders \in Nat

VARIABLES
    saved,      \* search_results of the book: rows, each of one search
    todo,       \* the results each request has still to insert
    walk,       \* where each metadata request is in the list of providers
    \* History: the search whose results were last begun to be saved; whether
    \* a failed statement, a restart or a second search disturbed the saving.
    last, torn, faults

bookVars == <<saved, todo, last, torn, faults>>
vars == <<idxVars, bookVars, walk>>

-----------------------------------------------------------------------------
Still == [next |-> 1, named |-> 0, any |-> FALSE, failed |-> FALSE]

Init ==
    /\ IdxInit
    /\ saved = {} /\ last = {} /\ torn = FALSE /\ faults = 0
    /\ todo = [p \in Proc |-> {}]
    /\ walk = [p \in Proc |-> Still]

\* library.Aggregator.Search starts a goroutine for every provider.
AskLibraries == {[id |-> l, ver |-> 0] : l \in Library}

LibraryBegin(p) ==
    /\ Request(p)
    /\ Become(p, [Idle EXCEPT !.pc = "ask", !.kind = "library"])
    /\ fan' = [fan EXCEPT ![p] = [NoFan EXCEPT !.ask = AskLibraries]]
    /\ UNCHANGED <<heard, table, clients, restarts, bookVars, walk>>

\* A provider that failed is skipped, even when none is left.
LibraryDone(p) ==
    /\ Collected(p) /\ proc[p].kind = "library"
    /\ Become(p, [proc[p] EXCEPT !.pc = "done", !.out = fan[p].got])
    /\ fan' = [fan EXCEPT ![p] = NoFan]
    /\ UNCHANGED <<heard, requests, table, clients, restarts, bookVars, walk>>

-----------------------------------------------------------------------------
(* wanted.Service.Search. *)

\* searchAllSources: the libraries and the indexers at once.
searchAllSources(p) ==
    fan' = [fan EXCEPT ![p] = [NoFan EXCEPT !.begun = FALSE, !.ask = AskLibraries]]

\* isValidLibraryResult, isEbookFormat.
Ebooks(res) == {r \in res : r.kind = "ebook"}

BookBegin(p) ==
    /\ Request(p)
    /\ \E q \in {"isbn", "title"} :
        Become(p, [Idle EXCEPT !.pc = "ask", !.kind = "book", !.id = requests', !.query = q])
    /\ searchAllSources(p)
    /\ UNCHANGED <<heard, table, clients, restarts, bookVars, walk>>

\* A book with an ISBN that brought nothing is searched again by title.
BookAgain(p) ==
    /\ Collected(p) /\ proc[p].kind = "book" /\ proc[p].query = "isbn"
    /\ Ebooks(fan[p].got) = {}
    /\ Become(p, [proc[p] EXCEPT !.query = "title"])
    /\ searchAllSources(p)
    /\ heard' = [heard EXCEPT ![p] = Ebooks(@)]
    /\ UNCHANGED <<requests, table, clients, restarts, bookVars, walk>>

BookNothing(p) ==
    /\ Collected(p) /\ proc[p].kind = "book" /\ proc[p].query = "title"
    /\ Ebooks(fan[p].got) = {}
    /\ Goto(p, "done")
    /\ fan' = [fan EXCEPT ![p] = NoFan]
    /\ UNCHANGED <<heard, requests, table, clients, restarts, bookVars, walk>>

Saving == {p \in Proc : todo[p] # {}}
Row(p, r) == [search |-> proc[p].id, res |-> r]

Fails == faults < MaxFaults /\ faults' = faults + 1

\* Mutant: the rows of the earlier search are not deleted.
BookFound_keeps(p) ==
    /\ Collected(p) /\ proc[p].kind = "book"
    /\ Ebooks(fan[p].got) # {}
    /\ Become(p, [proc[p] EXCEPT !.pc = "save", !.out = Ebooks(fan[p].got)])
    /\ fan' = [fan EXCEPT ![p] = NoFan]
    /\ todo' = [todo EXCEPT ![p] = Ebooks(fan[p].got)]
    /\ last' = {Row(p, r) : r \in todo'[p]}
    /\ torn' = (Saving # {})
    /\ UNCHANGED <<saved, faults, heard, requests, table, clients, restarts, walk>>

\* Otherwise DELETE the book's results; a failure is logged. The inserts
\* follow, one statement each.
BookFound(p) ==
    /\ Collected(p) /\ proc[p].kind = "book"
    /\ Ebooks(fan[p].got) # {}
    /\ Become(p, [proc[p] EXCEPT !.pc = "save", !.out = Ebooks(fan[p].got)])
    /\ fan' = [fan EXCEPT ![p] = NoFan]
    /\ todo' = [todo EXCEPT ![p] = Ebooks(fan[p].got)]
    /\ last' = {Row(p, r) : r \in todo'[p]}
    /\ \/ saved' = {} /\ torn' = (Saving # {}) /\ UNCHANGED faults
       \/ Fails /\ torn' = TRUE /\ UNCHANGED saved
    /\ UNCHANGED <<heard, requests, table, clients, restarts, walk>>

Inserted(p, rest) ==
    /\ todo' = [todo EXCEPT ![p] = rest]
    /\ IF rest = {} THEN Goto(p, "done") ELSE UNCHANGED proc
    /\ UNCHANGED <<fan, heard, requests, table, clients, restarts, last, walk>>

SaveOne(p) ==
    /\ proc[p].pc = "save"
    /\ \E r \in todo[p] :
        /\ saved' = saved \cup {Row(p, r)}
        /\ Inserted(p, todo[p] \ {r})
    /\ UNCHANGED <<torn, faults>>

\* An insert fails: saveSearchResults stops, the response is sent all the same.
SaveFails(p) ==
    /\ proc[p].pc = "save"
    /\ Fails
    /\ torn' = TRUE
    /\ Inserted(p, {})
    /\ UNCHANGED saved

-----------------------------------------------------------------------------
(* metadata.Aggregator: SearchAuthors and SearchBooks ask every provider,    *)
(* GetAuthor, GetBook and GetBookByISBN the named one or each in turn.       *)

MetaBegin(p) ==
    /\ Request(p)
    /\ \E k \in {"merge", "fetch"}, n \in 0 .. MetaProviders :
        /\ k = "merge" => n = 0
        /\ Become(p, [Idle EXCEPT !.pc = "walk", !.kind = k])
        /\ walk' = [walk EXCEPT ![p] = [Still EXCEPT !.named = n,
                                                     !.next = IF n = 0 THEN 1 ELSE n]]
    /\ UNCHANGED <<heard, fan, table, clients, restarts, bookVars>>

LastAsked(p) == IF walk[p].named = 0 THEN MetaProviders ELSE walk[p].named
Walking(p) == proc[p].pc = "walk" /\ walk[p].next <= LastAsked(p)

Seen(p) == {r.kind : r \in proc[p].out}

\* A provider answers a search: what has a key seen before is dropped.
MergeReply(p) ==
    /\ Walking(p) /\ proc[p].kind = "merge"
    /\ \E keys \in SUBSET Key :
        LET res(ks) == {[from |-> walk[p].next, kind |-> k] : k \in ks} IN
        /\ Become(p, [proc[p] EXCEPT !.out = @ \cup res(keys \ Seen(p))])
        /\ heard' = [heard EXCEPT ![p] = @ \cup res(keys)]
    /\ walk' = [walk EXCEPT ![p].next = @ + 1, ![p].any = TRUE]
    /\ UNCHANGED <<fan, requests, table, clients, restarts, bookVars>>

\* The first provider that has the item answers for all.
FetchReply(p) ==
    /\ Walking(p) /\ proc[p].kind = "fetch"
    /\ \E k \in Key : LET r == [from |-> walk[p].next, kind |-> k] IN
        /\ Become(p, [proc[p] EXCEPT !.pc = "done", !.out = {r}])
        /\ heard' = [heard EXCEPT ![p] = {r}]
    /\ walk' = [walk EXCEPT ![p] = Still]
    /\ UNCHANGED <<fan, requests, table, clients, restarts, bookVars>>

MetaFails(p) ==
    /\ Walking(p)
    /\ walk' = [walk EXCEPT ![p].next = @ + 1, ![p].failed = TRUE]
    /\ UNCHANGED <<proc, heard, fan, requests, table, clients, restarts, bookVars>>

MetaDone(p) ==
    /\ proc[p].pc = "walk" /\ ~Walking(p)
    /\ Become(p, [proc[p] EXCEPT !.pc = "done",
                    !.err = (~walk[p].any /\ walk[p].failed)])
    /\ walk' = [walk EXCEPT ![p] = Still]
    /\ UNCHANGED <<heard, fan, requests, table, clients, restarts, bookVars>>

-----------------------------------------------------------------------------
BookRequest(p) ==
    \/ IdxRequest(p) /\ UNCHANGED <<bookVars, walk>>
    \/ LibraryBegin(p) \/ BookBegin(p) \/ MetaBegin(p)

Step(p) ==
    \/ IdxStep(p) /\ UNCHANGED <<bookVars, walk>>
    \/ LibraryDone(p)
    \/ BookAgain(p) \/ BookNothing(p) \/ BookFound(p)
    \/ SaveOne(p) \/ SaveFails(p)
    \/ MergeReply(p) \/ FetchReply(p) \/ MetaFails(p) \/ MetaDone(p)

RestartAll ==
    /\ Restart
    /\ todo' = [p \in Proc |-> {}]
    /\ walk' = [p \in Proc |-> Still]
    /\ torn' = (torn \/ Saving # {})
    /\ UNCHANGED <<saved, last, faults>>

Next == \E p \in Proc : BookRequest(p) \/ Step(p)
        \/ RestartAll

Spec == Init /\ [][Next]_vars

-----------------------------------------------------------------------------
(* Properties. *)

TypeOK ==
    /\ indexer \in [IndexerId -> [type : STRING, enabled : BOOLEAN, ver : Nat]]
    /\ clients \in [IndexerId -> Nat]
    /\ \A p \in Proc : /\ proc[p].pc \in {"idle", "load", "drop", "ask", "save", "walk", "done"}
                       /\ todo[p] \subseteq proc[p].out
                       /\ fan[p].got \subseteq heard[p]

\* Partial failure hides nothing. What a finished request returns is everything
\* the sources that answered it had to say, whichever of the others failed and
\* in whatever order they came: of a book the ebooks found under either query,
\* of metadata one result for each key and that of the earliest provider. It is
\* an error only if nobody answered anything.
NothingHidden ==
    \A p \in Proc : proc[p].pc = "done" =>
        /\ proc[p].kind \in {"search", "library"} => proc[p].out = heard[p]
        /\ proc[p].kind = "book" => proc[p].out = Ebooks(heard[p])
        /\ proc[p].kind \in {"merge", "fetch"} =>
            proc[p].out = {r \in heard[p] : \A o \in heard[p] : o.kind = r.kind =>
                                                                  r.from <= o.from}
        /\ proc[p].err => heard[p] = {}

\* The results kept for a book are those of one search, all of them, unless a
\* statement failed, the process was killed while they were written or a second
\* search of the book wrote at the same time (then the rows of two searches mix).
SavedIsOneSearch == ~torn /\ Saving = {} => saved = last
================================================================================
