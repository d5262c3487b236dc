-------------------------------- MODULE Indexers --------------------------------
(***************************************************************************)
(* internal/search: the indexers table, the map of clients the service     *)
(* keeps beside it, and the search that asks all of them at once.          *)
(*                                                                         *)
(* A statement and the locked section that follows it are separate steps.  *)
(* A goroutine started for a client is an entry of fan[p].ask; the channel *)
(* it answers on has room for every answer, so answering is one step.      *)
(***************************************************************************)
EXTENDS Naturals, FiniteSets

CONSTANTS
    Proc,           \* requests being served
    IndexerId,      \* ids the table can give
    Answers,        \* sets of kinds of result a source may answer with
    \* Bounds: requests, changes to rows, restarts.
    MaxRequests, MaxChanges, MaxRestarts

VARIABLES
    indexer,    \* the indexers table: a row is absent, or has a type, a flag, a version
    clients,    \* Service.clients: the version each client was made from, or 0
    proc,       \* what each request is doing
    fan,        \* the goroutines each request has started
    \* History: the bounds; the ids two requests changed at once; what every
    \* source answered the request.
    requests, changes, restarts, raced, heard

table == <<indexer, changes, raced>>
idxVars == <<indexer, clients, proc, fan, requests, changes, restarts, raced, heard>>

-----------------------------------------------------------------------------
NoRow == [type |-> "none", enabled |-> FALSE, ver |-> 0]
Deleted == [NoRow EXCEPT !.ver = 1]     \* AUTOINCREMENT: no id is given twice
Rows == {i \in IndexerId : indexer[i] \notin {NoRow, Deleted}}

Idle == [pc |-> "idle", kind |-> "none", id |-> 0, cfg |-> NoRow,
         query |-> "title", out |-> {}, err |-> FALSE]
NoFan == [begun |-> TRUE, ask |-> {}, got |-> {}, failed |-> FALSE]

\* The bodies a request may have. Prowlarr's format names an implementation
\* and carries type, address and flag in other fields.
Body == [impl : {"none"}, type : {"newznab", "other", ""}, enabled : BOOLEAN]
        \cup [impl : {"Newznab", "Torznab"}, type : {""}, enabled : {FALSE}]

\* Only CreateIndexer understands Prowlarr's format; UpdateIndexer finds no
\* type in it and refuses.
Created(b) ==
    IF b.impl = "none" THEN b
    ELSE [b EXCEPT !.type = IF b.impl = "Newznab" THEN "newznab" ELSE "torznab",
                   !.enabled = TRUE]
Refused(b) == b.type = ""

\* newznab and torznab register a factory; any other type is stored all the same.
GetFactory(t) == t \in {"newznab", "torznab"}
Loadable(r) == r.enabled /\ GetFactory(r.type)

IdxInit ==
    /\ indexer \in [IndexerId -> {NoRow, [type |-> "newznab", enabled |-> TRUE, ver |-> 2]}]
    /\ clients = [i \in IndexerId |-> IF Loadable(indexer[i]) THEN indexer[i].ver ELSE 0]
    /\ proc = [p \in Proc |-> Idle]
    /\ fan = [p \in Proc |-> NoFan]
    /\ requests = 0 /\ changes = 0 /\ restarts = 0
    /\ raced = {}
    /\ heard = [p \in Proc |-> {}]

Become(p, r) == proc' = [proc EXCEPT ![p] = r]
Goto(p, pc) == proc' = [proc EXCEPT ![p].pc = pc]
Return(p) == Become(p, Idle)

Request(p) ==
    /\ proc[p] = Idle
    /\ requests < MaxRequests
    /\ requests' = requests + 1

-----------------------------------------------------------------------------
(* Changes to the table, and to the map after them. *)

Changing(i) == {p \in Proc : proc[p].kind \in {"change", "delete"} /\ proc[p].id = i}

\* Commit a row's new value in the name of request p.
WriteRow(p, i, row) ==
    /\ changes < MaxChanges
    /\ changes' = changes + 1
    /\ indexer' = [indexer EXCEPT ![i] = row]
    /\ raced' = IF Changing(i) = {} THEN raced ELSE raced \cup {i}

RowOf(b) == [type |-> b.type, enabled |-> b.enabled, ver |-> changes + 3]

CreateIndexer(p) ==
    /\ Request(p)
    /\ \E body \in Body : LET b == Created(body) IN
        /\ ~Refused(b)
        /\ \E i \in IndexerId :
            /\ indexer[i] = NoRow /\ \A j \in 1 .. (i - 1) : indexer[j] # NoRow
            /\ WriteRow(p, i, RowOf(b))
            /\ Become(p, IF ~b.enabled THEN Idle
                         ELSE [Idle EXCEPT !.pc = "load", !.kind = "change", !.id = i,
                                           !.cfg = RowOf(b)])
    /\ UNCHANGED <<clients, fan, restarts, heard>>

\* Mutant: the new client takes the place of the old one without a drop.
UpdateIndexer_noDrop(p) ==
    /\ Request(p)
    /\ \E b \in Body, i \in Rows :
        /\ ~Refused(b)
        /\ WriteRow(p, i, RowOf(b))
        /\ Become(p, [Idle EXCEPT !.pc = IF b.enabled THEN "load" ELSE "drop",
                                  !.kind = "change", !.id = i, !.cfg = RowOf(b)])
    /\ UNCHANGED <<clients, fan, restarts, heard>>

UpdateIndexer(p) ==
    /\ Request(p)
    /\ \E b \in Body, i \in Rows :
        /\ ~Refused(b)
        /\ WriteRow(p, i, RowOf(b))
        /\ Become(p, [Idle EXCEPT !.pc = "drop", !.kind = "change", !.id = i,
                                  !.cfg = RowOf(b)])
    /\ UNCHANGED <<clients, fan, restarts, heard>>

DeleteIndexer(p) ==
    /\ Request(p)
    /\ \E i \in Rows :
        /\ WriteRow(p, i, Deleted)
        /\ Become(p, [Idle EXCEPT !.pc = "drop", !.kind = "delete", !.id = i])
    /\ UNCHANGED <<clients, fan, restarts, heard>>

\* delete(s.clients, id), under the lock.
Drop(p) ==
    /\ proc[p].pc = "drop"
    /\ clients' = [clients EXCEPT ![proc[p].id] = 0]
    /\ IF proc[p].kind = "change" /\ proc[p].cfg.enabled THEN Goto(p, "load") ELSE Return(p)
    /\ UNCHANGED <<table, fan, requests, restarts, heard>>

\* Both factories that are registered always give a client.
loadClient(p) ==
    /\ proc[p].pc = "load"
    /\ clients' = IF GetFactory(proc[p].cfg.type)
                  THEN [clients EXCEPT ![proc[p].id] = proc[p].cfg.ver] ELSE clients
    /\ Return(p)
    /\ UNCHANGED <<table, fan, requests, restarts, heard>>

-----------------------------------------------------------------------------
(* Searching the indexers. *)

Client(i, v) == [id |-> i, ver |-> v]
Clients == {Client(i, clients[i]) : i \in {j \in IndexerId : clients[j] # 0}}

\* GET /search: the clients are copied under the read lock and a goroutine
\* starts for each.
SearchBegin(p) ==
    /\ Request(p)
    /\ Become(p, [Idle EXCEPT !.pc = "ask", !.kind = "search"])
    /\ fan' = [fan EXCEPT ![p] = [NoFan EXCEPT !.ask = Clients]]
    /\ UNCHANGED <<heard, table, clients, restarts>>

\* The same, in the goroutine a search for a book runs it in.
Snapshot(p) ==
    /\ ~fan[p].begun
    /\ fan' = [fan EXCEPT ![p].begun = TRUE, ![p].ask = @ \cup Clients]
    /\ UNCHANGED <<table, clients, proc, requests, restarts, heard>>

\* A source answers with results of some kinds.
Reply(p, s) ==
    /\ \E kinds \in Answers :
        LET res == {[from |-> s, kind |-> k] : k \in kinds} IN
        /\ fan' = [fan EXCEPT ![p].ask = @ \ {s}, ![p].got = @ \cup res]
        /\ heard' = [heard EXCEPT ![p] = @ \cup res]
    /\ UNCHANGED <<table, clients, proc, requests, restarts>>

\* It refuses, is not understood, or does not answer within the timeout.
ReplyFails(p, s) ==
    /\ fan' = [fan EXCEPT ![p].ask = @ \ {s}, ![p].failed = TRUE]
    /\ UNCHANGED <<table, clients, proc, requests, restarts, heard>>

Collected(p) == proc[p].pc = "ask" /\ fan[p].begun /\ fan[p].ask = {}

\* Mutant: one failure makes the search fail.
SearchDone_anyError(p) ==
    /\ Collected(p) /\ proc[p].kind = "search"
    /\ Become(p, [proc[p] EXCEPT !.pc = "done", !.err = fan[p].failed,
                    !.out = IF fan[p].failed THEN {} ELSE fan[p].got])
    /\ fan' = [fan EXCEPT ![p] = NoFan]
    /\ UNCHANGED <<table, clients, requests, restarts, heard>>

SearchDone(p) ==
    /\ Collected(p) /\ proc[p].kind = "search"
    /\ Become(p, [proc[p] EXCEPT !.pc = "done", !.out = fan[p].got,
                    !.err = (fan[p].got = {} /\ fan[p].failed)])
    /\ fan' = [fan EXCEPT ![p] = NoFan]
    /\ UNCHANGED <<table, clients, requests, restarts, heard>>

\* The response is on its way.
Respond(p) ==
    /\ proc[p].pc = "done"
    /\ Return(p)
    /\ heard' = [heard EXCEPT ![p] = {}]
    /\ UNCHANGED <<table, clients, fan, requests, restarts>>

FanStep(p) ==
    \/ Snapshot(p)
    \/ \E s \in fan[p].ask : Reply(p, s) \/ ReplyFails(p, s)

IdxRequest(p) == CreateIndexer(p) \/ UpdateIndexer(p) \/ DeleteIndexer(p) \/ SearchBegin(p)
IdxStep(p) == Drop(p) \/ loadClient(p) \/ FanStep(p) \/ SearchDone(p) \/ Respond(p)

\* The process is killed and started again: the map is loaded from the table
\* before a request is served.
LoadIndexers ==
    clients' = [i \in IndexerId |-> IF Loadable(indexer[i]) THEN indexer[i].ver ELSE 0]

Restart ==
    /\ restarts < MaxRestarts
    /\ restarts' = restarts + 1
    /\ LoadIndexers
    /\ proc' = [p \in Proc |-> Idle]
    /\ fan' = [p \in Proc |-> NoFan]
    /\ heard' = [p \in Proc |-> {}]
    /\ raced' = {}
    /\ UNCHANGED <<indexer, requests, changes>>

-----------------------------------------------------------------------------
(* Properties. *)

\* The map the searches use follows the table. With no change of an indexer
\* under way its client is the one made from the stored row, and a row deleted,
\* disabled or of an unknown type has none: what the user saved is what is
\* searched. Two requests that change one indexer at the same time may leave
\* the map with the loser, or with a deleted indexer, until the next change or
\* restart; only they may.
ClientsFollowRows ==
    \A i \in IndexerId \ raced :
        Changing(i) = {} =>
            clients[i] = IF Loadable(indexer[i]) THEN indexer[i].ver ELSE 0
================================================================================
