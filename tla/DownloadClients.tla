---------------------------- MODULE DownloadClients ----------------------------
(***************************************************************************)
(* internal/download: the download_clients table, the cache of client      *)
(* instances and the embedded downloader. Requests and commands are        *)
(* processes that share the one database connection (SetMaxOpenConns(1))   *)
(* and the service's RWMutex. A read-locked map lookup is one step; a      *)
(* write-locked section with work in it is entered in one step and left in *)
(* another.                                                                *)
(***************************************************************************)
EXTENDS ExternalClients

CONSTANTS
    ClientId,       \* rows of download_clients
    RowType,        \* the types of client the user configures
    Root,           \* ids of the root folders
    \* Bounds: requests made, changes to rows.
    MaxRequests, MaxChanges

VARIABLES
    client,     \* download_clients: a row is absent or has a type and a version
    conn,       \* who holds the database connection
    mu,         \* who holds the service's mutex for writing
    cache,      \* Service.clients: the instance for each row, or 0
    embedded,   \* Service.embeddedClient: an instance, or 0
    made,       \* what each instance was made from, in order
    proc,       \* what each process is doing
    \* History: the bounds; how often each row's instance was dropped.
    requests, changes, dropped

service == <<conn, mu, cache, embedded, made>>
history == <<requests, changes, dropped>>
vars == <<client, service, proc, history, extVars>>

-----------------------------------------------------------------------------
ASSUME ClientAssumption ==
    /\ 0 \notin ClientId       \* stands for the embedded client
    /\ "none" \notin RowType
    /\ Root = {} \/ \E r \in Root : \A q \in Root : r <= q
    /\ MaxChanges \in Nat

NoRow == [type |-> "none", enabled |-> FALSE, ver |-> 0]
Deleted == [NoRow EXCEPT !.ver = 1]     \* AUTOINCREMENT: no id is given twice
Rows == {c \in ClientId : client[c] \notin {NoRow, Deleted}}
Idle == [pc |-> "idle", kind |-> "none", id |-> 0, cfg |-> NoRow, todo |-> {},
         inst |-> 0, dir |-> 0]

\* Kinds of request that read a configuration and let go of the connection
\* before they look for the client.
Readers == {"queue", "clientQueue"}

\* The init functions register a factory for each of these: "nzbget", which
\* the UI offers too, has none.
Factories == Types

Init ==
    /\ ExtInit
    /\ client \in [ClientId -> {NoRow} \cup {[type |-> t, enabled |-> TRUE, ver |-> 0] :
                                                  t \in RowType}]
    /\ conn = Nobody /\ mu = Nobody
    /\ cache = [c \in ClientId |-> 0]
    /\ embedded = 0
    /\ made = <<>>
    /\ proc = [p \in Proc |-> Idle]
    /\ requests = 0 /\ changes = 0
    /\ dropped = [c \in ClientId |-> 0]

Become(p, r) == proc' = [proc EXCEPT ![p] = r]
Goto(p, pc) == proc' = [proc EXCEPT ![p].pc = pc]
Return(p) == Become(p, Idle)

\* A new request or command.
Request(p) ==
    /\ proc[p] = Idle
    /\ call[p].pc = "idle"
    /\ requests < MaxRequests
    /\ requests' = requests + 1
    /\ UNCHANGED <<changes, dropped>>

-----------------------------------------------------------------------------
(* Rows. The handler refuses an empty name or type on create only. *)

Change ==
    /\ changes < MaxChanges
    /\ changes' = changes + 1
    /\ UNCHANGED requests

CreateClient(c) ==
    /\ conn = Nobody
    /\ client[c] = NoRow
    /\ Change
    /\ \E t \in RowType :
         client' = [client EXCEPT ![c] = [type |-> t, enabled |-> TRUE, ver |-> changes']]
    /\ UNCHANGED <<service, proc, dropped, extVars>>

\* The UPDATE; ErrNotFound without a row. (The type could be changed too.)
UpdateClient(p, c) ==
    /\ proc[p] = Idle
    /\ conn = Nobody
    /\ c \in Rows
    /\ Change
    /\ \E e \in BOOLEAN :
         client' = [client EXCEPT ![c].enabled = e, ![c].ver = changes']
    /\ Become(p, [Idle EXCEPT !.pc = "invalidate", !.kind = "update", !.id = c])
    /\ UNCHANGED <<service, dropped, extVars>>

\* The DELETE; ErrNotFound without a row.
DeleteClient(p, c) ==
    /\ proc[p] = Idle
    /\ conn = Nobody
    /\ c \in Rows
    /\ Change
    /\ client' = [client EXCEPT ![c] = Deleted]
    /\ Become(p, [Idle EXCEPT !.pc = "invalidate", !.kind = "delete", !.id = c])
    /\ UNCHANGED <<service, dropped, extVars>>

\* "Invalidate cached client": with it go the downloads of a direct client.
Invalidate(p) ==
    /\ proc[p].pc = "invalidate"
    /\ mu = Nobody
    /\ cache' = [cache EXCEPT ![proc[p].id] = 0]
    /\ dropped' = [dropped EXCEPT ![proc[p].id] = @ + 1]
    /\ Return(p)
    /\ UNCHANGED <<client, conn, mu, embedded, made, requests, changes, extVars>>

-----------------------------------------------------------------------------
(* Requests that need a client. *)

\* GetQueue: ListClients reads the rows and closes them.
GetQueue(p) ==
    /\ Request(p)
    /\ conn = Nobody
    /\ Become(p, [Idle EXCEPT !.pc = "next", !.kind = "queue",
                              !.todo = {c \in Rows : client[c].enabled} \X {client}])
    /\ UNCHANGED <<client, service, extVars>>

\* The loop of GetQueue over the rows it has read.
NextClient(p) ==
    /\ proc[p].pc = "next"
    /\ \/ /\ proc[p].todo = {}
          /\ Return(p)
       \/ \E x \in proc[p].todo :
            Become(p, [proc[p] EXCEPT !.pc = "resolve", !.id = x[1], !.cfg = x[2][x[1]],
                                      !.todo = @ \ {x}])
    /\ UNCHANGED <<client, service, history, extVars>>

\* GetClientQueue: GetClient, or ErrNotFound.
GetClientQueue(p, c) ==
    /\ Request(p)
    /\ conn = Nobody
    /\ c \in Rows
    /\ Become(p, [Idle EXCEPT !.pc = "resolve", !.kind = "clientQueue", !.id = c,
                              !.cfg = client[c]])
    /\ UNCHANGED <<client, service, extVars>>

Wanted(kind) == CASE kind = "torrent" -> {"qbittorrent", "transmission"}
                  [] kind = "usenet"  -> {"sabnzbd"}
                  [] OTHER            -> {"direct"}

\* Mutant: the rows are closed before the client is looked for.
ByTypes_closes(p, kind) ==
    LET found == {c \in Rows : client[c].enabled /\ client[c].type \in Wanted(kind)} IN
    /\ Request(p)
    /\ conn = Nobody
    /\ \/ /\ found = {}
          /\ IF kind = "direct"
             THEN Become(p, [Idle EXCEPT !.pc = "embedFast", !.kind = kind])
             ELSE UNCHANGED proc
       \/ \E c \in found : Become(p, [Idle EXCEPT !.pc = "resolve", !.kind = kind,
                                                  !.id = c, !.cfg = client[c]])
    /\ UNCHANGED <<client, service, extVars>>

\* getClientByTypes: a row found stays open, and with it the connection taken,
\* until the client is there. Priorities are whatever the user has set: any
\* row may be the first. Without a direct client, the embedded one is used.
ByTypes(p, kind) ==
    LET found == {c \in Rows : client[c].enabled /\ client[c].type \in Wanted(kind)} IN
    /\ Request(p)
    /\ conn = Nobody
    /\ \/ /\ found = {}
          /\ IF kind = "direct"
             THEN Become(p, [Idle EXCEPT !.pc = "embedFast", !.kind = kind])
             ELSE UNCHANGED proc
          /\ UNCHANGED conn
       \/ /\ \E c \in found : Become(p, [Idle EXCEPT !.pc = "resolve", !.kind = kind,
                                                     !.id = c, !.cfg = client[c]])
          /\ conn' = p
    /\ UNCHANGED <<client, mu, cache, embedded, made, extVars>>

-----------------------------------------------------------------------------
(* getOrCreateClient *)

FreeConn(p) == conn' = IF conn = p THEN Nobody ELSE conn

\* What the request does with the client it has got, in place or not.
Resolved(p, n, type) ==
    /\ FreeConn(p)
    /\ Become(p, [proc[p] EXCEPT !.pc = "use", !.inst = n, !.cfg.type = type])

\* No client of such a type: GetQueue goes on with the next row, the others
\* return the error.
Unresolved(p) ==
    /\ FreeConn(p)
    /\ IF proc[p].kind = "queue" THEN Goto(p, "next") ELSE Return(p)

\* The lookup under RLock.
Resolve(p) ==
    /\ proc[p].pc = "resolve"
    /\ mu = Nobody
    /\ LET n == cache[proc[p].id] IN
         IF n # 0 THEN Resolved(p, n, made[n].cfg.type)
         ELSE Goto(p, "lock") /\ UNCHANGED conn
    /\ UNCHANGED <<client, mu, cache, embedded, made, history, extVars>>

Lock(p) ==
    /\ proc[p].pc = "lock"
    /\ mu = Nobody
    /\ mu' = p
    /\ Goto(p, "create")
    /\ UNCHANGED <<client, conn, cache, embedded, made, history, extVars>>

\* Instance is large enough for every request and change (a bound).
NewClient(id, cfg, kind, dir) ==
    /\ Len(made) + 1 \in Instance
    /\ made' = Append(made, [id |-> id, cfg |-> cfg, by |-> kind, dir |-> dir])

\* Mutant: no second look.
Create_noDoubleCheck(p) ==
    /\ proc[p].pc = "create"
    /\ mu' = Nobody
    /\ LET r == proc[p] IN
       \/ /\ r.cfg.type \notin Factories
          /\ Unresolved(p)
          /\ UNCHANGED <<cache, made>>
       \/ /\ r.cfg.type \in Factories
          /\ NewClient(r.id, r.cfg, r.kind, 0)
          /\ cache' = [cache EXCEPT ![r.id] = Len(made')]
          /\ Resolved(p, Len(made'), r.cfg.type)
    /\ UNCHANGED <<client, embedded, history, extVars>>

\* "Double-check", NewClient, and into the map; the lock is given back.
Create(p) ==
    /\ proc[p].pc = "create"
    /\ mu' = Nobody
    /\ LET r == proc[p]
           n == cache[r.id] IN
       \/ /\ n # 0
          /\ Resolved(p, n, made[n].cfg.type)
          /\ UNCHANGED <<cache, made>>
       \/ /\ n = 0
          /\ r.cfg.type \notin Factories
          /\ Unresolved(p)
          /\ UNCHANGED <<cache, made>>
       \/ /\ n = 0
          /\ r.cfg.type \in Factories
          /\ NewClient(r.id, r.cfg, r.kind, 0)
          /\ cache' = [cache EXCEPT ![r.id] = Len(made')]
          /\ Resolved(p, Len(made'), r.cfg.type)
    /\ UNCHANGED <<client, embedded, history, extVars>>

-----------------------------------------------------------------------------
(* getEmbeddedDirectClient *)

DirectCfg == [type |-> "direct", enabled |-> TRUE, ver |-> 0]
Embedded(p, n) == Become(p, [proc[p] EXCEPT !.pc = "use", !.inst = n, !.cfg = DirectCfg])

\* Mutant: the lock is taken before the query.
EmbedFast_locks(p) ==
    /\ proc[p].pc = "embedFast"
    /\ mu = Nobody
    /\ IF embedded # 0 THEN Embedded(p, embedded) /\ UNCHANGED mu
       ELSE Goto(p, "embedRoot") /\ mu' = p
    /\ UNCHANGED <<client, conn, cache, embedded, made, history, extVars>>

\* The fast path, under RLock.
EmbedFast(p) ==
    /\ proc[p].pc = "embedFast"
    /\ mu = Nobody
    /\ IF embedded # 0 THEN Embedded(p, embedded) ELSE Goto(p, "embedRoot")
    /\ UNCHANGED <<client, service, history, extVars>>

\* "Get the first root folder BEFORE acquiring write lock".
EmbedRoot(p) ==
    /\ proc[p].pc = "embedRoot"
    /\ conn = Nobody
    /\ IF Root = {} THEN Return(p)
       ELSE Become(p, [proc[p] EXCEPT !.pc = "embedLock",
                           !.dir = CHOOSE r \in Root : \A q \in Root : r <= q])
    /\ UNCHANGED <<client, service, history, extVars>>

EmbedLock(p) ==
    /\ proc[p].pc = "embedLock"
    /\ mu \in {Nobody, p}
    /\ mu' = p
    /\ Goto(p, "embedCreate")
    /\ UNCHANGED <<client, conn, cache, embedded, made, history, extVars>>

\* "another goroutine may have created it while we were querying".
EmbedCreate(p) ==
    /\ proc[p].pc = "embedCreate"
    /\ mu' = Nobody
    /\ IF embedded # 0
       THEN Embedded(p, embedded) /\ UNCHANGED <<embedded, made>>
       ELSE /\ NewClient(0, DirectCfg, "direct", proc[p].dir)
            /\ embedded' = Len(made')
            /\ Embedded(p, embedded')
    /\ UNCHANGED <<client, conn, cache, history, extVars>>

-----------------------------------------------------------------------------
(* The client is used. *)

\* grabFromIndexer adds a release, the queues are asked for; the
\* caller of GetDirectClient goes on by itself (DownloadQueue).
Use(p) ==
    /\ proc[p].pc = "use"
    /\ \/ /\ proc[p].kind = "direct"
          /\ Return(p)
          /\ UNCHANGED extVars
       \/ /\ proc[p].kind \in {"queue", "clientQueue"}
          /\ StartCall(p, proc[p].cfg.type, "queue", proc[p].inst, 0)
          /\ Goto(p, "called")
       \/ /\ proc[p].kind \in {"torrent", "usenet"}
          /\ \E r \in Release : StartCall(p, proc[p].cfg.type, "add", proc[p].inst, r)
          /\ Goto(p, "called")
    /\ UNCHANGED <<client, service, history>>

\* The call is back. An error ends GetClientQueue and the grab, GetQueue goes
\* on with what the others have.
CallReturns(p) ==
    /\ proc[p].pc = "called"
    /\ call[p].pc = "done"
    /\ call' = [call EXCEPT ![p] = NoCall]
    /\ \/ proc[p].kind = "queue" /\ Goto(p, "next")
       \/ proc[p].kind \in {"clientQueue", "torrent", "usenet"} /\ Return(p)
    /\ UNCHANGED <<client, service, history, session, programs, extHistory>>

-----------------------------------------------------------------------------
Begin(p) ==
    \/ GetQueue(p)
    \/ \E c \in ClientId : GetClientQueue(p, c) \/ UpdateClient(p, c) \/ DeleteClient(p, c)
    \/ \E k \in {"torrent", "usenet", "direct"} : ByTypes(p, k)

Step(p) ==
    \/ Invalidate(p) \/ NextClient(p)
    \/ Resolve(p) \/ Lock(p) \/ Create(p)
    \/ EmbedFast(p) \/ EmbedRoot(p) \/ EmbedLock(p) \/ EmbedCreate(p)
    \/ Use(p) \/ CallReturns(p)
    \/ CallStep(p) /\ UNCHANGED <<client, service, proc, history>>

Next ==
    \/ \E p \in Proc : Begin(p) \/ Step(p)
    \/ \E c \in ClientId : CreateClient(c)
    \/ ProgramStep /\ UNCHANGED <<client, service, proc, history>>

Spec == Init /\ [][Next]_vars

-----------------------------------------------------------------------------
TypeOK ==
    /\ ExtTypeOK
    /\ \A c \in ClientId : client[c] \in {NoRow, Deleted} \/ client[c].type \in RowType
    /\ conn \in Proc \cup {Nobody}
    /\ mu \in Proc \cup {Nobody}
    /\ cache \in [ClientId -> Instance \cup {0}]
    /\ embedded \in Instance \cup {0}
    /\ Len(made) \in 0..Cardinality(Instance)

WaitsForMutex == {p \in Proc : proc[p].pc \in {"invalidate", "resolve", "lock",
                                                "embedFast", "embedLock"}}
WaitsForConn == {p \in Proc : proc[p].pc = "embedRoot"}

\* The two locks are always taken in the same order: whoever holds the mutex
\* waits for neither, and whoever holds the connection may wait for the mutex
\* only. So no two processes can wait for each other, although
\* getClientByTypes waits for the mutex with the only connection in its hands.
LockOrder ==
    /\ mu \notin WaitsForMutex \cup WaitsForConn
    /\ conn \notin WaitsForConn
    /\ \A p \in Proc : proc[p] = Idle => conn # p /\ mu # p

MadeFor(c) == {n \in 1..Len(made) : made[n].id = c}

\* A row has one client at a time: a second is made only after the first was
\* dropped by an update or a deletion, and there is one embedded downloader.
\* A direct client's downloads are in its instance, so two would lose them.
OneClientPerRow ==
    /\ \A c \in ClientId : Cardinality(MadeFor(c)) <= 1 + dropped[c]
    /\ Cardinality(MadeFor(0)) <= 1

Invalidating(c) == \E p \in Proc : proc[p].pc = "invalidate" /\ proc[p].id = c

\* When no change is half way, a cached client that is not what the row says
\* was put there by a request that had read the row before and let go of the
\* connection. What getClientByTypes puts there is never stale.
StaleOnlyByReaders ==
    \A c \in ClientId :
        \/ cache[c] = 0
        \/ Invalidating(c)
        \/ made[cache[c]].cfg = client[c]
        \/ made[cache[c]].by \in Readers
=============================================================================
