---------------------------- MODULE ExternalClients ----------------------------
(***************************************************************************)
(* The clients of internal/download that talk to another program:          *)
(* transmission, qbittorrent and sabnzbd over HTTP, blackhole through a    *)
(* folder. A call of Add or GetQueue runs in the process that made it, on  *)
(* a client instance other processes may be using; the other program moves *)
(* on by itself, restarts, and may fail to answer.                         *)
(*                                                                         *)
(* There is one program of each type. A release is one value: its hash, its *)
(* nzo_id and its file name. Statuses, sizes and rates are left out.       *)
(***************************************************************************)
EXTENDS Naturals, FiniteSets, Sequences

CONSTANTS
    Proc,       \* goroutines of the process
    Release,    \* releases that can be added
    Instance,   \* client instances, 1..n in the order they are made
    \* How many releases of SABnzbd's queue and history a call asks for.
    QueueLimit, HistoryLimit,
    \* Bounds: restarts of Transmission, calls that fail.
    MaxRotations, MaxCallFaults

VARIABLES
    call,       \* the call each process has under way
    session,    \* Client.sessionID of each transmission instance
    epoch,      \* the session id Transmission asks for
    torrents,   \* releases Transmission has
    hashes,     \* releases qBittorrent has
    slots,      \* releases in the queue and in the history of SABnzbd
    folder,     \* the files in blackhole's folder: their content
    writer,     \* who is writing each
    \* History: the bounds; calls during which, or during a call overlapping
    \* the start of which, Transmission changed its session id; what SABnzbd
    \* had when a call began; calls whose answer was cut at a limit.
    rotations, callFaults, rotated, had, cut

callVars == <<call, session>>
programs == <<epoch, torrents, hashes, slots, folder, writer>>
extHistory == <<rotations, callFaults, rotated, had, cut>>
extVars == <<callVars, programs, extHistory>>

-----------------------------------------------------------------------------
Types == {"transmission", "qbittorrent", "sabnzbd", "blackhole", "direct"}
Nobody == 0
ASSUME ProcAssumption == Nobody \notin Proc
ASSUME LimitAssumption == QueueLimit \in Nat /\ HistoryLimit \in Nat

NoCall == [pc |-> "idle", type |-> "direct", op |-> "queue", inst |-> 0, item |-> 0,
           tries |-> 0, got |-> 0, out |-> {}, res |-> "none"]

ExtInit ==
    /\ call = [p \in Proc |-> NoCall]
    /\ session = [n \in Instance |-> 0]
    /\ epoch = 1
    /\ torrents = {}
    /\ hashes = {}
    /\ \E done \in SUBSET Release : slots = [queue |-> {}, history |-> done]
    /\ folder = [r \in Release |-> "none"]
    /\ writer = [r \in Release |-> Nobody]
    /\ rotations = 0 /\ callFaults = 0 /\ rotated = {} /\ cut = {}
    /\ had = [p \in Proc |-> {}]

InFlight == {p \in Proc : /\ call[p].type = "transmission"
                        /\ call[p].pc \in {"send", "conflict"}}

\* A client's method is entered: transmission's rpc makes its request at once,
\* qbittorrent logs in first, the direct client answers from its own map.
StartCall(p, type, op, n, r) ==
    /\ call' = [call EXCEPT ![p] = [NoCall EXCEPT
                    !.type = type, !.op = op, !.inst = n, !.item = r,
                    !.pc = IF type = "qbittorrent" THEN "login" ELSE "send"]]
    /\ rotated' = IF type = "transmission" /\ InFlight \cap rotated # {}
                  THEN rotated \cup {p} ELSE rotated \ {p}
    /\ had' = [had EXCEPT ![p] = IF type = "sabnzbd" /\ op = "queue"
                                 THEN slots.queue \cup slots.history ELSE {}]
    /\ cut' = cut \ {p}
    /\ UNCHANGED <<session, programs, rotations, callFaults>>

Answer(p, res, out) == call' = [call EXCEPT ![p].pc = "done", ![p].res = res,
                                            ![p].out = out]

\* A request fails on the way there or back, or is answered with an error. What
\* the program did with it stays done.
Faulty ==
    /\ callFaults < MaxCallFaults
    /\ callFaults' = callFaults + 1

At(p, type, pc) == call[p].type = type /\ call[p].pc = pc

-----------------------------------------------------------------------------
(* transmission *)

\* One turn of the loop of rpc: the session id is read under the lock, the
\* request is sent. 409 brings the id to use; without it, or on 401, the call
\* is over.
TrSend(p) ==
    /\ At(p, "transmission", "send")
    /\ \/ /\ session[call[p].inst] # epoch
          /\ call' = [call EXCEPT ![p].pc = "conflict", ![p].got = epoch]
          /\ UNCHANGED <<torrents, callFaults>>
       \/ /\ session[call[p].inst] = epoch
          /\ torrents' = IF call[p].op = "add" THEN torrents \cup {call[p].item}
                         ELSE torrents
          /\ \/ Answer(p, "ok", torrents') /\ UNCHANGED callFaults
             \/ Answer(p, "connection", {}) /\ Faulty
       \/ /\ \E res \in {"connection", "auth"} : Answer(p, res, {})
          /\ Faulty
          /\ UNCHANGED torrents
    /\ UNCHANGED <<session, epoch, hashes, slots, folder, writer, rotations, rotated, had, cut>>

\* Mutant: the id a 409 brings is not stored.
TrStore_drops(p) ==
    /\ At(p, "transmission", "conflict")
    /\ IF call[p].tries = 1
       THEN Answer(p, "conflict", {})
       ELSE call' = [call EXCEPT ![p].pc = "send", ![p].tries = 1]
    /\ UNCHANGED <<session, programs, extHistory>>

\* The id is stored under the lock, and the loop goes on for a second and last
\* try: ErrConnectionFailed after it.
TrStore(p) ==
    /\ At(p, "transmission", "conflict")
    /\ session' = [session EXCEPT ![call[p].inst] = call[p].got]
    /\ IF call[p].tries = 1
       THEN Answer(p, "conflict", {})
       ELSE call' = [call EXCEPT ![p].pc = "send", ![p].tries = 1]
    /\ UNCHANGED <<programs, extHistory>>

\* Transmission restarts, or the session id expires.
TrRotate ==
    /\ rotations < MaxRotations
    /\ rotations' = rotations + 1
    /\ epoch' = epoch + 1
    /\ rotated' = rotated \cup InFlight
    /\ UNCHANGED <<callVars, torrents, hashes, slots, folder, writer, callFaults, had, cut>>

-----------------------------------------------------------------------------
(* qbittorrent: every method logs in first. *)

QbtLogin(p) ==
    /\ At(p, "qbittorrent", "login")
    /\ \/ call' = [call EXCEPT ![p].pc = "send"] /\ UNCHANGED callFaults
       \/ \E res \in {"connection", "auth"} : Answer(p, res, {}) /\ Faulty
    /\ UNCHANGED <<session, programs, rotations, rotated, had, cut>>

\* Add returns an id of its own making (0): no hash is equal to it.
QbtAdd(p) ==
    /\ At(p, "qbittorrent", "send")
    /\ call[p].op = "add"
    /\ \/ /\ hashes' = hashes \cup {call[p].item}
          /\ \/ Answer(p, "ok", {0}) /\ UNCHANGED callFaults
             \/ Answer(p, "connection", {}) /\ Faulty
       \/ Answer(p, "error", {}) /\ Faulty /\ UNCHANGED hashes
    /\ UNCHANGED <<session, epoch, torrents, slots, folder, writer, rotations, rotated, had, cut>>

QbtQueue(p) ==
    /\ At(p, "qbittorrent", "send")
    /\ call[p].op = "queue"
    /\ \/ Answer(p, "ok", hashes) /\ UNCHANGED callFaults
       \/ Answer(p, "error", {}) /\ Faulty
    /\ UNCHANGED <<session, programs, rotations, rotated, had, cut>>

-----------------------------------------------------------------------------
(* sabnzbd *)

SabAdd(p) ==
    /\ At(p, "sabnzbd", "send")
    /\ call[p].op = "add"
    /\ \/ /\ slots' = IF call[p].item \in slots.queue \cup slots.history THEN slots
                      ELSE [slots EXCEPT !.queue = @ \cup {call[p].item}]
          /\ \/ Answer(p, "ok", {call[p].item}) /\ UNCHANGED callFaults
             \/ Answer(p, "connection", {}) /\ Faulty
       \/ Answer(p, "auth", {}) /\ Faulty /\ UNCHANGED slots
    /\ UNCHANGED <<session, epoch, torrents, hashes, folder, writer, rotations, rotated, had, cut>>

\* The answers to a question for at most limit of these slots, and what is noted
\* of the call that gets one.
Shown(all, limit) ==
    IF Cardinality(all) <= limit THEN {all}
    ELSE {s \in SUBSET all : Cardinality(s) = limit}

NoteCut(p, all, limit) ==
    cut' = IF Cardinality(all) <= limit THEN cut ELSE cut \cup {p}

\* GetQueue asks for the queue, whose failure ends the call, ...
SabQueue(p) ==
    /\ At(p, "sabnzbd", "send")
    /\ call[p].op = "queue"
    /\ \/ /\ \E s \in Shown(slots.queue, QueueLimit) :
               call' = [call EXCEPT ![p].pc = "history", ![p].out = s]
          /\ NoteCut(p, slots.queue, QueueLimit)
          /\ UNCHANGED callFaults
       \/ Answer(p, "connection", {}) /\ Faulty /\ UNCHANGED cut
    /\ UNCHANGED <<session, programs, rotations, rotated, had>>

\* Mutant: the second answer takes the place of the first.
SabHistory_replaces(p) ==
    /\ At(p, "sabnzbd", "history")
    /\ \/ /\ \E s \in Shown(slots.history, HistoryLimit) : Answer(p, "ok", s)
          /\ NoteCut(p, slots.history, HistoryLimit)
          /\ UNCHANGED callFaults
       \/ Answer(p, "partial", call[p].out) /\ Faulty /\ UNCHANGED cut
    /\ UNCHANGED <<session, programs, rotations, rotated, had>>

\* ... and then for the history, without which it returns the queue alone.
SabHistory(p) ==
    /\ At(p, "sabnzbd", "history")
    /\ \/ /\ \E s \in Shown(slots.history, HistoryLimit) : Answer(p, "ok", call[p].out \cup s)
          /\ NoteCut(p, slots.history, HistoryLimit)
          /\ UNCHANGED callFaults
       \/ Answer(p, "partial", call[p].out) /\ Faulty /\ UNCHANGED cut
    /\ UNCHANGED <<session, programs, rotations, rotated, had>>

\* SABnzbd is done with a release.
SabMoves(r) ==
    /\ r \in slots.queue
    /\ slots' = [queue |-> slots.queue \ {r}, history |-> slots.history \cup {r}]
    /\ UNCHANGED <<callVars, epoch, torrents, hashes, folder, writer, extHistory>>

-----------------------------------------------------------------------------
(* blackhole *)

\* GetQueue knows nothing. Add fetches the file and creates (truncates) the
\* one of its name, ...
BhQueue(p) ==
    /\ At(p, "blackhole", "send")
    /\ call[p].op = "queue"
    /\ Answer(p, "ok", {})
    /\ UNCHANGED <<session, programs, extHistory>>

BhCreate(p) ==
    /\ At(p, "blackhole", "send")
    /\ call[p].op = "add"
    /\ \/ /\ call' = [call EXCEPT ![p].pc = "write"]
          /\ folder' = [folder EXCEPT ![call[p].item] = "partial"]
          /\ writer' = [writer EXCEPT ![call[p].item] = p]
          /\ UNCHANGED callFaults
       \/ Answer(p, "connection", {}) /\ Faulty /\ UNCHANGED <<folder, writer>>
    /\ UNCHANGED <<session, epoch, torrents, hashes, slots, rotations, rotated, had, cut>>

\* ... writes it, and removes it when that fails.
BhWrite(p) ==
    /\ At(p, "blackhole", "write")
    /\ \/ /\ folder' = [folder EXCEPT ![call[p].item] =
                           IF writer[call[p].item] = p THEN "complete" ELSE @]
          /\ Answer(p, "ok", {call[p].item}) /\ UNCHANGED callFaults
          /\ writer' = [writer EXCEPT ![call[p].item] = IF @ = p THEN Nobody ELSE @]
       \/ /\ folder' = [folder EXCEPT ![call[p].item] = "none"]
          /\ writer' = [writer EXCEPT ![call[p].item] = Nobody]
          /\ Answer(p, "error", {}) /\ Faulty
    /\ UNCHANGED <<session, epoch, torrents, hashes, slots, rotations, rotated, had, cut>>

-----------------------------------------------------------------------------
\* The direct client's Add and GetQueue are in its own map (DownloadQueue).
DirectCall(p) ==
    /\ At(p, "direct", "send")
    /\ Answer(p, "ok", {})
    /\ UNCHANGED <<session, programs, extHistory>>

CallStep(p) ==
    \/ TrSend(p) \/ TrStore(p)
    \/ QbtLogin(p) \/ QbtAdd(p) \/ QbtQueue(p)
    \/ SabAdd(p) \/ SabQueue(p) \/ SabHistory(p)
    \/ BhQueue(p) \/ BhCreate(p) \/ BhWrite(p)
    \/ DirectCall(p)

ProgramStep == TrRotate \/ \E r \in Release : SabMoves(r)

ExtTypeOK ==
    /\ \A p \in Proc :
         /\ call[p].type \in Types
         /\ call[p].op \in {"add", "queue"}
         /\ call[p].inst \in Instance \cup {0}
         /\ call[p].tries \in 0..1
         /\ call[p].out \subseteq Release \cup {0}
    /\ session \in [Instance -> 0..epoch]
    /\ folder \in [Release -> {"none", "partial", "complete"}]
    /\ slots.queue \cap slots.history = {}

\* An rpc gives up over the session id only if Transmission changed it during
\* the call, or during another call that was under way when it began: the late
\* 409 of that one may overwrite the id this one has just stored.
ConflictExplained ==
    \A p \in Proc : call[p].res = "conflict" => p \in rotated

\* A full answer of SABnzbd's GetQueue has every release it had when the call
\* began, although releases move from the queue to the history meanwhile - unless
\* there were more of them than it asks for, in one or the other.
NoSlotLost ==
    \A p \in Proc \ cut :
        call[p].type = "sabnzbd" /\ call[p].op = "queue" /\ call[p].res = "ok"
            => had[p] \subseteq call[p].out

\* "GetQueue returns all items in SABnzbd queue and history.", which it does not
\* once there are more than the limits.
AllSlotsReturned ==
    \A p \in Proc :
        call[p].type = "sabnzbd" /\ call[p].op = "queue" /\ call[p].res = "ok"
            => had[p] \subseteq call[p].out
=============================================================================
