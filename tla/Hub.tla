---------------------------------- MODULE Hub ----------------------------------
(***************************************************************************)
(* api/v1/ws: the hub that broadcasts events to WebSocket clients.         *)
(*                                                                         *)
(* Each connection has two goroutines, readPump and writePump, and a       *)
(* buffered channel between the hub and the second. Broadcast sends under  *)
(* the read lock and never blocks, so that no client comes or goes during  *)
(* it and it is one step; so is removeClient, under the lock. A client     *)
(* whose buffer is full misses the message and is removed by a goroutine   *)
(* of its own, which may be late. Messages are numbers, in order.          *)
(***************************************************************************)
EXTENDS Naturals, Sequences

CONSTANTS
    Conn,       \* connections that may be made
    Buffer      \* capacity of a client's channel (256)

ASSUME BufferAssumption == Buffer \in Nat \ {0}

VARIABLES
    clients,    \* Hub.clients
    send,       \* the messages in each client's channel
    closed,     \* the channels that are closed
    conn,       \* each connection: "none", "open", "broken" by the peer, "closed" by us
    reader, writer, \* where the goroutines of a connection are
    removals,   \* the goroutines "go h.removeClient(c)" that have not run yet
    sent,       \* messages broadcast so far
    \* History: what was last written to each client; who has missed a message;
    \* whether a goroutine has panicked on a closed channel.
    written, missed, panic

hubVars == <<clients, send, closed, conn, reader, writer, removals, sent,
             written, missed, panic>>

-----------------------------------------------------------------------------
HubInit ==
    /\ clients = {} /\ closed = {} /\ missed = {} /\ panic = FALSE /\ sent = 0
    /\ send = [c \in Conn |-> <<>>]
    /\ conn = [c \in Conn |-> "none"]
    /\ reader = [c \in Conn |-> "none"]
    /\ writer = [c \in Conn |-> "none"]
    /\ removals = [c \in Conn |-> 0]
    /\ written = [c \in Conn |-> 0]

\* HandleWS: upgrade, addClient, and the two goroutines.
HandleWS(c) ==
    /\ conn[c] = "none"
    /\ conn' = [conn EXCEPT ![c] = "open"]
    /\ clients' = clients \cup {c}
    /\ reader' = [reader EXCEPT ![c] = "read"]
    /\ writer' = [writer EXCEPT ![c] = "select"]
    /\ written' = [written EXCEPT ![c] = sent]
    /\ UNCHANGED <<send, closed, removals, sent, missed, panic>>

Full == {c \in clients : Len(send[c]) >= Buffer}

Broadcast ==
    /\ sent' = sent + 1
    /\ send' = [c \in Conn |-> IF c \in clients \ Full THEN Append(send[c], sent') ELSE send[c]]
    /\ removals' = [c \in Conn |-> removals[c] + IF c \in Full THEN 1 ELSE 0]
    /\ missed' = missed \cup Full
    /\ panic' = (panic \/ clients \cap closed # {})
    /\ UNCHANGED <<clients, closed, conn, reader, writer, written>>

\* Mutant: the channel is closed whether or not the client is still there.
removeClient_twice(c) ==
    /\ clients' = clients \ {c}
    /\ closed' = closed \cup {c}
    /\ panic' = (panic \/ c \in closed)

removeClient(c) ==
    IF c \in clients
    THEN /\ clients' = clients \ {c}
         /\ closed' = closed \cup {c}
         /\ panic' = (panic \/ c \in closed)
    ELSE UNCHANGED <<clients, closed, panic>>

RemoveSlow(c) ==
    /\ removals[c] > 0
    /\ removals' = [removals EXCEPT ![c] = @ - 1]
    /\ removeClient(c)
    /\ UNCHANGED <<send, conn, reader, writer, sent, written, missed>>

-----------------------------------------------------------------------------
(* readPump *)

\* ReadMessage returns an error: the connection is closed, the peer is gone,
\* has said too much or has answered no ping within pongWait.
ReadFails(c) ==
    /\ reader[c] = "read"
    /\ conn[c] \in {"broken", "closed"}
    /\ reader' = [reader EXCEPT ![c] = "remove"]
    /\ UNCHANGED <<clients, send, closed, conn, writer, removals, sent, written, missed, panic>>

\* Mutant: the reader leaves the client in the hub.
ReaderRemoves_not(c) ==
    /\ reader[c] = "remove"
    /\ reader' = [reader EXCEPT ![c] = "close"]
    /\ UNCHANGED <<clients, send, closed, conn, writer, removals, sent, written, missed, panic>>

ReaderRemoves(c) ==
    /\ reader[c] = "remove"
    /\ reader' = [reader EXCEPT ![c] = "close"]
    /\ removeClient(c)
    /\ UNCHANGED <<send, conn, writer, removals, sent, written, missed>>

ReaderCloses(c) ==
    /\ reader[c] = "close"
    /\ reader' = [reader EXCEPT ![c] = "done"]
    /\ conn' = [conn EXCEPT ![c] = "closed"]
    /\ UNCHANGED <<clients, send, closed, writer, removals, sent, written, missed, panic>>

ReaderStep(c) == ReadFails(c) \/ ReaderRemoves(c) \/ ReaderCloses(c)

-----------------------------------------------------------------------------
(* writePump *)

\* A message is taken from the channel and written, or the write fails. What
\* is written to a peer that is gone may be lost without an error.
WriteMessage(c) ==
    /\ writer[c] = "select"
    /\ send[c] # <<>>
    /\ send' = [send EXCEPT ![c] = Tail(@)]
    /\ \/ /\ conn[c] # "closed"
          /\ written' = [written EXCEPT ![c] = Head(send[c])]
          /\ UNCHANGED writer
       \/ /\ conn[c] # "open"
          /\ writer' = [writer EXCEPT ![c] = "close"]
          /\ UNCHANGED written
    /\ UNCHANGED <<clients, closed, conn, reader, removals, sent, missed, panic>>

\* A closed channel gives what is left in it first.
SendClosed(c) ==
    /\ writer[c] = "select"
    /\ send[c] = <<>> /\ c \in closed
    /\ writer' = [writer EXCEPT ![c] = "close"]
    /\ UNCHANGED <<clients, send, closed, conn, reader, removals, sent, written, missed, panic>>

PingFails(c) ==
    /\ writer[c] = "select"
    /\ conn[c] # "open"
    /\ writer' = [writer EXCEPT ![c] = "close"]
    /\ UNCHANGED <<clients, send, closed, conn, reader, removals, sent, written, missed, panic>>

\* The deferred Close. The client stays in the hub: its reader takes it out.
WriterCloses(c) ==
    /\ writer[c] = "close"
    /\ writer' = [writer EXCEPT ![c] = "done"]
    /\ conn' = [conn EXCEPT ![c] = "closed"]
    /\ UNCHANGED <<clients, send, closed, reader, removals, sent, written, missed, panic>>

WriterStep(c) == WriteMessage(c) \/ SendClosed(c) \/ PingFails(c) \/ WriterCloses(c)

-----------------------------------------------------------------------------
PeerLeaves(c) ==
    /\ conn[c] = "open"
    /\ conn' = [conn EXCEPT ![c] = "broken"]
    /\ UNCHANGED <<clients, send, closed, reader, writer, removals, sent, written, missed, panic>>

\* The process ends, and with it every goroutine and connection.
HubDies ==
    /\ clients' = {}
    /\ conn' = [c \in Conn |-> IF conn[c] = "none" THEN "none" ELSE "closed"]
    /\ reader' = [c \in Conn |-> IF conn[c] = "none" THEN "none" ELSE "done"]
    /\ writer' = [c \in Conn |-> IF conn[c] = "none" THEN "none" ELSE "done"]
    /\ removals' = [c \in Conn |-> 0]
    /\ UNCHANGED <<send, closed, sent, written, missed, panic>>

HubStep == \E c \in Conn : RemoveSlow(c) \/ ReaderStep(c) \/ WriterStep(c) \/ PeerLeaves(c)

HubFairness == \A c \in Conn :
    /\ WF_hubVars(RemoveSlow(c))
    /\ WF_hubVars(ReaderStep(c))
    /\ WF_hubVars(WriterStep(c))

-----------------------------------------------------------------------------
(* Properties. *)

HubTypeOK ==
    /\ clients \in SUBSET Conn /\ closed \in SUBSET Conn /\ missed \in SUBSET Conn
    /\ send \in [Conn -> Seq(Nat)]
    /\ conn \in [Conn -> {"none", "open", "broken", "closed"}]
    /\ reader \in [Conn -> {"none", "read", "remove", "close", "done"}]
    /\ writer \in [Conn -> {"none", "select", "close", "done"}]
    /\ removals \in [Conn -> Nat]
    /\ sent \in Nat /\ written \in [Conn -> Nat] /\ panic \in BOOLEAN

\* The next message of c has the number after the last one it was written.
InOrder(c) ==
    /\ \A i \in 1 .. Len(send[c]) : send[c][i] = written[c] + i
    /\ written[c] + Len(send[c]) = sent

\* No goroutine sends to or closes a closed channel, however removals by the
\* reader and by any number of broadcasts meet. A client of the hub has been
\* or will be written every message since it came, each once and in order,
\* unless it is on its way out: one that has missed a message is being
\* removed, and one whose writer has gone has lost its connection.
HubSafe ==
    /\ ~panic
    /\ clients \cap closed = {}
    /\ \A c \in clients :
         IF c \in missed THEN removals[c] > 0 ELSE writer[c] = "select" => InOrder(c)

\* A client that has missed a message, or whose peer is gone, leaves: out of
\* the hub, its two goroutines ended and the connection closed, so that it can
\* connect and ask for the state again.
Ended(c) == c \notin clients /\ reader[c] = "done" /\ writer[c] = "done" /\ conn[c] = "closed"
LostClientsLeave == \A c \in Conn : c \in missed \/ conn[c] = "broken" ~> Ended(c)
================================================================================
