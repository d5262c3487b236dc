------------------------------ MODULE ServerProofs ------------------------------
(***************************************************************************)
(* First the hub, for any number of connections and any buffer: no         *)
(* goroutine uses a closed channel, and a client of the hub misses nothing *)
(* unless it is on its way out.  Then Server, for any number of requests,  *)
(* connections, seconds and faults.  The invariants of one aspect each are *)
(* conjuncts of IInv; a step is shown to keep them from IInv and the type  *)
(* of the next state.                                                      *)
(***************************************************************************)
EXTENDS Server, SequenceTheorems, FiniteSetTheorems, TLAPS

HubNext == Broadcast \/ HubDies \/ HubStep \/ \E c \in Conn : HandleWS(c)

\* A connection that has not been made has left no trace.
Unmade(c) ==
    /\ c \notin clients /\ c \notin closed /\ c \notin missed
    /\ send[c] = <<>> /\ removals[c] = 0 /\ reader[c] = "none" /\ writer[c] = "none"

HubInv ==
    /\ HubTypeOK
    /\ HubSafe
    /\ \A c \in Conn : conn[c] = "none" => Unmade(c)

\* What HubSafe says of one client.
Served(c) == IF c \in missed THEN removals[c] > 0 ELSE writer[c] = "select" => InOrder(c)

-----------------------------------------------------------------------------
LEMMA HubInitInv == HubInit => HubInv
  <1> SUFFICES ASSUME HubInit PROVE HubInv
    OBVIOUS
  <1>1. HubTypeOK
    BY EmptySeq DEF HubInit, HubTypeOK
  <1>2. HubSafe /\ \A c \in Conn : Unmade(c)
    BY DEF HubInit, HubSafe, Unmade
  <1> QED  BY <1>1, <1>2 DEF HubInv

LEMMA HubTypeStep == HubInv /\ [HubNext]_hubVars => HubTypeOK'
  <1> SUFFICES ASSUME HubInv, [HubNext]_hubVars PROVE HubTypeOK'
    OBVIOUS
  <1> USE DEF HubInv, HubTypeOK
  <1>1. CASE Broadcast
    <2>1. \A c \in Conn : Append(send[c], sent') \in Seq(Nat)
      BY <1>1, AppendProperties DEF Broadcast
    <2>2. send' \in [Conn -> Seq(Nat)]
      BY <1>1, <2>1 DEF Broadcast
    <2>3. removals' \in [Conn -> Nat] /\ missed' \in SUBSET Conn /\ sent' \in Nat
      BY <1>1 DEF Broadcast, Full
    <2>4. panic' \in BOOLEAN /\ UNCHANGED <<clients, closed, conn, reader, writer, written>>
      BY <1>1 DEF Broadcast
    <2> QED  BY <2>2, <2>3, <2>4
  <1>2. CASE HubDies
    BY <1>2 DEF HubDies
  <1>3. ASSUME NEW c \in Conn, HandleWS(c) PROVE HubTypeOK'
    BY <1>3 DEF HandleWS
  <1>4. ASSUME NEW c \in Conn, RemoveSlow(c) PROVE HubTypeOK'
    <2>1. removals' \in [Conn -> Nat]
      BY <1>4 DEF RemoveSlow
    <2>2. clients' \in SUBSET Conn /\ closed' \in SUBSET Conn
      BY <1>4 DEF RemoveSlow, removeClient
    <2>3. panic' \in BOOLEAN
      BY Zenon, <1>4 DEF RemoveSlow, removeClient
    <2> QED  BY <1>4, <2>1, <2>2, <2>3 DEF RemoveSlow
  <1>5. ASSUME NEW c \in Conn, ReaderStep(c) PROVE HubTypeOK'
    BY ZenonT(30), <1>5 DEF ReaderStep, ReadFails, ReaderRemoves, ReaderCloses, removeClient
  <1>6. ASSUME NEW c \in Conn, WriterStep(c) PROVE HubTypeOK'
    <2>1. CASE WriteMessage(c)
      <3>1. Tail(send[c]) \in Seq(Nat) /\ Head(send[c]) \in Nat
        BY <2>1, HeadTailProperties DEF WriteMessage
      <3> QED  BY ZenonT(30), <2>1, <3>1 DEF WriteMessage
    <2>2. CASE SendClosed(c) \/ PingFails(c) \/ WriterCloses(c)
      BY <2>2 DEF SendClosed, PingFails, WriterCloses
    <2> QED  BY <1>6, <2>1, <2>2 DEF WriterStep
  <1>7. ASSUME NEW c \in Conn, PeerLeaves(c) PROVE HubTypeOK'
    BY <1>7 DEF PeerLeaves
  <1>8. CASE UNCHANGED hubVars
    BY <1>8 DEF hubVars
  <1> QED
    BY <1>1, <1>2, <1>3, <1>4, <1>5, <1>6, <1>7, <1>8 DEF HubNext, HubStep

\* A broadcast appends the next number to a channel that has room.
LEMMA BroadcastServes ==
    ASSUME HubInv, Broadcast, NEW c \in clients
    PROVE  Served(c)'
  <1> USE DEF HubInv, HubTypeOK
  <1>1. c \in Conn /\ c \notin closed /\ Served(c) /\ sent' = sent + 1 /\ writer' = writer
    BY DEF HubSafe, Served, Broadcast
  <1>2. CASE c \in Full
    BY <1>1, <1>2 DEF Broadcast, Served
  <1>3. CASE c \in missed /\ c \notin Full
    BY <1>1, <1>3 DEF Broadcast, Served
  <1>4. CASE c \notin missed /\ c \notin Full
    <2>1. c \notin missed' /\ written' = written /\ send'[c] = Append(send[c], sent + 1)
      BY <1>1, <1>4 DEF Broadcast, Full
    <2>2. SUFFICES ASSUME writer[c] = "select" PROVE InOrder(c)'
      BY <1>1, <2>1 DEF Served
    <2>3. InOrder(c)
      BY <1>1, <1>4, <2>2 DEF Served
    <2>4. /\ Len(send'[c]) = Len(send[c]) + 1
          /\ \A i \in 1 .. Len(send[c]) : send'[c][i] = send[c][i]
          /\ send'[c][Len(send[c]) + 1] = sent + 1
      BY <1>1, <2>1, AppendProperties
    <2>5. Len(send[c]) \in Nat /\ written[c] \in Nat
      BY <1>1, LenProperties
    <2>6. ASSUME NEW i \in 1 .. Len(send'[c]) PROVE send'[c][i] = written'[c] + i
      <3>1. CASE i \in 1 .. Len(send[c])
        BY <2>1, <2>3, <2>4, <3>1 DEF InOrder
      <3>2. CASE i = Len(send[c]) + 1
        <4>1. send'[c][i] = sent + 1
          BY <2>4, <3>2
        <4>2. sent = written[c] + Len(send[c]) /\ written'[c] = written[c]
          BY <2>1, <2>3 DEF InOrder
        <4> QED  BY <2>5, <3>2, <4>1, <4>2
      <3>3. i \in 1 .. Len(send[c]) \/ i = Len(send[c]) + 1
        <4>1. i \in 1 .. Len(send[c]) + 1
          BY <2>4
        <4> QED  BY <2>5, <4>1
      <3> QED  BY <3>1, <3>2, <3>3
    <2> QED  BY <1>1, <2>1, <2>3, <2>4, <2>5, <2>6 DEF InOrder
  <1> QED  BY <1>2, <1>3, <1>4

\* The writer takes the next message.
LEMMA WriteServes ==
    ASSUME HubInv, NEW c \in Conn, WriteMessage(c), Served(c)
    PROVE  Served(c)'
  <1> USE DEF HubInv, HubTypeOK
  <1>1. /\ missed' = missed /\ removals' = removals /\ sent' = sent
        /\ writer[c] = "select" /\ send[c] # <<>> /\ send'[c] = Tail(send[c])
    BY DEF WriteMessage
  <1>2. CASE c \in missed
    BY <1>1, <1>2 DEF Served
  <1>3. CASE writer'[c] = "close"
    BY <1>1, <1>2, <1>3 DEF Served
  <1>4. CASE c \notin missed /\ written' = [written EXCEPT ![c] = Head(send[c])]
    <2>1. InOrder(c)
      BY <1>1, <1>4 DEF Served
    <2>2. Len(send[c]) \in Nat \ {0} /\ written[c] \in Nat
      BY <1>1, EmptySeq, LenProperties
    <2>3. /\ Head(send[c]) = send[c][1] /\ Len(Tail(send[c])) = Len(send[c]) - 1
          /\ \A i \in 1 .. Len(send[c]) - 1 : Tail(send[c])[i] = send[c][i + 1]
      BY <1>1, HeadTailProperties
    <2>4. written'[c] = written[c] + 1
      BY <1>4, <2>1, <2>2, <2>3 DEF InOrder
    <2>5. ASSUME NEW i \in 1 .. Len(send'[c]) PROVE send'[c][i] = written'[c] + i
      <3>1. i \in 1 .. Len(send[c]) - 1 /\ i + 1 \in 1 .. Len(send[c])
        BY <1>1, <2>2, <2>3
      <3>2. send[c][i + 1] = written[c] + (i + 1)
        BY <2>1, <3>1 DEF InOrder
      <3> QED  BY <1>1, <2>2, <2>3, <2>4, <3>1, <3>2
    <2>6. InOrder(c)'
      BY <1>1, <2>1, <2>2, <2>3, <2>4, <2>5 DEF InOrder
    <2> QED  BY <1>1, <1>4, <2>6 DEF Served
  <1> QED  BY <1>2, <1>3, <1>4 DEF WriteMessage

LEMMA HubSafeStep == HubInv /\ [HubNext]_hubVars => HubSafe'
  <1> SUFFICES ASSUME HubInv, [HubNext]_hubVars
               PROVE  ~panic' /\ clients' \cap closed' = {} /\ \A d \in clients' : Served(d)'
    BY DEF HubSafe, Served
  <1> USE DEF HubInv, HubTypeOK
  <1>0. ~panic /\ clients \cap closed = {} /\ \A d \in clients : Served(d)
    BY DEF HubSafe, Served
  \* Nothing that HubSafe looks at moves but for what one writer does.
  <1>a. ASSUME UNCHANGED <<send, sent, written, missed>>, clients' \subseteq clients,
               \A d \in clients' : removals'[d] = removals[d],
               \A d \in clients' : writer'[d] = writer[d] \/ writer'[d] # "select"
        PROVE  \A d \in clients' : Served(d)'
    BY <1>0, <1>a DEF Served, InOrder
  <1>1. CASE Broadcast
    BY <1>0, <1>1, BroadcastServes DEF Broadcast
  <1>2. CASE HubDies
    BY <1>0, <1>2 DEF HubDies
  <1>3. ASSUME NEW c \in Conn, HandleWS(c)
        PROVE  ~panic' /\ clients' \cap closed' = {} /\ \A d \in clients' : Served(d)'
    <2>1. Unmade(c)
      BY <1>3 DEF HandleWS
    <2>2. Served(c)'
      BY <1>3, <2>1, EmptySeq DEF HandleWS, Unmade, Served, InOrder
    <2>3. ASSUME NEW d \in clients PROVE Served(d)'
      BY <1>0, <1>3, <2>1, <2>3 DEF HandleWS, Unmade, Served, InOrder
    <2> QED  BY <1>0, <1>3, <2>1, <2>2, <2>3 DEF HandleWS, Unmade
  <1>4. ASSUME NEW c \in Conn, RemoveSlow(c)
        PROVE  ~panic' /\ clients' \cap closed' = {} /\ \A d \in clients' : Served(d)'
    <2>1. ~panic' /\ clients' \cap closed' = {} /\ clients' \subseteq clients /\ c \notin clients'
      BY <1>0, <1>4 DEF RemoveSlow, removeClient
    <2>2. \A d \in clients' : removals'[d] = removals[d]
      BY <1>4, <2>1 DEF RemoveSlow
    <2> QED  BY <1>a, <1>4, <2>1, <2>2 DEF RemoveSlow
  <1>5. ASSUME NEW c \in Conn, ReaderStep(c)
        PROVE  ~panic' /\ clients' \cap closed' = {} /\ \A d \in clients' : Served(d)'
    <2>1. ~panic' /\ clients' \cap closed' = {} /\ clients' \subseteq clients
      BY <1>0, <1>5 DEF ReaderStep, ReadFails, ReaderRemoves, ReaderCloses, removeClient
    <2>2. UNCHANGED <<send, sent, written, missed, removals, writer>>
      BY <1>5 DEF ReaderStep, ReadFails, ReaderRemoves, ReaderCloses
    <2> QED  BY <1>a, <2>1, <2>2
  <1>6. ASSUME NEW c \in Conn, WriterStep(c)
        PROVE  ~panic' /\ clients' \cap closed' = {} /\ \A d \in clients' : Served(d)'
    <2>1. UNCHANGED <<clients, closed, panic>>
      BY <1>6 DEF WriterStep, WriteMessage, SendClosed, PingFails, WriterCloses
    <2>2. CASE WriteMessage(c)
      <3>1. c \in clients => Served(c)'
        BY <1>0, <2>2, WriteServes
      <3>2. \A d \in clients \ {c} : Served(d)'
        BY <1>0, <2>2 DEF WriteMessage, Served, InOrder
      <3> QED  BY <1>0, <2>1, <3>1, <3>2
    <2>3. CASE SendClosed(c) \/ PingFails(c) \/ WriterCloses(c)
      BY <1>0, <1>a, <2>1, <2>3 DEF SendClosed, PingFails, WriterCloses
    <2> QED  BY <1>6, <2>2, <2>3 DEF WriterStep
  <1>7. ASSUME NEW c \in Conn, PeerLeaves(c)
        PROVE  ~panic' /\ clients' \cap closed' = {} /\ \A d \in clients' : Served(d)'
    BY <1>0, <1>a, <1>7 DEF PeerLeaves
  <1>8. CASE UNCHANGED hubVars
    BY <1>0, <1>a, <1>8 DEF hubVars
  <1> QED
    BY <1>1, <1>2, <1>3, <1>4, <1>5, <1>6, <1>7, <1>8 DEF HubNext, HubStep

LEMMA HubStepInv == HubInv /\ [HubNext]_hubVars => HubInv'
  <1> SUFFICES ASSUME HubInv, [HubNext]_hubVars PROVE HubInv'
    OBVIOUS
  <1>1. \A d \in Conn : conn'[d] = "none" => Unmade(d)'
    <2> SUFFICES ASSUME NEW d \in Conn, conn'[d] = "none" PROVE Unmade(d)'
      OBVIOUS
    <2> USE DEF HubInv, HubTypeOK
    <2>1. conn[d] = "none" /\ Unmade(d)
      BY DEF HubNext, HubStep, Broadcast, HubDies, HandleWS, RemoveSlow, ReaderStep, ReadFails,
             ReaderRemoves, ReaderCloses, WriterStep, WriteMessage, SendClosed, PingFails,
             WriterCloses, PeerLeaves, hubVars
    <2>2. CASE Broadcast \/ HubDies \/ UNCHANGED hubVars
      BY <2>1, <2>2 DEF Broadcast, Full, HubDies, hubVars, Unmade
    <2>3. ASSUME NEW c \in Conn, HandleWS(c) PROVE Unmade(d)'
      BY <2>1, <2>3 DEF HandleWS, Unmade
    <2>4. ASSUME NEW c \in Conn, RemoveSlow(c) \/ ReaderStep(c) PROVE Unmade(d)'
      BY <2>1, <2>4 DEF RemoveSlow, ReaderStep, ReadFails, ReaderRemoves, ReaderCloses,
                        removeClient, Unmade
    <2>5. ASSUME NEW c \in Conn, WriterStep(c) \/ PeerLeaves(c) PROVE Unmade(d)'
      BY <2>1, <2>5 DEF WriterStep, WriteMessage, SendClosed, PingFails, WriterCloses,
                        PeerLeaves, Unmade
    <2> QED  BY <2>2, <2>3, <2>4, <2>5 DEF HubNext, HubStep
  <1> QED  BY <1>1, HubTypeStep, HubSafeStep DEF HubInv

-----------------------------------------------------------------------------
(* The process *)

\* The process serves requests only while it is up.
DownIsIdle == boot # "up" => \A p \in Proc : req[p] = NoReq

\* A backup's copy is its own from VACUUM INTO to the removal: the name is
\* taken for as long as the file is there.
Holder(p) == req[p].pc \in {"zip", "write", "serve", "rmZip", "rmCopy"}
Archives ==
    /\ \A t \in Time : copy[t] # Cut
    /\ \A p \in Proc : Holder(p) => copy[req[p].at] # None
    /\ \A p, q \in Proc : Holder(p) /\ Holder(q) /\ req[p].at = req[q].at => p = q
    /\ \A p \in Proc : req[p].pc = "serve" =>
            zip[req[p].at] # None /\ (zip[req[p].at] = Cut => faults)
    /\ None \notin backups /\ (Cut \in backups => faults)

\* Two that restore at once know of each other.
Extracting == {p \in Proc : req[p].pc = "extract"}
Restores ==
    /\ \A p \in Extracting : req[p].file \in Database
    /\ \A p, q \in Extracting : p = q \/ mixed
    /\ restored = Cut => faults \/ mixed \/ Extracting # {}

\* The request that is being served is the one that was asked for last.
Channels ==
    raced \/ IF Updating = {} THEN db.channel = asked
             ELSE \A p \in Updating : req[p].row = asked /\ Updating = {p}

\* Every file that is or was a copy of the database, and the keys they hold.
Copies == ({copy[t] : t \in Time} \cup {zip[t] : t \in Time} \cup {restored} \cup backups
           \cup {req[p].file : p \in Proc}) \ {None, Cut}
KeysInUse == (keys \cup {db.key} \cup {d.key : d \in Copies}) \ {0}

Logins ==
    /\ \A d \in Copies : d.key # 0 /\ d.admin = db.admin /\ d.admin # 0
    /\ boot # "down" => starts # 0
    /\ boot \in {"admin", "show", "up"} => db.key # 0
    /\ boot \in {"show", "up"} => db.admin # 0
    /\ db.key = 0 => KeysInUse = {}
    /\ IsFiniteSet(KeysInUse) /\ Cardinality(KeysInUse) <= 1 + unread
    /\ 0 \notin keys
    /\ shown \subseteq {db.admin} /\ (db.admin = 0 => shown = {})
    /\ db.admin = 0 \/ boot = "show" \/ db.admin \in shown \cup unlucky

IInv == HubInv /\ SysTypeOK /\ DownIsIdle /\ Archives /\ Restores /\ Channels /\ Logins

\* What the steps of the hub, of time and of nobody leave alone.
Quiet == UNCHANGED <<boot, starts, db, copy, zip, restored, backups, req, faults,
                     keys, shown, unlucky, mixed, asked, raced, unread>>

-----------------------------------------------------------------------------
LEMMA TypeFacts ==
    /\ 0 \in Time /\ NoChannel \in Channel /\ None \in Files /\ Cut \in Files
    /\ FirstDb \in Database /\ Database \subseteq Files
    /\ NoReq \in [pc : ReqPC, at : Time, file : Files, row : Channel]
  <1>1. 0 \in Time
    BY FilesAssumption DEF Time
  <1>2. NoChannel \in Channel
    BY DEF NoChannel, Channel
  <1>3. FirstDb \in Database
    BY <1>2 DEF FirstDb, Database
  <1>4. NoReq \in [pc : ReqPC, at : Time, file : Files, row : Channel]
    BY <1>1, <1>2 DEF NoReq, ReqPC, Files
  <1> QED  BY <1>1, <1>2, <1>3, <1>4 DEF Files

\* The next state of a request that goes on, and of one that returns.
LEMMA ReqType ==
    ASSUME SysTypeOK, NEW p \in Proc
    PROVE  /\ Return(p) => req' \in [Proc -> [pc : ReqPC, at : Time, file : Files, row : Channel]]
           /\ \A pc \in ReqPC : Goto(p, pc) =>
                 req' \in [Proc -> [pc : ReqPC, at : Time, file : Files, row : Channel]]
  BY TypeFacts DEF SysTypeOK, Return, Become, Goto

LEMMA SysTypeStep == SysTypeOK /\ Archives /\ [Next]_vars => SysTypeOK'
  <1> SUFFICES ASSUME SysTypeOK, Archives, [Next]_vars PROVE SysTypeOK'
    OBVIOUS
  <1> USE DEF SysTypeOK
  <1>1. CASE Start
    BY <1>1 DEF Start
  <1>2. CASE EnsureAPIKey
    <2>1. db' \in Database
      BY <1>2 DEF EnsureAPIKey, Database
    <2>2. unread' \in Nat
      BY <1>2 DEF EnsureAPIKey, Fault
    <2>3. faults' \in BOOLEAN
      BY Zenon, <1>2 DEF EnsureAPIKey, Fault
    <2> QED  BY <1>2, <2>1, <2>2, <2>3 DEF EnsureAPIKey
  <1>3. CASE EnsureDefaultAdmin
    <2>1. db' \in Database /\ keys' \in SUBSET Nat
      BY <1>3 DEF EnsureDefaultAdmin, ShowKey, Database
    <2>2. faults' \in BOOLEAN
      BY Zenon, <1>3 DEF EnsureDefaultAdmin, ShowKey, Fault
    <2> QED  BY <1>3, <2>1, <2>2 DEF EnsureDefaultAdmin
  <1>4. CASE LogAdminCredentials
    <2>1. keys' \in SUBSET Nat /\ shown' \in SUBSET Nat
      BY <1>4 DEF LogAdminCredentials, ShowKey, Database
    <2>2. faults' \in BOOLEAN
      BY Zenon, <1>4 DEF LogAdminCredentials, ShowKey, Fault
    <2> QED  BY <1>4, <2>1, <2>2 DEF LogAdminCredentials
  <1>5. CASE Die
    <2>1. req' \in [Proc -> [pc : ReqPC, at : Time, file : Files, row : Channel]]
      BY <1>5, TypeFacts DEF Die
    <2>2. unlucky' \in SUBSET Nat /\ restored' \in Files
      BY <1>5, TypeFacts DEF Die, Database
    <2>3. raced' \in BOOLEAN /\ faults' \in BOOLEAN
      BY Zenon, <1>5 DEF Die, Fault
    <2> QED  BY <1>5, <2>1, <2>2, <2>3 DEF Die
  <1>6. CASE InstallRestored
    <2>1. restored \in Database
      BY <1>6 DEF InstallRestored, Files
    <2> QED  BY <1>6, <2>1, TypeFacts DEF InstallRestored, Database
  <1>7. CASE Second
    BY <1>7, FilesAssumption DEF Second, Time
  <1>8. ASSUME NEW p \in Proc, ReqStep(p) PROVE SysTypeOK'
    <2>1. CASE UpdateChannel(p)
      <3>1. PICK r \in Channel : Become(p, [NoReq EXCEPT !.pc = "update", !.row = r]) /\ asked' = r
        BY <2>1 DEF UpdateChannel, Database, Channel
      <3>2. [NoReq EXCEPT !.pc = "update", !.row = r]
              \in [pc : ReqPC, at : Time, file : Files, row : Channel]
        BY TypeFacts DEF ReqPC
      <3>3. req' \in [Proc -> [pc : ReqPC, at : Time, file : Files, row : Channel]]
        BY <3>1, <3>2 DEF Become
      <3>4. raced' \in BOOLEAN
        BY Zenon, <2>1 DEF UpdateChannel
      <3> QED  BY <2>1, <3>1, <3>3, <3>4 DEF UpdateChannel
    <2>2. CASE StoreChannel(p)
      <3>1. db' \in Database
        BY <2>2 DEF StoreChannel, Database
      <3> QED  BY <2>2, <3>1, ReqType DEF StoreChannel
    <2>3. CASE Backup(p)
      <3>1. [NoReq EXCEPT !.pc = "zip", !.at = now]
              \in [pc : ReqPC, at : Time, file : Files, row : Channel]
        BY TypeFacts DEF ReqPC
      <3>2. req' \in [Proc -> [pc : ReqPC, at : Time, file : Files, row : Channel]]
        BY <2>3, <3>1 DEF Backup, Become
      <3>3. copy' \in [Time -> Files]
        BY <2>3, TypeFacts DEF Backup
      <3> QED  BY <2>3, <3>2, <3>3 DEF Backup
    <2>4. CASE CreateZip(p)
      <3>1. Goto(p, "write") \/ Goto(p, "rmCopy")
        BY <2>4 DEF CreateZip
      <3>2. zip' \in [Time -> Files]
        BY <2>4, TypeFacts DEF CreateZip
      <3>3. faults' \in BOOLEAN
        BY Zenon, <2>4 DEF CreateZip, Fault
      <3> QED  BY <2>4, <3>1, <3>2, <3>3, ReqType DEF CreateZip, ReqPC
    <2>5. CASE WriteZip(p)
      <3>1. Goto(p, "serve") \/ Goto(p, "rmCopy")
        BY <2>5 DEF WriteZip
      <3>2. req[p].at \in Time /\ copy[req[p].at] \in Files
        OBVIOUS
      <3>3. zip' \in [Time -> Files]
        BY <2>5, <3>2, TypeFacts DEF WriteZip
      <3>4. faults' \in BOOLEAN
        BY Zenon, <2>5 DEF WriteZip, Fault
      <3> QED  BY <2>5, <3>1, <3>3, <3>4, ReqType DEF WriteZip, ReqPC
    <2>6. CASE ServeZip(p)
      <3>1. backups' \in SUBSET Files
        BY <2>6 DEF ServeZip
      <3> QED  BY <2>6, <3>1, ReqType DEF ServeZip, ReqPC
    <2>7. CASE RemoveZip(p)
      <3>1. zip' \in [Time -> Files]
        BY <2>7, TypeFacts DEF RemoveZip
      <3> QED  BY <2>7, <3>1, ReqType DEF RemoveZip, ReqPC
    <2>8. CASE RemoveCopy(p)
      <3>1. copy' \in [Time -> Files]
        BY <2>8, TypeFacts DEF RemoveCopy
      <3> QED  BY <2>8, <3>1, ReqType DEF RemoveCopy, ReqPC
    <2>9. CASE Restore(p)
      <3>1. PICK b \in backups : Become(p, [NoReq EXCEPT !.pc = "extract", !.file = b])
        BY <2>9 DEF Restore
      <3>2. [NoReq EXCEPT !.pc = "extract", !.file = b]
              \in [pc : ReqPC, at : Time, file : Files, row : Channel]
        BY TypeFacts DEF ReqPC
      <3>3. req' \in [Proc -> [pc : ReqPC, at : Time, file : Files, row : Channel]]
        BY <3>1, <3>2 DEF Become
      <3>4. mixed' \in BOOLEAN
        BY Zenon, <2>9 DEF Restore
      <3> QED  BY <2>9, <3>3, <3>4, TypeFacts DEF Restore
    <2>10. CASE Extract(p)
      <3>1. restored' \in Files
        BY <2>10, TypeFacts DEF Extract
      <3>2. faults' \in BOOLEAN
        BY Zenon, <2>10 DEF Extract, Fault
      <3> QED  BY <2>10, <3>1, <3>2, ReqType DEF Extract
    <2> QED
      BY <1>8, <2>1, <2>2, <2>3, <2>4, <2>5, <2>6, <2>7, <2>8, <2>9, <2>10 DEF ReqStep
  <1>9. CASE \/ Event \/ (\E c \in Conn : Connect(c))
             \/ (HubStep /\ UNCHANGED sysVars) \/ UNCHANGED vars
    <2>1. Quiet /\ now' = now
      BY <1>9 DEF Event, Connect, sysVars, vars, Quiet
    <2> QED  BY <2>1 DEF Quiet
  <1> QED
    BY <1>1, <1>2, <1>3, <1>4, <1>5, <1>6, <1>7, <1>8, <1>9 DEF Next

-----------------------------------------------------------------------------
\* Where the steps of a request find it and leave it.
LEMMA ReqMoves ==
    ASSUME SysTypeOK, NEW p \in Proc
    PROVE  /\ UpdateChannel(p) => req[p].pc = "idle" /\ req'[p].pc = "update" /\ req'[p].row = asked'
           /\ StoreChannel(p) => req[p].pc = "update" /\ req'[p].pc = "idle"
           /\ Backup(p) =>
                /\ req[p].pc = "idle"
                /\ IF copy[now] # None THEN UNCHANGED req
                   ELSE req'[p].pc = "zip" /\ req'[p].at = now
           /\ CreateZip(p) => req[p].pc = "zip" /\ req'[p].pc \in {"write", "rmCopy"}
           /\ WriteZip(p) => req[p].pc = "write" /\ req'[p].pc \in {"serve", "rmCopy"}
           /\ ServeZip(p) => req[p].pc = "serve" /\ req'[p].pc = "rmZip"
           /\ RemoveZip(p) => req[p].pc = "rmZip" /\ req'[p].pc = "rmCopy"
           /\ RemoveCopy(p) => req[p].pc = "rmCopy" /\ req'[p].pc = "idle"
           /\ Restore(p) => /\ req[p].pc = "idle" /\ req'[p].pc = "extract"
                            /\ req'[p].file \in backups
           /\ Extract(p) => req[p].pc = "extract" /\ req'[p].pc = "idle"
  <1> USE DEF SysTypeOK
  <1>1. ASSUME NEW r, Become(p, r) PROVE req'[p] = r
    BY <1>1 DEF Become
  <1>2. NoReq.pc = "idle"
    BY DEF NoReq
  <1>3. ASSUME UpdateChannel(p)
        PROVE  req[p].pc = "idle" /\ req'[p].pc = "update" /\ req'[p].row = asked'
    <2>1. PICK r \in Channel : Become(p, [NoReq EXCEPT !.pc = "update", !.row = r]) /\ asked' = r
      BY <1>3 DEF UpdateChannel, Database, Channel
    <2> QED  BY <1>1, <1>2, <1>3, <2>1 DEF UpdateChannel, Request, NoReq
  <1>4. ASSUME Backup(p)
        PROVE  /\ req[p].pc = "idle"
               /\ IF copy[now] # None THEN UNCHANGED req
                  ELSE req'[p].pc = "zip" /\ req'[p].at = now
    <2>1. req[p].pc = "idle"
      BY <1>2, <1>4 DEF Backup, Request
    <2>2. ASSUME copy[now] = None PROVE req'[p].pc = "zip" /\ req'[p].at = now
      <3>1. Become(p, [NoReq EXCEPT !.pc = "zip", !.at = now])
        BY <1>4, <2>2 DEF Backup
      <3> QED  BY <1>1, <3>1 DEF NoReq
    <2> QED  BY <1>4, <2>1, <2>2 DEF Backup
  <1>5. ASSUME Restore(p)
        PROVE  req[p].pc = "idle" /\ req'[p].pc = "extract" /\ req'[p].file \in backups
    <2>1. PICK b \in backups : Become(p, [NoReq EXCEPT !.pc = "extract", !.file = b])
      BY <1>5 DEF Restore
    <2> QED  BY <1>1, <1>2, <1>5, <2>1 DEF Restore, Request, NoReq
  <1>6. /\ CreateZip(p) => req[p].pc = "zip" /\ req'[p].pc \in {"write", "rmCopy"}
        /\ WriteZip(p) => req[p].pc = "write" /\ req'[p].pc \in {"serve", "rmCopy"}
    BY DEF CreateZip, WriteZip, Goto
  <1>7. /\ ServeZip(p) => req[p].pc = "serve" /\ req'[p].pc = "rmZip"
        /\ RemoveZip(p) => req[p].pc = "rmZip" /\ req'[p].pc = "rmCopy"
    BY DEF ServeZip, RemoveZip, Goto
  <1>8. /\ StoreChannel(p) => req[p].pc = "update" /\ req'[p].pc = "idle"
        /\ RemoveCopy(p) => req[p].pc = "rmCopy" /\ req'[p].pc = "idle"
        /\ Extract(p) => req[p].pc = "extract" /\ req'[p].pc = "idle"
    BY <1>1, <1>2 DEF StoreChannel, RemoveCopy, Extract, Return, Updating
  <1> QED  BY <1>3, <1>4, <1>5, <1>6, <1>7, <1>8

\* A step of a request is one of a process that is up, and leaves the other
\* requests and what start-up made alone.
LEMMA ReqFrame ==
    ASSUME SysTypeOK, DownIsIdle, NEW p \in Proc, ReqStep(p)
    PROVE  /\ boot = "up"
           /\ UNCHANGED <<hubVars, boot, starts, now, keys, shown, unlucky, unread>>
           /\ \A q \in Proc \ {p} : req'[q] = req[q]
  <1>1. boot = "up"
    <2>1. CASE UpdateChannel(p) \/ Backup(p) \/ Restore(p)
      BY <2>1 DEF UpdateChannel, Backup, Restore, Request
    <2>2. CASE ~(UpdateChannel(p) \/ Backup(p) \/ Restore(p))
      <3>1. req[p].pc # "idle"
        BY <2>2, ReqMoves DEF ReqStep
      <3> QED  BY <3>1 DEF DownIsIdle, NoReq
    <2> QED  BY <2>1, <2>2
  <1>2. UNCHANGED <<hubVars, boot, starts, now, keys, shown, unlucky, unread>>
    BY DEF ReqStep, UpdateChannel, StoreChannel, Backup, CreateZip, WriteZip, ServeZip,
           RemoveZip, RemoveCopy, Restore, Extract
  <1>3. \A q \in Proc \ {p} : req'[q] = req[q]
    BY DEF SysTypeOK, ReqStep, UpdateChannel, StoreChannel, Backup, CreateZip, WriteZip,
           ServeZip, RemoveZip, RemoveCopy, Restore, Extract, Return, Become, Goto
  <1> QED  BY <1>1, <1>2, <1>3

LEMMA DownIsIdleStep == IInv /\ [Next]_vars => DownIsIdle'
  <1> SUFFICES ASSUME IInv, [Next]_vars PROVE DownIsIdle'
    OBVIOUS
  <1> USE DEF IInv
  <1>1. CASE Start \/ EnsureAPIKey \/ EnsureDefaultAdmin \/ LogAdminCredentials \/ InstallRestored
             \/ Second
    BY <1>1 DEF Start, EnsureAPIKey, EnsureDefaultAdmin, LogAdminCredentials, InstallRestored,
                Second, DownIsIdle
  <1>2. CASE Die
    BY <1>2 DEF Die, DownIsIdle
  <1>3. ASSUME NEW p \in Proc, ReqStep(p) PROVE DownIsIdle'
    BY <1>3, ReqFrame DEF DownIsIdle
  <1>4. CASE \/ Event \/ (\E c \in Conn : Connect(c))
             \/ (HubStep /\ UNCHANGED sysVars) \/ UNCHANGED vars
    BY <1>4 DEF Event, Connect, sysVars, vars, DownIsIdle
  <1> QED  BY <1>1, <1>2, <1>3, <1>4 DEF Next

LEMMA HubStepOf == [Next]_vars => [HubNext]_hubVars
  <1> SUFFICES ASSUME [Next]_vars PROVE [HubNext]_hubVars
    OBVIOUS
  <1>1. CASE Start \/ EnsureAPIKey \/ EnsureDefaultAdmin \/ LogAdminCredentials \/ InstallRestored
             \/ Second
    BY <1>1 DEF Start, EnsureAPIKey, EnsureDefaultAdmin, LogAdminCredentials, InstallRestored, Second
  <1>2. ASSUME NEW p \in Proc, ReqStep(p) PROVE UNCHANGED hubVars
    BY <1>2 DEF ReqStep, UpdateChannel, StoreChannel, Backup, CreateZip, WriteZip, ServeZip,
                RemoveZip, RemoveCopy, Restore, Extract
  <1>3. CASE Die
    BY <1>3 DEF Die, HubNext
  <1>4. CASE Event \/ (\E c \in Conn : Connect(c))
    BY <1>4 DEF Event, Connect, HubNext
  <1>5. CASE HubStep /\ UNCHANGED sysVars
    BY <1>5 DEF HubNext
  <1>6. CASE UNCHANGED vars
    BY <1>6 DEF vars
  <1> QED  BY <1>1, <1>2, <1>3, <1>4, <1>5, <1>6 DEF Next

-----------------------------------------------------------------------------
\* Once something has failed, it has.
LEMMA FaultsStay == SysTypeOK /\ [Next]_vars => (faults => faults')
  BY DEF SysTypeOK, Next, Start, EnsureAPIKey, EnsureDefaultAdmin, LogAdminCredentials, Die,
         InstallRestored, Second, Event, Connect, ReqStep, UpdateChannel, StoreChannel, Backup,
         CreateZip, WriteZip, ServeZip, RemoveZip, RemoveCopy, Restore, Extract, Fault,
         ShowKey, sysVars, vars

LEMMA ArchivesStep == IInv /\ SysTypeOK' /\ [Next]_vars => Archives'
  <1> SUFFICES ASSUME IInv, SysTypeOK', [Next]_vars PROVE Archives'
    OBVIOUS
  <1> USE DEF IInv, SysTypeOK
  <1>0. faults => faults'
    BY FaultsStay
  \* Nobody's files change but by a request.
  <1>1. CASE ~(\E p \in Proc : ReqStep(p)) /\ ~Die
    <2>1. UNCHANGED <<copy, zip, backups, req>>
      BY <1>1 DEF Next, Start, EnsureAPIKey, EnsureDefaultAdmin, LogAdminCredentials,
                  InstallRestored, Second, Event, Connect, sysVars, vars
    <2> QED  BY <1>0, <2>1 DEF Archives, Holder
  <1>2. CASE Die
    BY <1>0, <1>2 DEF Die, Archives, Holder, NoReq
  <1>3. ASSUME NEW p \in Proc, ReqStep(p) PROVE Archives'
    <2>0. \A q \in Proc \ {p} : req'[q] = req[q]
      BY <1>3, ReqFrame
    <2>1. CASE UpdateChannel(p) \/ StoreChannel(p) \/ Restore(p) \/ Extract(p)
      <3>1. UNCHANGED <<copy, zip, backups>> /\ req'[p].pc \in {"idle", "update", "extract"}
        BY <2>1, ReqMoves DEF UpdateChannel, StoreChannel, Restore, Extract
      <3> QED  BY SMTT(30), <1>0, <2>0, <3>1 DEF Archives, Holder
    <2>2. CASE Backup(p)
      <3>1. CASE copy[now] # None
        BY <1>0, <2>2, <3>1 DEF Backup, Archives, Holder
      <3>2. CASE copy[now] = None
        <4>1. /\ copy' = [copy EXCEPT ![now] = db] /\ UNCHANGED <<zip, backups>>
              /\ req'[p].pc = "zip" /\ req'[p].at = now
          BY <2>2, <3>2, ReqMoves DEF Backup
        <4>2. \A q \in Proc : Holder(q) => req[q].at # now
          BY <3>2 DEF Archives
        <4>3. db # None /\ db # Cut
          BY FilesAssumption
        <4>4. \A t \in Time : copy'[t] # Cut
          BY <4>1, <4>3 DEF Archives
        <4>5. \A q \in Proc : Holder(q)' => copy'[req'[q].at] # None
          BY <2>0, <4>1, <4>3 DEF Archives, Holder
        <4>6. \A q, r \in Proc : Holder(q)' /\ Holder(r)' /\ req'[q].at = req'[r].at => q = r
          BY <2>0, <4>1, <4>2 DEF Archives, Holder
        <4>7. /\ \A q \in Proc : req'[q].pc = "serve" =>
                    zip'[req'[q].at] # None /\ (zip'[req'[q].at] = Cut => faults')
              /\ None \notin backups' /\ (Cut \in backups' => faults')
          BY <1>0, <2>0, <4>1 DEF Archives
        <4> QED  BY <4>4, <4>5, <4>6, <4>7 DEF Archives
      <3> QED  BY <3>1, <3>2
    <2>3. CASE CreateZip(p) \/ WriteZip(p) \/ ServeZip(p) \/ RemoveZip(p)
      <3>1. copy' = copy /\ Holder(p) /\ req'[p].at = req[p].at
            /\ req'[p].pc \in {"write", "rmCopy", "serve", "rmZip"}
        BY <2>3 DEF CreateZip, WriteZip, ServeZip, RemoveZip, Goto, Holder
      <3>2. \A q \in Proc \ {p} : req[q].pc = "serve" => zip'[req[q].at] = zip[req[q].at]
        BY <2>3, <3>1 DEF CreateZip, WriteZip, ServeZip, RemoveZip, Archives, Holder
      <3>3. req'[p].pc = "serve" =>
              zip'[req[p].at] # None /\ (zip'[req[p].at] = Cut => faults')
        <4>1. copy[req[p].at] # Cut /\ None # Cut
          BY FilesAssumption DEF Archives
        <4>2. CASE WriteZip(p)
          BY <4>1, <4>2 DEF WriteZip, Goto, Fault
        <4>3. CASE CreateZip(p) \/ ServeZip(p) \/ RemoveZip(p)
          BY <4>3 DEF CreateZip, ServeZip, RemoveZip, Goto
        <4> QED  BY <2>3, <4>2, <4>3
      <3>4. None \notin backups' /\ (Cut \in backups' => faults')
        <4>1. CASE ServeZip(p)
          BY <1>0, <4>1 DEF ServeZip, Archives
        <4>2. CASE CreateZip(p) \/ WriteZip(p) \/ RemoveZip(p)
          BY <1>0, <4>2 DEF CreateZip, WriteZip, RemoveZip, Archives
        <4> QED  BY <2>3, <4>1, <4>2
      <3>5. \A q \in Proc : Holder(q)' => Holder(q) /\ req'[q].at = req[q].at
        BY <2>0, <3>1 DEF Holder
      <3>6. \A q \in Proc : req'[q].pc = "serve" =>
              zip'[req'[q].at] # None /\ (zip'[req'[q].at] = Cut => faults')
        BY <1>0, <2>0, <3>1, <3>2, <3>3 DEF Archives
      <3>7. \A t \in Time : copy'[t] # Cut
        BY <3>1 DEF Archives
      <3>8. \A q \in Proc : Holder(q)' => copy'[req'[q].at] # None
        BY <3>1, <3>5 DEF Archives
      <3>9. \A q, r \in Proc : Holder(q)' /\ Holder(r)' /\ req'[q].at = req'[r].at => q = r
        BY <3>5 DEF Archives
      <3> QED  BY <3>4, <3>6, <3>7, <3>8, <3>9 DEF Archives
    <2>4. CASE RemoveCopy(p)
      <3>1. /\ copy' = [copy EXCEPT ![req[p].at] = None] /\ UNCHANGED <<zip, backups>>
            /\ req'[p].pc = "idle" /\ Holder(p)
        BY <2>4 DEF RemoveCopy, Return, Become, NoReq, Holder
      <3>2. \A q \in Proc \ {p} : Holder(q) => req[q].at # req[p].at
        BY <3>1 DEF Archives
      <3>3. \A t \in Time : copy'[t] # Cut
        BY <3>1, FilesAssumption DEF Archives
      <3>4. \A q \in Proc : Holder(q)' => q # p /\ Holder(q) /\ req'[q] = req[q]
        BY <2>0, <3>1 DEF Holder
      <3>5. \A q \in Proc : Holder(q)' => copy'[req'[q].at] # None
        BY <3>1, <3>2, <3>4 DEF Archives
      <3>6. \A q, r \in Proc : Holder(q)' /\ Holder(r)' /\ req'[q].at = req'[r].at => q = r
        BY <3>4 DEF Archives
      <3>7. /\ \A q \in Proc : req'[q].pc = "serve" =>
                  zip'[req'[q].at] # None /\ (zip'[req'[q].at] = Cut => faults')
            /\ None \notin backups' /\ (Cut \in backups' => faults')
        BY <1>0, <2>0, <3>1 DEF Archives
      <3> QED  BY <3>3, <3>5, <3>6, <3>7 DEF Archives
    <2> QED  BY <1>3, <2>1, <2>2, <2>3, <2>4 DEF ReqStep
  <1> QED  BY <1>1, <1>2, <1>3

LEMMA RestoresStep == IInv /\ SysTypeOK' /\ [Next]_vars => Restores'
  <1> SUFFICES ASSUME IInv, SysTypeOK', [Next]_vars PROVE Restores'
    OBVIOUS
  <1> USE DEF IInv, SysTypeOK
  <1>1. CASE ~(\E p \in Proc : ReqStep(p)) /\ ~Die /\ ~InstallRestored
    <2>1. UNCHANGED <<restored, req, mixed>> /\ (faults => faults')
      BY <1>1 DEF Next, Start, EnsureAPIKey, EnsureDefaultAdmin, LogAdminCredentials,
                  ShowKey, Fault, Second, Event, Connect, sysVars, vars
    <2> QED  BY Zenon, <2>1 DEF Restores, Extracting
  <1>2. CASE Die
    <2>1. Extracting' = {} /\ faults'
      BY <1>2 DEF Die, Extracting, NoReq, Fault
    <2> QED  BY Zenon, <2>1 DEF Restores
  <1>3. CASE InstallRestored
    <2>1. UNCHANGED <<req, mixed>> /\ restored' # Cut
      BY <1>3, FilesAssumption DEF InstallRestored
    <2> QED  BY Zenon, <2>1 DEF Restores, Extracting
  <1>4. ASSUME NEW p \in Proc, ReqStep(p) PROVE Restores'
    <2>0. \A q \in Proc \ {p} : req'[q] = req[q]
      BY <1>4, ReqFrame
    <2>1. CASE Restore(p)
      <3>1. p \in Extracting' /\ Extracting' = Extracting \cup {p} /\ p \notin Extracting
            /\ req'[p].file \in Database
        <4>1. PICK b \in backups \ {Cut} : Become(p, [NoReq EXCEPT !.pc = "extract", !.file = b])
          BY <2>1 DEF Restore
        <4>2. b \in Database
          BY DEF Archives, Files
        <4>3. req'[p].pc = "extract" /\ req'[p].file = b
          BY <4>1 DEF Become, NoReq
        <4>4. req[p].pc = "idle"
          BY <2>1 DEF Restore, Request, NoReq
        <4> QED  BY <2>0, <4>2, <4>3, <4>4 DEF Extracting
      <3>2. mixed' <=> Extracting # {}
        BY Zenon, <2>1 DEF Restore, Extracting
      <3>3. \A q \in Extracting' : req'[q].file \in Database
        BY <2>0, <3>1 DEF Restores, Extracting
      <3>4. \A q, r \in Extracting' : q = r \/ mixed'
        BY <3>1, <3>2
      <3> QED  BY <3>1, <3>3, <3>4 DEF Restores
    <2>2. CASE Extract(p)
      <3>1. Extracting' = Extracting \ {p} /\ mixed' = mixed /\ p \in Extracting
        BY <2>0, <2>2 DEF Extract, Return, Become, NoReq, Extracting
      <3>2. restored' = Cut => faults' \/ mixed'
        BY <2>2, <3>1, FilesAssumption DEF Extract, Restores, Fault
      <3> QED  BY <2>0, <3>1, <3>2 DEF Restores, Extracting
    <2>3. CASE ~Restore(p) /\ ~Extract(p)
      <3>1. UNCHANGED <<restored, mixed>> /\ (faults => faults')
        BY <1>4, <2>3 DEF ReqStep, UpdateChannel, StoreChannel, Backup, CreateZip, WriteZip,
                          ServeZip, RemoveZip, RemoveCopy, Fault
      <3>2. req[p].pc # "extract" /\ req'[p].pc # "extract"
        BY <1>4, <2>3, ReqMoves DEF ReqStep
      <3>3. Extracting' = Extracting /\ \A q \in Extracting : req'[q] = req[q]
        BY <2>0, <3>2 DEF Extracting
      <3> QED  BY Zenon, <3>1, <3>3 DEF Restores
    <2> QED  BY <2>1, <2>2, <2>3
  <1> QED  BY <1>1, <1>2, <1>3, <1>4

LEMMA ChannelsStep == IInv /\ SysTypeOK' /\ [Next]_vars => Channels'
  <1> SUFFICES ASSUME IInv, SysTypeOK', [Next]_vars PROVE Channels'
    OBVIOUS
  <1> USE DEF IInv, SysTypeOK
  <1>1. CASE ~(\E p \in Proc : ReqStep(p)) /\ ~Die /\ ~InstallRestored
    <2>1. UNCHANGED <<req, asked, raced>>
      BY <1>1 DEF Next, Start, EnsureAPIKey, EnsureDefaultAdmin, LogAdminCredentials,
                  Second, Event, Connect, sysVars, vars
    <2>2. db'.channel = db.channel
      BY <1>1 DEF Next, Start, EnsureAPIKey, EnsureDefaultAdmin, LogAdminCredentials,
                  Second, Event, Connect, sysVars, vars, Database
    <2> QED  BY <2>1, <2>2 DEF Channels, Updating
  <1>2. CASE Die
    <2>1. Updating' = {} /\ UNCHANGED <<asked, db>>
      BY <1>2 DEF Die, Updating, NoReq
    <2>2. raced' \/ (raced' = raced /\ Updating = {})
      BY Zenon, <1>2 DEF Die, Updating
    <2> QED  BY <2>1, <2>2 DEF Channels
  <1>3. CASE InstallRestored
    <2>1. Updating' = {}
      BY <1>3 DEF InstallRestored, Updating, DownIsIdle, NoReq
    <2>2. db'.channel = asked'
      BY <1>3 DEF InstallRestored
    <2> QED  BY <2>1, <2>2 DEF Channels
  <1>4. ASSUME NEW p \in Proc, ReqStep(p) PROVE Channels'
    <2>0. \A q \in Proc \ {p} : req'[q] = req[q]
      BY <1>4, ReqFrame
    <2>1. CASE UpdateChannel(p)
      <3>1. Updating' = Updating \cup {p} /\ req'[p].row = asked'
        BY <2>0, <2>1, ReqMoves DEF Updating
      <3>2. raced' <=> raced \/ Updating # {}
        BY Zenon, <2>1 DEF UpdateChannel
      <3>3. CASE raced'
        BY <3>3 DEF Channels
      <3>4. CASE Updating = {}
        BY <3>1, <3>4 DEF Channels
      <3> QED  BY <3>2, <3>3, <3>4
    <2>2. CASE StoreChannel(p)
      <3>1. Updating' = Updating \ {p} /\ p \in Updating /\ UNCHANGED <<asked, raced>>
        BY <2>0, <2>2, ReqMoves DEF Updating, StoreChannel
      <3>2. db'.channel = req[p].row
        BY <2>2 DEF StoreChannel, Database
      <3> QED  BY <3>1, <3>2 DEF Channels
    <2>3. CASE ~UpdateChannel(p) /\ ~StoreChannel(p)
      <3>1. UNCHANGED <<db, asked, raced>>
        BY <1>4, <2>3 DEF ReqStep, Backup, CreateZip, WriteZip, ServeZip, RemoveZip, RemoveCopy,
                          Restore, Extract
      <3>2. req[p].pc # "update" /\ req'[p].pc # "update"
        BY <1>4, <2>3, ReqMoves DEF ReqStep
      <3>3. Updating' = Updating /\ \A q \in Updating : req'[q] = req[q]
        BY <2>0, <3>2 DEF Updating
      <3> QED  BY <3>1, <3>3 DEF Channels
    <2> QED  BY <2>1, <2>2, <2>3
  <1> QED  BY <1>1, <1>2, <1>3, <1>4

-----------------------------------------------------------------------------
\* Files are only made from the database, of a process that is up, and from
\* one another.
LEMMA CopiesStep ==
    ASSUME SysTypeOK, DownIsIdle, SysTypeOK', [Next]_vars
    PROVE  \/ Copies' \subseteq Copies
           \/ boot = "up" /\ Copies' \subseteq Copies \cup {db}
  <1> USE DEF SysTypeOK
  <1>1. CASE ~(\E p \in Proc : ReqStep(p)) /\ ~Die /\ ~InstallRestored
    <2>1. UNCHANGED <<copy, zip, restored, backups, req>>
      BY <1>1 DEF Next, Start, EnsureAPIKey, EnsureDefaultAdmin, LogAdminCredentials,
                  Second, Event, Connect, sysVars, vars
    <2> QED  BY <2>1 DEF Copies
  <1>2. CASE Die
    <2>1. \A p \in Proc : req'[p].file = None
      BY <1>2 DEF Die, NoReq
    <2>2. UNCHANGED <<copy, zip, backups>> /\ restored' \in {Cut, restored}
      BY <1>2 DEF Die
    <2> QED  BY <2>1, <2>2 DEF Copies
  <1>3. CASE InstallRestored
    <2>1. UNCHANGED <<copy, zip, backups, req>> /\ restored' = None
      BY <1>3 DEF InstallRestored
    <2> QED  BY <2>1 DEF Copies
  <1>4. ASSUME NEW p \in Proc, ReqStep(p)
        PROVE  boot = "up" /\ Copies' \subseteq Copies \cup {db}
    <2>0. boot = "up" /\ \A q \in Proc \ {p} : req'[q] = req[q]
      BY <1>4, ReqFrame
    <2>1. CASE UpdateChannel(p) \/ StoreChannel(p) \/ Backup(p)
      <3>1. UNCHANGED <<zip, restored, backups>> /\ \A t \in Time : copy'[t] \in {copy[t], db}
        BY <2>1 DEF UpdateChannel, StoreChannel, Backup
      <3>2. req'[p].file \in {req[p].file, None}
        <4>1. CASE UpdateChannel(p)
          BY <4>1 DEF UpdateChannel, Become, NoReq
        <4>2. CASE StoreChannel(p)
          BY <4>2 DEF StoreChannel, Become, Return, NoReq
        <4>3. CASE Backup(p) /\ copy[now] # None
          BY <4>3 DEF Backup
        <4>4. CASE Backup(p) /\ copy[now] = None
          <5>1. Become(p, [NoReq EXCEPT !.pc = "zip", !.at = now])
            BY <4>4 DEF Backup
          <5> QED  BY <5>1 DEF Become, NoReq
        <4> QED  BY <2>1, <4>1, <4>2, <4>3, <4>4
      <3> QED  BY <2>0, <3>1, <3>2 DEF Copies
    <2>2. CASE CreateZip(p) \/ WriteZip(p) \/ ServeZip(p) \/ RemoveZip(p) \/ RemoveCopy(p)
      <3>1. restored' = restored /\ \A t \in Time : copy'[t] \in {copy[t], None}
        BY <2>2 DEF CreateZip, WriteZip, ServeZip, RemoveZip, RemoveCopy
      <3>2. \A t \in Time : zip'[t] \in {zip[t], copy[t], None, Cut}
        BY <2>2 DEF CreateZip, WriteZip, ServeZip, RemoveZip, RemoveCopy
      <3>3. \A b \in backups' : b \in backups \/ \E t \in Time : b = zip[t]
        BY <2>2 DEF CreateZip, WriteZip, ServeZip, RemoveZip, RemoveCopy
      <3>4. req'[p].file \in {req[p].file, None}
        BY <2>2 DEF CreateZip, WriteZip, ServeZip, RemoveZip, RemoveCopy, Goto, Become, Return, NoReq
      <3> QED  BY <2>0, <3>1, <3>2, <3>3, <3>4 DEF Copies
    <2>3. CASE Restore(p)
      <3>1. UNCHANGED <<copy, zip, backups>> /\ restored' = Cut /\ req'[p].file \in backups
        BY <2>3, ReqMoves DEF Restore
      <3> QED  BY <2>0, <3>1 DEF Copies
    <2>4. CASE Extract(p)
      <3>1. UNCHANGED <<copy, zip, backups>> /\ restored' \in {Cut, req[p].file}
        BY <2>4 DEF Extract
      <3>2. req'[p].file = None
        BY <2>4 DEF Extract, Return, Become, NoReq
      <3> QED  BY <2>0, <3>1, <3>2 DEF Copies
    <2> QED  BY <1>4, <2>1, <2>2, <2>3, <2>4 DEF ReqStep
  <1> QED  BY <1>1, <1>2, <1>3, <1>4

\* No step but a start that cannot read the key brings a new key.
LEMMA KeysKept ==
    ASSUME IInv, SysTypeOK', Copies' \subseteq Copies \cup {db},
           keys' \subseteq keys \cup {db.key}, db'.key \in {db.key} \cup {d.key : d \in Copies}
    PROVE  KeysInUse' \subseteq KeysInUse
  BY DEF KeysInUse

LEMMA OneMore ==
    ASSUME NEW S, IsFiniteSet(S), NEW x
    PROVE  IsFiniteSet(S \cup {x}) /\ Cardinality(S \cup {x}) <= Cardinality(S) + 1
  <1>1. Cardinality(S) \in Nat
    BY FS_CardinalityType
  <1>2. CASE x \in S
    <2>1. S \cup {x} = S
      BY <1>2
    <2>2. IsFiniteSet(S \cup {x}) /\ Cardinality(S \cup {x}) = Cardinality(S)
      BY <2>1, Zenon
    <2> QED  BY <1>1, <2>2
  <1>3. CASE x \notin S
    BY <1>1, <1>3, FS_AddElement
  <1> QED  BY <1>2, <1>3

\* What LoginsStep has to show of a step that leaves start-up alone.
LEMMA LoginsKept ==
    ASSUME IInv, SysTypeOK', UNCHANGED <<boot, starts, keys, shown, unlucky, unread>>,
           db'.key = db.key, db'.admin = db.admin,
           \/ Copies' \subseteq Copies
           \/ boot = "up" /\ Copies' \subseteq Copies \cup {db}
    PROVE  Logins'
  <1> USE DEF IInv, SysTypeOK
  <1>1. KeysInUse' \subseteq KeysInUse
    BY KeysKept
  <1>2. IsFiniteSet(KeysInUse') /\ Cardinality(KeysInUse') <= Cardinality(KeysInUse)
    BY <1>1, FS_Subset DEF Logins
  <1>3. Cardinality(KeysInUse') \in Nat /\ Cardinality(KeysInUse) \in Nat
    BY <1>2, FS_CardinalityType DEF Logins
  <1>4. \A d \in Copies' : d.key # 0 /\ d.admin = db'.admin /\ d.admin # 0
    BY DEF Logins
  <1>5. Cardinality(KeysInUse') <= 1 + unread'
    BY <1>2, <1>3 DEF Logins
  <1> QED  BY <1>1, <1>2, <1>4, <1>5 DEF Logins

LEMMA LoginsStep == IInv /\ SysTypeOK' /\ [Next]_vars => Logins'
  <1> SUFFICES ASSUME IInv, SysTypeOK', [Next]_vars PROVE Logins'
    OBVIOUS
  <1> USE DEF IInv, SysTypeOK
  <1>0. \/ Copies' \subseteq Copies
        \/ boot = "up" /\ Copies' \subseteq Copies \cup {db}
    BY CopiesStep
  <1>1. CASE \/ Second \/ Event \/ (\E c \in Conn : Connect(c))
             \/ (HubStep /\ UNCHANGED sysVars) \/ UNCHANGED vars
    <2>1. UNCHANGED <<boot, starts, db, keys, shown, unlucky, unread>>
      BY <1>1 DEF Second, Event, Connect, sysVars, vars
    <2> QED  BY <1>0, <2>1, LoginsKept
  <1>2. ASSUME NEW p \in Proc, ReqStep(p) PROVE Logins'
    <2>1. UNCHANGED <<boot, starts, keys, shown, unlucky, unread>>
      BY <1>2, ReqFrame
    <2>2. db'.key = db.key /\ db'.admin = db.admin
      BY <1>2 DEF ReqStep, UpdateChannel, StoreChannel, Backup, CreateZip, WriteZip, ServeZip,
                  RemoveZip, RemoveCopy, Restore, Extract, Database
    <2> QED  BY <1>0, <2>1, <2>2, LoginsKept
  \* The other steps, whose copies are those there were.
  <1>3. ASSUME boot # "up" \/ Die, keys' \subseteq keys \cup {db.key},
               db'.key \in {db.key} \cup {d.key : d \in Copies}, unread' = unread
        PROVE  /\ KeysInUse' \subseteq KeysInUse /\ IsFiniteSet(KeysInUse')
               /\ Cardinality(KeysInUse') <= 1 + unread'
    <2>1. KeysInUse' \subseteq KeysInUse
      BY <1>0, <1>3, KeysKept
    <2>2. IsFiniteSet(KeysInUse') /\ Cardinality(KeysInUse') <= Cardinality(KeysInUse)
      BY <2>1, FS_Subset DEF Logins
    <2>3. Cardinality(KeysInUse') \in Nat /\ Cardinality(KeysInUse) \in Nat
      BY <2>2, FS_CardinalityType DEF Logins
    <2> QED  BY <1>3, <2>1, <2>2, <2>3 DEF Logins
  <1>4. CASE Start
    <2>1. Copies' \subseteq Copies
      BY <1>0, <1>4 DEF Start
    <2> QED  BY <1>3, <1>4, <2>1 DEF Start, Logins
  <1>5. CASE EnsureAPIKey
    <2>1. Copies' = Copies /\ keys' = keys /\ starts # 0
      BY <1>5 DEF EnsureAPIKey, Copies, Logins
    <2>2. CASE db' = db /\ db.key # 0 /\ unread' = unread
      <3>1. /\ KeysInUse' \subseteq KeysInUse /\ IsFiniteSet(KeysInUse')
            /\ Cardinality(KeysInUse') <= 1 + unread'
        BY <1>3, <1>5, <2>1, <2>2 DEF EnsureAPIKey
      <3> QED  BY <1>5, <2>1, <2>2, <3>1 DEF EnsureAPIKey, Logins
    <2>3. CASE db' = [db EXCEPT !.key = starts] /\ (db.key = 0 \/ unread' = unread + 1)
      <3>1. KeysInUse' \subseteq KeysInUse \cup {starts} /\ db'.key = starts /\ db'.admin = db.admin
        BY <2>1, <2>3 DEF KeysInUse, Database
      <3>2. /\ IsFiniteSet(KeysInUse \cup {starts})
            /\ Cardinality(KeysInUse \cup {starts}) <= Cardinality(KeysInUse) + 1
        BY OneMore DEF Logins
      <3>3. /\ IsFiniteSet(KeysInUse')
            /\ Cardinality(KeysInUse') <= Cardinality(KeysInUse \cup {starts})
        BY <3>1, <3>2, FS_Subset
      <3>4. /\ Cardinality(KeysInUse') \in Nat /\ Cardinality(KeysInUse) \in Nat
            /\ Cardinality(KeysInUse \cup {starts}) \in Nat
        BY <3>2, <3>3, FS_CardinalityType DEF Logins
      <3>5. Cardinality(KeysInUse') <= 1 + unread'
        <4>1. CASE db.key = 0
          BY <1>5, <3>2, <3>3, <3>4, <4>1, FS_EmptySet DEF EnsureAPIKey, Logins
        <4>2. CASE unread' = unread + 1
          BY <3>2, <3>3, <3>4, <4>2 DEF Logins
        <4> QED  BY <2>3, <4>1, <4>2
      <3> QED  BY <1>5, <2>1, <3>1, <3>3, <3>5 DEF EnsureAPIKey, Logins
    <2> QED  BY <1>5, <2>2, <2>3 DEF EnsureAPIKey
  <1>6. CASE EnsureDefaultAdmin
    <2>1. Copies' = Copies /\ db'.key = db.key /\ db.key # 0 /\ keys' \subseteq keys \cup {db.key}
          /\ boot # "up"
      BY <1>6 DEF EnsureDefaultAdmin, ShowKey, Copies, Database, Logins
    <2>2. /\ KeysInUse' \subseteq KeysInUse /\ IsFiniteSet(KeysInUse')
          /\ Cardinality(KeysInUse') <= 1 + unread'
      BY <1>3, <1>6, <2>1 DEF EnsureDefaultAdmin
    <2>3. CASE db.admin = 0
      <3>1. Copies = {} /\ shown = {} /\ db'.admin = starts /\ starts # 0
        BY <1>6, <2>3 DEF EnsureDefaultAdmin, Logins, Database
      <3> QED  BY <1>6, <2>1, <2>2, <2>3, <3>1 DEF EnsureDefaultAdmin, Logins
    <2>4. CASE db.admin # 0
      BY <1>6, <2>1, <2>2, <2>4 DEF EnsureDefaultAdmin, Logins
    <2> QED  BY <2>3, <2>4
  <1>7. CASE LogAdminCredentials
    <2>1. Copies' = Copies /\ db' = db /\ db.key # 0 /\ keys' \subseteq keys \cup {db.key}
      BY <1>7 DEF LogAdminCredentials, ShowKey, Copies, Logins
    <2>2. /\ KeysInUse' \subseteq KeysInUse /\ IsFiniteSet(KeysInUse')
          /\ Cardinality(KeysInUse') <= 1 + unread'
      BY <1>3, <1>7, <2>1 DEF LogAdminCredentials
    <2> QED  BY <1>7, <2>1, <2>2 DEF LogAdminCredentials, Logins
  <1>8. CASE Die
    <2>1. \A p \in Proc : req'[p].file = None
      BY <1>8 DEF Die, NoReq
    <2>2. UNCHANGED <<copy, zip, backups>> /\ restored' \in {Cut, restored}
      BY <1>8 DEF Die
    <2>3. Copies' \subseteq Copies
      BY <2>1, <2>2 DEF Copies
    <2>4. /\ KeysInUse' \subseteq KeysInUse /\ IsFiniteSet(KeysInUse')
          /\ Cardinality(KeysInUse') <= 1 + unread'
      BY <1>3, <1>8 DEF Die
    <2> QED  BY <1>8, <2>3, <2>4 DEF Die, Logins
  <1>9. CASE InstallRestored
    <2>1. restored \in Copies /\ db' = restored /\ Copies' \subseteq Copies /\ boot = "down"
      BY <1>0, <1>9 DEF InstallRestored, Copies
    <2>2. db'.admin = db.admin /\ db'.key # 0 /\ db'.key \in {d.key : d \in Copies}
      BY <2>1 DEF Logins
    <2>3. /\ KeysInUse' \subseteq KeysInUse /\ IsFiniteSet(KeysInUse')
          /\ Cardinality(KeysInUse') <= 1 + unread'
      BY <1>3, <1>9, <2>1, <2>2 DEF InstallRestored
    <2> QED  BY <1>9, <2>1, <2>2, <2>3 DEF InstallRestored, Logins
  <1> QED
    BY <1>1, <1>2, <1>4, <1>5, <1>6, <1>7, <1>8, <1>9 DEF Next

-----------------------------------------------------------------------------
LEMMA InitIInv == Init => IInv
  <1> SUFFICES ASSUME Init PROVE IInv
    OBVIOUS
  <1>1. HubInv
    BY HubInitInv DEF Init
  <1>2. SysTypeOK
    BY TypeFacts DEF Init, SysTypeOK, FirstDb, Database
  <1>3. DownIsIdle /\ Archives
    BY FilesAssumption DEF Init, DownIsIdle, Archives, Holder, NoReq
  <1>4. Restores /\ Channels
    BY FilesAssumption DEF Init, Restores, Extracting, Channels, Updating, NoReq, FirstDb
  <1>5. Logins
    <2>1. Copies = {} /\ KeysInUse = {}
      BY DEF Init, Copies, KeysInUse, FirstDb, NoReq
    <2> QED  BY <2>1, FS_EmptySet DEF Init, Logins, FirstDb
  <1> QED  BY <1>1, <1>2, <1>3, <1>4, <1>5 DEF IInv

\* The inductive invariant: the types, the hub, and who holds which file.
THEOREM ServerInvariant == Spec => []IInv
  <1>1. IInv /\ [Next]_vars => IInv'
    <2> SUFFICES ASSUME IInv, [Next]_vars PROVE IInv'
      OBVIOUS
    <2>1. SysTypeOK'
      BY SysTypeStep DEF IInv
    <2>2. HubInv'
      BY HubStepOf, HubStepInv DEF IInv
    <2> QED
      BY <2>1, <2>2, DownIsIdleStep, ArchivesStep, RestoresStep, ChannelsStep, LoginsStep
         DEF IInv
  <1> QED  BY <1>1, InitIInv, PTL DEF Spec

\* The hub: no goroutine panics on a closed channel, and no client of it loses
\* a message without being on its way out, for any number of connections and
\* any capacity of their channels.
THEOREM HubIsSafe == Spec => []HubSafe
  <1>1. IInv => HubSafe
    BY DEF IInv, HubInv
  <1> QED  BY <1>1, ServerInvariant, PTL

\* Over any number of starts, deaths and restores, the admin has one password
\* and the server one key, but for starts that could not read it.
THEOREM LoginsStay == Spec => []LoginsOutlive
  <1>1. IInv => LoginsOutlive
    <2> SUFFICES ASSUME IInv PROVE LoginsOutlive
      OBVIOUS
    <2> USE DEF IInv
    <2> DEFINE S == keys \cup ({db.key} \ {0})
    <2>1. S \subseteq KeysInUse /\ IsFiniteSet(KeysInUse)
      BY DEF KeysInUse, Logins
    <2>2. IsFiniteSet(S) /\ Cardinality(S) <= Cardinality(KeysInUse)
      BY <2>1, FS_Subset
    <2>3. Cardinality(S) \in Nat /\ Cardinality(KeysInUse) \in Nat
      BY <2>1, <2>2, FS_CardinalityType
    <2>4. Cardinality(S) <= 1 + unread
      BY <2>2, <2>3 DEF Logins, SysTypeOK
    <2>5. Cardinality(shown) <= 1
      <3>1. IsFiniteSet({db.admin}) /\ Cardinality({db.admin}) = 1
        BY FS_Singleton
      <3>2. IsFiniteSet(shown) /\ Cardinality(shown) <= Cardinality({db.admin})
        BY <3>1, FS_Subset DEF Logins
      <3> QED  BY <3>1, <3>2, FS_CardinalityType
    <2> QED  BY <2>4, <2>5 DEF LoginsOutlive, Logins
  <1> QED  BY <1>1, ServerInvariant, PTL

\* No backup that is given out is cut off or mixed with another, for any
\* number of requests and however their seconds fall together.
THEOREM BackupsStayWhole == Spec => []BackupsAreWhole
  <1>1. IInv => BackupsAreWhole
    <2> SUFFICES ASSUME IInv PROVE BackupsAreWhole
      OBVIOUS
    <2>1. Cut \in backups => faults
      BY FilesAssumption DEF IInv, Archives
    <2> QED  BY Zenon, <2>1 DEF IInv, Restores, Extracting, BackupsAreWhole
  <1> QED  BY <1>1, ServerInvariant, PTL

\* An update that runs alone changes what it was asked to and nothing else.
THEOREM UpdatesKeepOthers == Spec => []OthersKept
  <1>1. IInv => OthersKept
    BY DEF IInv, Channels, OthersKept
  <1> QED  BY <1>1, ServerInvariant, PTL
================================================================================
