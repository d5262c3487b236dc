------------------------- MODULE DownloadClientsProofs -------------------------
(***************************************************************************)
(* The client resolver for any number of requests, rows, types of client   *)
(* and changes. IInv has one conjunct for each question: the types, the    *)
(* two locks, how many clients a row has, whether they are outdated, and   *)
(* what two kinds of call know of the program they talk to.                *)
(***************************************************************************)
EXTENDS DownloadClients, SequenceTheorems, FiniteSetTheorems, TLAPS

TypeName == Types \cup RowType \cup {"none"}
Row == [type : TypeName, enabled : BOOLEAN, ver : Nat]
PC == {"idle", "invalidate", "next", "resolve", "lock", "create", "embedFast", "embedRoot",
       "embedLock", "embedCreate", "use", "called"}
Kind == Readers \cup {"none", "update", "delete", "torrent", "usenet", "direct"}
Made == [id : ClientId \cup {0}, cfg : Row, by : Kind, dir : Root \cup {0}]
Process == [pc : PC, kind : Kind, id : ClientId \cup {0}, cfg : Row,
            todo : SUBSET (ClientId \X [ClientId -> Row]),
            inst : Instance \cup {0}, dir : Root \cup {0}]
CallPC == {"idle", "login", "send", "conflict", "history", "write", "done"}
Items == Release \cup {0}       \* 0: none, or an id of qBittorrent's making
Result == {"none", "ok", "connection", "auth", "conflict", "error", "partial"}
Call == [pc : CallPC, type : TypeName, op : {"add", "queue"}, inst : Instance \cup {0},
         item : Items, tries : {0, 1}, got : Nat, out : SUBSET Items,
         res : Result]

CallTypes ==
    /\ call \in [Proc -> Call]
    /\ session \in [Instance -> Nat]
    /\ epoch \in Nat
    /\ torrents \subseteq Items /\ hashes \subseteq Items
    /\ slots \in [queue : SUBSET Items, history : SUBSET Items]
    /\ rotated \subseteq Proc /\ cut \subseteq Proc
    /\ had \in [Proc -> SUBSET Items]

ServiceTypes ==
    /\ client \in [ClientId -> Row]
    /\ proc \in [Proc -> Process]
    /\ conn \in Proc \cup {Nobody} /\ mu \in Proc \cup {Nobody}
    /\ cache \in [ClientId -> Nat] /\ embedded \in Nat
    /\ made \in Seq(Made)
    /\ changes \in Nat /\ dropped \in [ClientId -> Nat]

\* Instances are numbered, and a request on its way to one has a row.
Instances ==
    /\ \A n \in 1 .. Len(made) : n \in Instance /\ made[n].cfg.type \in Types
    /\ \A c \in ClientId : cache[c] \in 0 .. Len(made)
    /\ embedded \in 0 .. Len(made)
    /\ \A p \in Proc : proc[p].pc \in {"invalidate", "resolve", "lock", "create"} =>
            proc[p].id \in ClientId
    /\ \A p \in Proc : proc[p].pc = "use" => proc[p].inst \in 1 .. Len(made)

\* The mutex is held inside the two sections, the connection on the way to a
\* client and nowhere else.
Locks ==
    /\ \A p \in Proc : mu = p <=> proc[p].pc \in {"create", "embedCreate"}
    /\ \A p \in Proc : conn = p => proc[p].pc \in {"resolve", "lock", "create"}

\* Each client of a row but the cached one has been dropped.
Counted ==
    /\ \A c \in ClientId : Cardinality(MadeFor(c)) <= dropped[c] + (IF cache[c] = 0 THEN 0 ELSE 1)
    /\ Cardinality(MadeFor(0)) <= (IF embedded = 0 THEN 0 ELSE 1)

\* Who holds the connection on the way knows the row as it is.
Fresh ==
    /\ \A p \in Proc : proc[p].pc = "next" => proc[p].kind \in Readers
    /\ \A p \in Proc : proc[p].pc \in {"resolve", "lock", "create"} /\ proc[p].kind \notin Readers
            => conn = p /\ proc[p].cfg = client[proc[p].id]
    /\ StaleOnlyByReaders

\* A call of SABnzbd's queue whose answers were not cut: what was there when it
\* began is in the first answer or has moved on to the history.
Asking(p) == p \notin cut /\ call[p].type = "sabnzbd" /\ call[p].op = "queue"
Slots ==
    \A p \in Proc : Asking(p) =>
        /\ call[p].pc = "send" => had[p] \subseteq slots.queue \cup slots.history
        /\ call[p].pc = "history" => had[p] \subseteq call[p].out \cup slots.history
        /\ call[p].res = "ok" => had[p] \subseteq call[p].out
        /\ call[p].pc \in {"send", "history"} => call[p].res = "none"

\* Calls of Transmission that overlap are disturbed together; an undisturbed
\* one has stored the current session id before its second try.
Sessions ==
    /\ \A p, q \in InFlight : p \in rotated => q \in rotated
    /\ \A p \in InFlight \ rotated :
        /\ call[p].inst \in Instance
        /\ call[p].pc = "conflict" => call[p].got = epoch /\ call[p].tries = 0
        /\ call[p].pc = "send" /\ call[p].tries = 1 => session[call[p].inst] = epoch
    /\ ConflictExplained

IInv == CallTypes /\ ServiceTypes /\ Instances /\ Locks /\ Counted /\ Fresh /\ Slots /\ Sessions

-----------------------------------------------------------------------------
LEMMA InitIInv == Init => IInv
  <1> SUFFICES ASSUME Init PROVE IInv
    OBVIOUS
  <1> USE DEF Init, ExtInit
  <1>1. CallTypes
    <2>1. NoCall \in Call
      BY DEF Call, CallPC, NoCall, TypeName, Types, Result, Items
    <2>2. call \in [Proc -> Call] /\ session \in [Instance -> Nat]
      BY <2>1
    <2>3. slots \in [queue : SUBSET Items, history : SUBSET Items]
      <3>1. PICK done \in SUBSET Release : slots = [queue |-> {}, history |-> done]
        OBVIOUS
      <3>2. {} \in SUBSET Items /\ done \in SUBSET Items
        BY DEF Items
      <3> HIDE DEF Init, ExtInit
      <3> QED  BY <3>1, <3>2
    <2> QED  BY <2>2, <2>3 DEF CallTypes
  <1>2. ServiceTypes
    <2>1. made \in Seq(Made)
      BY EmptySeq
    <2>2. NoRow \in Row
      BY DEF NoRow, Row, TypeName
    <2>3. client \in [ClientId -> Row]
      <3> DEFINE First == {NoRow} \cup {[type |-> t, enabled |-> TRUE, ver |-> 0] : t \in RowType}
      <3>1. First \subseteq Row
        <4>1. \A t \in RowType : [type |-> t, enabled |-> TRUE, ver |-> 0] \in Row
          BY DEF Row, TypeName
        <4> QED  BY Zenon, <2>2, <4>1
      <3>2. client \in [ClientId -> First]
        OBVIOUS
      <3> HIDE DEF First
      <3> QED  BY <3>1, <3>2
    <2>4. Idle \in Process
      BY <2>2 DEF Idle, Process, PC, Kind
    <2> QED  BY <2>1, <2>3, <2>4 DEF ServiceTypes
  <1>3. Len(made) = 0
    BY EmptySeq
  <1>4. Instances
    BY <1>3 DEF Instances, Idle
  <1>5. Locks
    BY ProcAssumption DEF Locks, Idle
  <1>6. Counted
    <2>1. \A c : MadeFor(c) = {}
      BY <1>3 DEF MadeFor
    <2>2. Cardinality({}) = 0
      BY FS_EmptySet
    <2>3. Cardinality(MadeFor(0)) = 0 /\ \A c \in ClientId : Cardinality(MadeFor(c)) = 0
      BY <2>1, <2>2
    <2>4. embedded = 0 /\ \A c \in ClientId : dropped[c] = 0 /\ cache[c] = 0
      OBVIOUS
    <2> HIDE DEF Init, ExtInit
    <2> QED  BY <2>3, <2>4 DEF Counted
  <1>7. Fresh
    BY DEF Fresh, Idle, StaleOnlyByReaders
  <1>8. Slots /\ Sessions
    BY DEF Slots, Asking, Sessions, ConflictExplained, NoCall, InFlight
  <1> QED  BY <1>1, <1>2, <1>4, <1>5, <1>6, <1>7, <1>8 DEF IInv

-----------------------------------------------------------------------------
(* Types. *)

LEMMA TypeNames ==
    /\ NoRow \in Row /\ Deleted \in Row /\ DirectCfg \in Row /\ Idle \in Process
    /\ NoCall \in Call
    /\ {"transmission", "qbittorrent", "sabnzbd", "blackhole", "direct"} \subseteq TypeName
  <1>1. NoRow \in Row /\ Deleted \in Row /\ DirectCfg \in Row
    BY DEF NoRow, Deleted, DirectCfg, Row, TypeName, Types
  <1>2. Idle \in Process
    BY <1>1 DEF Idle, Process, PC, Kind
  <1>3. NoCall \in Call
    BY DEF NoCall, Call, CallPC, TypeName, Types, Result, Items
  <1> QED  BY <1>1, <1>2, <1>3 DEF TypeName, Types

\* A call's record changes in a few ways only.
LEMMA AnswerType ==
    ASSUME call \in [Proc -> Call], NEW p \in Proc, NEW res \in Result,
           NEW out \in SUBSET Items, Answer(p, res, out)
    PROVE  call' \in [Proc -> Call]
  <1>1. call[p] \in Call /\ "done" \in CallPC
    BY DEF CallPC
  <1>2. [call[p] EXCEPT !.pc = "done", !.res = res, !.out = out] \in Call
    BY <1>1 DEF Call
  <1> QED  BY <1>2 DEF Answer

LEMMA CallGoesOn ==
    ASSUME call \in [Proc -> Call], NEW p \in Proc, NEW pc \in CallPC
    PROVE  /\ [call EXCEPT ![p].pc = pc] \in [Proc -> Call]
           /\ \A n \in Nat : [call EXCEPT ![p].pc = pc, ![p].got = n] \in [Proc -> Call]
           /\ [call EXCEPT ![p].pc = pc, ![p].tries = 1] \in [Proc -> Call]
           /\ \A out \in SUBSET Items :
                [call EXCEPT ![p].pc = pc, ![p].out = out] \in [Proc -> Call]
  <1>0. call[p] \in Call
    OBVIOUS
  <1>1. [call[p] EXCEPT !.pc = pc] \in Call
    BY <1>0 DEF Call
  <1>2. ASSUME NEW n \in Nat PROVE [call[p] EXCEPT !.pc = pc, !.got = n] \in Call
    BY <1>0 DEF Call
  <1>3. [call[p] EXCEPT !.pc = pc, !.tries = 1] \in Call
    BY <1>0 DEF Call
  <1>4. ASSUME NEW out \in SUBSET Items PROVE [call[p] EXCEPT !.pc = pc, !.out = out] \in Call
    BY <1>0 DEF Call
  <1> QED  BY <1>1, <1>2, <1>3, <1>4

\* What SABnzbd shows of its slots is there, and is all of them unless the call
\* is noted as cut.
LEMMA ShownAreThere == \A all, limit : \A s \in Shown(all, limit) : s \subseteq all
  BY DEF Shown

LEMMA AllAreShown ==
    ASSUME NEW p, NEW all, NEW limit, NEW s \in Shown(all, limit), NoteCut(p, all, limit),
           p \notin cut'
    PROVE  s = all
  BY DEF Shown, NoteCut

LEMMA CallStepTypes ==
    ASSUME CallTypes, NEW p \in Proc, CallStep(p)
    PROVE  CallTypes'
  <1> USE DEF CallTypes
  <1>0. /\ call[p] \in Call
        /\ {"ok", "connection", "auth", "conflict", "error", "partial"} \subseteq Result
        /\ slots.queue \subseteq Items /\ slots.history \subseteq Items /\ {0} \subseteq Items
        /\ {} \subseteq Items
    BY DEF Result, Items
  <1>1. ASSUME NEW res \in Result, NEW out \in SUBSET Items, Answer(p, res, out)
        PROVE  call' \in [Proc -> Call]
    BY <1>1, AnswerType
  <1>a. {"send", "write", "history", "conflict"} \subseteq CallPC
    BY DEF CallPC
  <1>b. /\ [call EXCEPT ![p].pc = "send"] \in [Proc -> Call]
        /\ [call EXCEPT ![p].pc = "write"] \in [Proc -> Call]
        /\ [call EXCEPT ![p].pc = "conflict", ![p].got = epoch] \in [Proc -> Call]
        /\ [call EXCEPT ![p].pc = "send", ![p].tries = 1] \in [Proc -> Call]
    BY <1>0, <1>a, CallGoesOn
  <1>d. \A s \in SUBSET Items :
            [call EXCEPT ![p].pc = "history", ![p].out = s] \in [Proc -> Call]
    BY <1>a, CallGoesOn
  <1>c. /\ call[p].item \in Items /\ call[p].got \in Nat /\ call[p].out \subseteq Items
    BY <1>0 DEF Call
  <1>2. CASE TrSend(p)
    <2>1. torrents' \subseteq Items
      <3>1. CASE call[p].op = "add"
        BY <1>2, <1>c, <3>1 DEF TrSend
      <3>2. CASE call[p].op # "add"
        BY <1>2, <3>2 DEF TrSend
      <3> QED  BY <3>1, <3>2
    <2>2. call' \in [Proc -> Call]
      <3>1. PICK res \in Result, out \in SUBSET Items :
                \/ call' = [call EXCEPT ![p].pc = "conflict", ![p].got = epoch]
                \/ Answer(p, res, out)
        BY <1>2, <1>0, <2>1 DEF TrSend
      <3> QED  BY <1>1, <1>b, <3>1
    <2> QED  BY <1>2, <2>1, <2>2 DEF TrSend
  <1>3. CASE TrStore(p)
    <2>1. call' \in [Proc -> Call]
      BY <1>3, <1>0, <1>1, <1>b DEF TrStore
    <2>2. session' \in [Instance -> Nat]
      BY <1>3, <1>c DEF TrStore
    <2> QED  BY <1>3, <2>1, <2>2 DEF TrStore, programs, extHistory
  <1>4. CASE QbtLogin(p) \/ QbtAdd(p) \/ QbtQueue(p)
    <2>1. call' \in [Proc -> Call]
      BY <1>4, <1>0, <1>1, <1>b DEF QbtLogin, QbtAdd, QbtQueue
    <2>2. hashes' \subseteq Items
      BY <1>4, <1>c DEF QbtLogin, QbtAdd, QbtQueue, programs
    <2> QED  BY <1>4, <2>1, <2>2 DEF QbtLogin, QbtAdd, QbtQueue, programs
  <1>5. CASE SabAdd(p) \/ SabQueue(p) \/ SabHistory(p)
    <2>1. {call[p].item} \subseteq Items /\ call[p].out \cup slots.history \subseteq Items
      BY <1>0, <1>c
    <2>a. /\ \A s \in Shown(slots.queue, QueueLimit) : s \subseteq Items
          /\ \A s \in Shown(slots.history, HistoryLimit) : call[p].out \cup s \subseteq Items
      BY <1>0, <1>c, ShownAreThere
    <2>2. call' \in [Proc -> Call]
      <3>1. PICK res \in Result, out \in SUBSET Items :
                \/ call' = [call EXCEPT ![p].pc = "history", ![p].out = out]
                \/ Answer(p, res, out)
        <4>1. CASE SabAdd(p)
          BY <4>1, <1>0, <2>1 DEF SabAdd
        <4>2. CASE SabQueue(p)
          BY <4>2, <1>0, <2>a DEF SabQueue
        <4>3. CASE SabHistory(p)
          BY <4>3, <1>0, <1>c, <2>a DEF SabHistory
        <4> QED  BY <1>5, <4>1, <4>2, <4>3
      <3> QED  BY <1>1, <1>d, <3>1
    <2>3. slots' \in [queue : SUBSET Items, history : SUBSET Items]
      BY <1>5, <1>c DEF SabAdd, SabQueue, SabHistory, programs
    <2>4. cut' \subseteq Proc
      BY <1>5 DEF SabAdd, SabQueue, SabHistory, NoteCut
    <2> QED  BY <1>5, <2>2, <2>3, <2>4 DEF SabAdd, SabQueue, SabHistory, programs
  <1>6. CASE BhQueue(p) \/ BhCreate(p) \/ BhWrite(p) \/ DirectCall(p)
    <2>1. {call[p].item} \subseteq Items
      BY <1>c
    <2>2. call' \in [Proc -> Call]
      BY <1>6, <1>0, <1>1, <1>b, <2>1 DEF BhQueue, BhCreate, BhWrite, DirectCall
    <2> QED  BY <1>6, <2>2 DEF BhQueue, BhCreate, BhWrite, DirectCall, programs, extHistory
  <1> QED  BY <1>2, <1>3, <1>4, <1>5, <1>6 DEF CallStep

LEMMA StartCallTypes ==
    ASSUME CallTypes, NEW p \in Proc, NEW type \in TypeName, NEW op \in {"add", "queue"},
           NEW n \in Instance, NEW r \in Items, StartCall(p, type, op, n, r)
    PROVE  CallTypes'
  <1> USE DEF CallTypes
  <1> DEFINE new == [NoCall EXCEPT !.type = type, !.op = op, !.inst = n, !.item = r,
                        !.pc = IF type = "qbittorrent" THEN "login" ELSE "send"]
  <1>1. new \in Call
    BY TypeNames DEF Call, CallPC
  <1>2. call' \in [Proc -> Call]
    <2>1. call' = [call EXCEPT ![p] = new]
      BY DEF StartCall
    <2> HIDE DEF new
    <2> QED  BY <1>1, <2>1
  <1>3. rotated' \subseteq Proc /\ cut' \subseteq Proc /\ had' \in [Proc -> SUBSET Items]
    <2>1. slots.queue \cup slots.history \subseteq Items
      OBVIOUS
    <2> QED  BY <2>1 DEF StartCall
  <1> QED  BY <1>2, <1>3 DEF StartCall, programs

LEMMA CallTypesStep == IInv /\ [Next]_vars => CallTypes'
  <1> SUFFICES ASSUME IInv, [Next]_vars PROVE CallTypes'
    OBVIOUS
  <1> USE DEF IInv
  <1>1. CASE UNCHANGED extVars
    BY <1>1 DEF CallTypes, extVars, callVars, programs, extHistory
  <1>2. ASSUME NEW p \in Proc, CallStep(p) PROVE CallTypes'
    BY <1>2, CallStepTypes
  <1>3. CASE ProgramStep
    <2>1. CASE TrRotate
      BY <2>1 DEF TrRotate, callVars, CallTypes, InFlight
    <2>2. ASSUME NEW r \in Release, SabMoves(r) PROVE CallTypes'
      <3>1. slots' \in [queue : SUBSET Items, history : SUBSET Items]
        BY <2>2 DEF SabMoves, CallTypes
      <3> QED  BY <2>2, <3>1 DEF SabMoves, callVars, extHistory, CallTypes
    <2> QED  BY <1>3, <2>1, <2>2 DEF ProgramStep
  <1>4. ASSUME NEW p \in Proc, Use(p) PROVE CallTypes'
    <2>1. proc[p].cfg.type \in TypeName /\ proc[p].inst \in Instance
      <3>1. proc[p] \in Process /\ proc[p].inst \in Instance
        BY <1>4 DEF Use, ServiceTypes, Instances
      <3> QED  BY <3>1 DEF Process, Row
    <2>2. Release \subseteq Items /\ 0 \in Items
      BY DEF Items
    <2> QED  BY <1>1, <1>4, <2>1, <2>2, StartCallTypes DEF Use
  <1>5. ASSUME NEW p \in Proc, CallReturns(p) PROVE CallTypes'
    BY <1>5, TypeNames DEF CallReturns, CallTypes, programs, extHistory
  <1>6. CASE \E p \in Proc : Begin(p)
    BY <1>1, <1>6 DEF Begin, GetQueue, GetClientQueue, UpdateClient, DeleteClient, ByTypes
  <1>7. ASSUME NEW p \in Proc, Step(p) PROVE CallTypes'
    BY <1>1, <1>2, <1>4, <1>5, <1>7 DEF Step, Invalidate, NextClient, Resolve, Lock, Create,
        EmbedFast, EmbedRoot, EmbedLock, EmbedCreate
  <1>8. ASSUME NEW c \in ClientId, CreateClient(c) PROVE CallTypes'
    BY <1>1, <1>8 DEF CreateClient
  <1> QED  BY <1>1, <1>3, <1>6, <1>7, <1>8 DEF Next, vars

\* What the steps of the programs and of the calls leave alone.
Elsewhere == UNCHANGED <<client, service, proc, history>>

LEMMA ServiceTypesStep == IInv /\ [Next]_vars => ServiceTypes'
  <1> SUFFICES ASSUME IInv, [Next]_vars PROVE ServiceTypes'
    OBVIOUS
  <1> USE DEF IInv, ServiceTypes
  <1>1. CASE Elsewhere
    BY <1>1 DEF Elsewhere, service, history
  <1>0. ASSUME NEW p \in Proc, NEW r \in Process, Become(p, r)
        PROVE  proc' \in [Proc -> Process]
    BY <1>0 DEF Become
  <1>a. ASSUME NEW p \in Proc, NEW pc \in PC, Goto(p, pc)
        PROVE  proc' \in [Proc -> Process]
    <2>1. proc[p] \in Process
      OBVIOUS
    <2>2. [proc[p] EXCEPT !.pc = pc] \in Process
      BY <2>1 DEF Process
    <2> QED  BY <1>a, <2>2 DEF Goto
  <1>b. ASSUME NEW p \in Proc, Return(p) PROVE proc' \in [Proc -> Process]
    BY <1>0, <1>b, TypeNames DEF Return
  <1>c. {"invalidate", "next", "resolve", "lock", "create", "embedFast", "embedRoot",
                "embedLock", "embedCreate", "use", "called"} \subseteq PC
    BY DEF PC
  <1>d. {"queue", "clientQueue", "update", "delete", "torrent", "usenet", "direct"} \subseteq Kind
    BY DEF Kind, Readers
  <1>2. ASSUME NEW p \in Proc, Begin(p) PROVE ServiceTypes'
    <2>1. CASE GetQueue(p)
      <3> DEFINE read == {c \in Rows : client[c].enabled} \X {client}
      <3>1. read \subseteq ClientId \X [ClientId -> Row]
        BY DEF Rows
      <3> HIDE DEF read
      <3>2. [Idle EXCEPT !.pc = "next", !.kind = "queue", !.todo = read] \in Process
        BY <3>1, <1>c, <1>d, TypeNames DEF Process
      <3>3. proc' \in [Proc -> Process]
        BY <2>1, <3>2, <1>0 DEF GetQueue, read
      <3> QED  BY <2>1, <3>3 DEF GetQueue, Request, service
    <2>2. ASSUME NEW c \in ClientId, GetClientQueue(p, c) PROVE ServiceTypes'
      <3>1. [Idle EXCEPT !.pc = "resolve", !.kind = "clientQueue", !.id = c, !.cfg = client[c]]
                \in Process
        BY <1>c, <1>d, TypeNames DEF Process
      <3>2. proc' \in [Proc -> Process]
        BY <2>2, <3>1, <1>0 DEF GetClientQueue
      <3> QED  BY <2>2, <3>2 DEF GetClientQueue, Request, service
    <2>3. ASSUME NEW c \in ClientId, UpdateClient(p, c) \/ DeleteClient(p, c)
          PROVE  ServiceTypes'
      <3>1. changes' \in Nat /\ Deleted \in Row /\ client[c] \in Row
        BY <2>3, TypeNames DEF UpdateClient, DeleteClient, Change
      <3>2. \A e \in BOOLEAN : [client[c] EXCEPT !.enabled = e, !.ver = changes'] \in Row
        BY <3>1 DEF Row
      <3>3. client' \in [ClientId -> Row]
        BY <2>3, <3>1, <3>2 DEF UpdateClient, DeleteClient
      <3>4. \A k \in Kind : [Idle EXCEPT !.pc = "invalidate", !.kind = k, !.id = c] \in Process
        BY <1>c, TypeNames DEF Process
      <3>5. proc' \in [Proc -> Process]
        BY <2>3, <3>4, <1>0, <1>d DEF UpdateClient, DeleteClient
      <3> QED  BY <2>3, <3>1, <3>3, <3>5 DEF UpdateClient, DeleteClient, service
    <2>4. ASSUME NEW k \in {"torrent", "usenet", "direct"}, ByTypes(p, k) PROVE ServiceTypes'
      <3>1. [Idle EXCEPT !.pc = "embedFast", !.kind = k] \in Process
        BY <1>c, <1>d, TypeNames DEF Process
      <3>2. \A c \in ClientId :
                [Idle EXCEPT !.pc = "resolve", !.kind = k, !.id = c, !.cfg = client[c]] \in Process
        BY <1>c, <1>d, TypeNames DEF Process
      <3>3. proc' \in [Proc -> Process]
        BY <2>4, <3>1, <3>2, <1>0 DEF ByTypes, Rows
      <3>4. conn' \in Proc \cup {Nobody}
        BY <2>4 DEF ByTypes
      <3> QED  BY <2>4, <3>3, <3>4 DEF ByTypes, Request
    <2> QED  BY <1>2, <2>1, <2>2, <2>3, <2>4 DEF Begin
  <1>e. ASSUME NEW p \in Proc, NEW n \in Instance, NEW type \in TypeName, Resolved(p, n, type)
        PROVE  proc' \in [Proc -> Process] /\ conn' \in Proc \cup {Nobody}
    <2>1. proc[p] \in Process /\ [proc[p].cfg EXCEPT !.type = type] \in Row
      BY DEF Process, Row
    <2>2. [proc[p] EXCEPT !.pc = "use", !.inst = n, !.cfg.type = type] \in Process
      BY <1>c, <2>1 DEF Process, Row
    <2> QED  BY <1>0, <1>e, <2>2 DEF Resolved, FreeConn
  <1>f. ASSUME NEW n \in 1 .. Len(made)
        PROVE  n \in Instance /\ made[n].cfg.type \in TypeName
    BY DEF Instances, TypeName
  <1>g. ASSUME NEW id \in ClientId \cup {0}, NEW cfg \in Row, NEW k \in Kind,
               NEW dir \in Root \cup {0}, NewClient(id, cfg, k, dir)
        PROVE  made' \in Seq(Made) /\ Len(made') = Len(made) + 1 /\ Len(made') \in Instance
    <2>1. [id |-> id, cfg |-> cfg, by |-> k, dir |-> dir] \in Made
      BY DEF Made
    <2> QED  BY <1>g, <2>1, AppendProperties DEF NewClient
  <1>3. ASSUME NEW p \in Proc, Step(p) PROVE ServiceTypes'
    <2>0. proc[p] \in Process
      OBVIOUS
    <2>1. CASE Invalidate(p)
      <3>1. cache' \in [ClientId -> Nat] /\ dropped' \in [ClientId -> Nat]
        BY <2>1 DEF Invalidate, Instances
      <3> QED  BY <2>1, <3>1, <1>b DEF Invalidate
    <2>2. CASE NextClient(p)
      <3>1. ASSUME NEW x \in proc[p].todo
            PROVE  [proc[p] EXCEPT !.pc = "resolve", !.id = x[1], !.cfg = x[2][x[1]],
                                   !.todo = @ \ {x}] \in Process
        <4>1. x[1] \in ClientId /\ x[2] \in [ClientId -> Row]
          BY <2>0 DEF Process
        <4> QED  BY <4>1, <2>0, <1>c DEF Process
      <3>2. proc' \in [Proc -> Process]
        BY <2>2, <3>1, <1>0, <1>b DEF NextClient
      <3> QED  BY <2>2, <3>2 DEF NextClient, service, history
    <2>3. CASE Resolve(p)
      <3>1. proc' \in [Proc -> Process] /\ conn' \in Proc \cup {Nobody}
        <4>1. CASE cache[proc[p].id] = 0
          BY <2>3, <4>1, <1>a, <1>c DEF Resolve
        <4>2. CASE cache[proc[p].id] # 0
          <5>1. cache[proc[p].id] \in 1 .. Len(made)
            BY <2>3, <4>2, LenProperties DEF Resolve, Instances
          <5> QED  BY <2>3, <4>2, <5>1, <1>e, <1>f DEF Resolve
        <4> QED  BY <4>1, <4>2
      <3> QED  BY <2>3, <3>1 DEF Resolve, history
    <2>4. CASE Lock(p) \/ EmbedFast(p) \/ EmbedLock(p) \/ EmbedRoot(p)
      <3>1. CASE Lock(p) \/ EmbedLock(p)
        BY <3>1, <1>a, <1>c DEF Lock, EmbedLock, history
      <3>2. CASE EmbedFast(p)
        <4>1. embedded # 0 => embedded \in Instance
          BY <1>f, LenProperties DEF Instances
        <4>2. CASE embedded # 0
          <5>1. [proc[p] EXCEPT !.pc = "use", !.inst = embedded, !.cfg = DirectCfg] \in Process
            BY <2>0, <4>1, <4>2, <1>c, TypeNames DEF Process
          <5> QED  BY <3>2, <4>2, <5>1, <1>0 DEF EmbedFast, Embedded, service, history
        <4>3. CASE embedded = 0
          BY <3>2, <4>3, <1>a, <1>c DEF EmbedFast, service, history
        <4> QED  BY <4>2, <4>3
      <3>3. CASE EmbedRoot(p)
        <4>1. \A r \in Root : [proc[p] EXCEPT !.pc = "embedLock", !.dir = r] \in Process
          BY <2>0, <1>c DEF Process
        <4>2. Root = {} \/ (CHOOSE r \in Root : \A q \in Root : r <= q) \in Root
          BY ClientAssumption
        <4>3. proc' \in [Proc -> Process]
          BY <3>3, <4>1, <4>2, <1>0, <1>b DEF EmbedRoot
        <4> QED  BY <3>3, <4>3 DEF EmbedRoot, service, history
      <3> QED  BY <2>4, <3>1, <3>2, <3>3
    <2>5. CASE Create(p)
      <3>1. /\ proc[p].id \in ClientId /\ proc[p].cfg \in Row /\ proc[p].kind \in Kind
            /\ cache[proc[p].id] \in 0 .. Len(made)
        BY <2>0, <2>5 DEF Create, Instances, Process
      <3>2. CASE cache[proc[p].id] # 0
        <4>1. cache[proc[p].id] \in 1 .. Len(made)
          BY <3>1, <3>2, LenProperties
        <4> QED  BY <2>5, <3>2, <4>1, <1>e, <1>f DEF Create, history
      <3>3. CASE cache[proc[p].id] = 0 /\ proc[p].cfg.type \notin Factories
        <4>1. proc' \in [Proc -> Process] /\ conn' \in Proc \cup {Nobody}
          BY <2>5, <3>3, <1>a, <1>b, <1>c DEF Create, Unresolved, FreeConn
        <4> QED  BY <2>5, <3>3, <4>1 DEF Create, history
      <3>4. CASE cache[proc[p].id] = 0 /\ proc[p].cfg.type \in Factories
        <4>1. made' \in Seq(Made) /\ Len(made') \in Instance
          BY <2>5, <3>1, <3>4, <1>g DEF Create
        <4>2. proc' \in [Proc -> Process] /\ conn' \in Proc \cup {Nobody}
          BY <2>5, <3>1, <3>4, <4>1, <1>e DEF Create, Row
        <4>3. Len(made') \in Nat
          BY <4>1, LenProperties
        <4>4. cache' \in [ClientId -> Nat]
          BY <2>5, <3>4, <4>3 DEF Create
        <4> QED  BY <2>5, <4>1, <4>2, <4>4 DEF Create, history
      <3> QED  BY <3>2, <3>3, <3>4
    <2>6. CASE EmbedCreate(p)
      <3>1. ASSUME NEW n \in Instance
            PROVE  [proc[p] EXCEPT !.pc = "use", !.inst = n, !.cfg = DirectCfg] \in Process
        BY <2>0, <1>c, TypeNames DEF Process
      <3>2. CASE embedded # 0
        <4>1. embedded \in Instance
          BY <3>2, <1>f, LenProperties DEF Instances
        <4> QED  BY <2>6, <3>1, <3>2, <4>1, <1>0 DEF EmbedCreate, Embedded, history
      <3>3. CASE embedded = 0
        <4>1. NewClient(0, DirectCfg, "direct", proc[p].dir) /\ proc[p].dir \in Root \cup {0}
          BY <2>0, <2>6, <3>3 DEF EmbedCreate, Process
        <4>2. made' \in Seq(Made) /\ Len(made') \in Instance /\ Len(made') \in Nat
          BY <4>1, <1>d, <1>g, TypeNames, LenProperties
        <4>3. embedded' = Len(made') /\ Embedded(p, embedded')
          BY <2>6, <3>3 DEF EmbedCreate
        <4>4. proc' \in [Proc -> Process]
          BY <3>1, <4>2, <4>3, <1>0 DEF Embedded
        <4> QED  BY <2>6, <4>2, <4>3, <4>4 DEF EmbedCreate, history
      <3> QED  BY <3>2, <3>3
    <2>7. CASE Use(p) \/ CallReturns(p)
      <3>1. proc' \in [Proc -> Process]
        BY <2>7, <1>a, <1>b, <1>c DEF Use, CallReturns
      <3> QED  BY <2>7, <3>1 DEF Use, CallReturns, service, history
    <2> QED
      BY <1>1, <1>3, <2>1, <2>2, <2>3, <2>4, <2>5, <2>6, <2>7 DEF Step, Elsewhere
  <1>4. ASSUME NEW c \in ClientId, CreateClient(c) PROVE ServiceTypes'
    <2>1. changes' \in Nat
      BY <1>4 DEF CreateClient, Change
    <2>2. \A t \in RowType : [type |-> t, enabled |-> TRUE, ver |-> changes'] \in Row
      BY <2>1 DEF Row, TypeName
    <2>3. client' \in [ClientId -> Row]
      BY <1>4, <2>2 DEF CreateClient
    <2> QED  BY <1>4, <2>1, <2>3 DEF CreateClient, service
  <1> QED
    BY <1>1, <1>2, <1>3, <1>4 DEF Next, vars, Elsewhere

-----------------------------------------------------------------------------
(* Instances and locks. *)

LEMMA NewClientGrows ==
    ASSUME ServiceTypes, NEW id \in ClientId \cup {0}, NEW cfg \in Row, NEW k \in Kind,
           NEW dir \in Root \cup {0}, NewClient(id, cfg, k, dir)
    PROVE  /\ Len(made) \in Nat /\ Len(made') = Len(made) + 1 /\ Len(made') \in Instance
           /\ made'[Len(made')] = [id |-> id, cfg |-> cfg, by |-> k, dir |-> dir]
           /\ \A n \in 1 .. Len(made) : made'[n] = made[n]
  <1>1. [id |-> id, cfg |-> cfg, by |-> k, dir |-> dir] \in Made
    BY DEF Made
  <1> QED  BY <1>1, AppendProperties, LenProperties DEF NewClient, ServiceTypes

LEMMA BecomeGives ==
    ASSUME ServiceTypes, NEW p \in Proc, NEW r, Become(p, r)
    PROVE  (\A q \in Proc \ {p} : proc'[q] = proc[q]) /\ proc'[p] = r
  BY DEF Become, ServiceTypes

LEMMA GotoGives ==
    ASSUME ServiceTypes, NEW p \in Proc, NEW pc, Goto(p, pc)
    PROVE  /\ \A q \in Proc \ {p} : proc'[q] = proc[q]
           /\ proc'[p].pc = pc /\ proc'[p].id = proc[p].id /\ proc'[p].inst = proc[p].inst
           /\ proc'[p].kind = proc[p].kind /\ proc'[p].cfg = proc[p].cfg
  <1>1. proc[p] \in Process
    BY DEF ServiceTypes
  <1>2. proc'[p] = [proc[p] EXCEPT !.pc = pc] /\ \A q \in Proc \ {p} : proc'[q] = proc[q]
    BY DEF Goto, ServiceTypes
  <1> QED  BY <1>1, <1>2 DEF Process

LEMMA ResolvedGives ==
    ASSUME ServiceTypes, NEW p \in Proc, NEW n, NEW type,
           Resolved(p, n, type) \/ Embedded(p, n)
    PROVE  /\ \A q \in Proc \ {p} : proc'[q] = proc[q]
           /\ proc'[p].pc = "use" /\ proc'[p].inst = n
  <1>1. proc[p] \in Process
    BY DEF ServiceTypes
  <1>2. CASE Resolved(p, n, type)
    <2>1. /\ proc'[p] = [proc[p] EXCEPT !.pc = "use", !.inst = n, !.cfg.type = type]
          /\ \A q \in Proc \ {p} : proc'[q] = proc[q]
      BY <1>2, BecomeGives DEF Resolved
    <2> QED  BY <1>1, <2>1 DEF Process
  <1>3. CASE Embedded(p, n)
    <2>1. /\ proc'[p] = [proc[p] EXCEPT !.pc = "use", !.inst = n, !.cfg = DirectCfg]
          /\ \A q \in Proc \ {p} : proc'[q] = proc[q]
      BY <1>3, BecomeGives DEF Embedded
    <2> QED  BY <1>1, <2>1 DEF Process
  <1> QED  BY <1>2, <1>3

Grown ==
    /\ Len(made) \in Nat /\ Len(made') = Len(made) + 1 /\ Len(made') \in Instance
    /\ \A n \in 1 .. Len(made) : made'[n] = made[n]

LEMMA InstancesStep == IInv /\ [Next]_vars => Instances'
  <1> SUFFICES ASSUME IInv, [Next]_vars PROVE Instances'
    OBVIOUS
  <1> USE DEF IInv, ServiceTypes
  <1>0. Len(made) \in Nat
    BY LenProperties
  <1>1. CASE Elsewhere
    BY <1>1 DEF Elsewhere, service, Instances
  <1> DEFINE Ways == {"invalidate", "resolve", "lock", "create"}
  <1>a. ASSUME NEW p \in Proc, \A q \in Proc \ {p} : proc'[q] = proc[q],
               proc'[p].pc \in Ways => proc'[p].id \in ClientId,
               proc'[p].pc = "use" => proc'[p].inst \in 1 .. Len(made),
               UNCHANGED made, UNCHANGED embedded,
               \A c \in ClientId : cache'[c] \in {cache[c], 0}
        PROVE  Instances'
    <2>1. \A n \in 1 .. Len(made') : n \in Instance /\ made'[n].cfg.type \in Types
      BY <1>a DEF Instances
    <2>2. \A c \in ClientId : cache'[c] \in 0 .. Len(made')
      <3> SUFFICES ASSUME NEW c \in ClientId PROVE cache'[c] \in 0 .. Len(made)
        BY <1>a
      <3>1. cache[c] \in 0 .. Len(made) /\ 0 \in 0 .. Len(made)
        BY <1>0 DEF Instances
      <3> QED  BY <3>1, <1>a
    <2>3. embedded' \in 0 .. Len(made')
      BY <1>a DEF Instances
    <2>4. ASSUME NEW q \in Proc
          PROVE  /\ proc'[q].pc \in Ways => proc'[q].id \in ClientId
                 /\ proc'[q].pc = "use" => proc'[q].inst \in 1 .. Len(made')
      BY <1>a DEF Instances
    <2> QED  BY <2>1, <2>2, <2>3, <2>4 DEF Instances
  <1>b. ASSUME NEW p \in Proc, NEW pc, Goto(p, pc)
        PROVE  /\ \A q \in Proc \ {p} : proc'[q] = proc[q]
               /\ proc'[p].pc = pc /\ proc'[p].id = proc[p].id /\ proc'[p].inst = proc[p].inst
    BY <1>b, GotoGives
  <1>c. ASSUME NEW p \in Proc, NEW r, Become(p, r)
        PROVE  (\A q \in Proc \ {p} : proc'[q] = proc[q]) /\ proc'[p] = r
    BY <1>c, BecomeGives
  <1>d. ASSUME NEW p \in Proc, Return(p)
        PROVE  (\A q \in Proc \ {p} : proc'[q] = proc[q]) /\ proc'[p].pc = "idle"
    BY <1>d, BecomeGives DEF Return, Idle
  <1>e. ASSUME NEW p \in Proc, NEW n \in Instance, NEW type, Resolved(p, n, type)
        PROVE  /\ \A q \in Proc \ {p} : proc'[q] = proc[q]
               /\ proc'[p].pc = "use" /\ proc'[p].inst = n
    BY <1>e, ResolvedGives
  <1>f. ASSUME NEW p \in Proc, NEW n \in Instance, Embedded(p, n)
        PROVE  /\ \A q \in Proc \ {p} : proc'[q] = proc[q]
               /\ proc'[p].pc = "use" /\ proc'[p].inst = n
    BY <1>f, ResolvedGives
  <1>g. ASSUME NEW p \in Proc, \A q \in Proc \ {p} : proc'[q] = proc[q], Grown,
               proc'[p].pc = "use", proc'[p].inst = Len(made'),
               made'[Len(made')].cfg.type \in Types, embedded' \in {embedded, Len(made')},
               \A c \in ClientId : cache'[c] \in {cache[c], Len(made')}
        PROVE  Instances'
    <2> USE DEF Grown
    <2>1. ASSUME NEW n \in 1 .. Len(made') PROVE n \in Instance /\ made'[n].cfg.type \in Types
      <3>0. Len(made) \in Nat /\ Len(made') = Len(made) + 1
        BY <1>g
      <3>1. n \in 1 .. Len(made) \/ n = Len(made')
        <4>1. n \in 1 .. (Len(made) + 1)
          BY <3>0
        <4> QED  BY <3>0, <4>1
      <3> QED  BY <1>g, <3>1 DEF Instances
    <2>2. \A c \in ClientId : cache'[c] \in 0 .. Len(made')
      <3> SUFFICES ASSUME NEW c \in ClientId PROVE cache'[c] \in 0 .. Len(made')
        OBVIOUS
      <3>1. cache[c] \in 0 .. Len(made)
        BY DEF Instances
      <3>2. cache'[c] \in {cache[c], Len(made')}
        BY <1>g
      <3> QED  BY <3>1, <3>2, <1>g
    <2>3. embedded' \in 0 .. Len(made')
      BY <1>g DEF Instances
    <2>4. ASSUME NEW q \in Proc
          PROVE  /\ proc'[q].pc \in Ways => proc'[q].id \in ClientId
                 /\ proc'[q].pc = "use" => proc'[q].inst \in 1 .. Len(made')
      <3>1. CASE q = p
        BY <1>g, <3>1
      <3>2. CASE q # p
        BY <1>g, <3>2 DEF Instances
      <3> QED  BY <3>1, <3>2
    <2> QED  BY <2>1, <2>2, <2>3, <2>4 DEF Instances
  <1>2. ASSUME NEW p \in Proc, Begin(p) PROVE Instances'
    <2> DEFINE Others == \A q \in Proc \ {p} : proc'[q] = proc[q]
    <2>2. CASE GetQueue(p)
      <3>1. Others /\ proc'[p].pc = "next"
        BY <2>2 DEF GetQueue, Become, Idle
      <3>2. UNCHANGED <<made, embedded, cache>>
        BY <2>2 DEF GetQueue, service
      <3> QED  BY <1>a, <3>1, <3>2
    <2>3. ASSUME NEW c \in ClientId, GetClientQueue(p, c) PROVE Instances'
      <3>1. Others /\ proc'[p].pc = "resolve" /\ proc'[p].id = c
        BY <2>3 DEF GetClientQueue, Become, Idle
      <3>2. UNCHANGED <<made, embedded, cache>>
        BY <2>3 DEF GetClientQueue, service
      <3> QED  BY <1>a, <3>1, <3>2
    <2>4. ASSUME NEW c \in ClientId, UpdateClient(p, c) \/ DeleteClient(p, c) PROVE Instances'
      <3>1. Others /\ proc'[p].pc = "invalidate" /\ proc'[p].id = c
        <4>1. CASE UpdateClient(p, c)
          BY <4>1 DEF UpdateClient, Become, Idle
        <4>2. CASE DeleteClient(p, c)
          BY <4>2 DEF DeleteClient, Become, Idle
        <4> QED  BY <2>4, <4>1, <4>2
      <3>2. UNCHANGED <<made, embedded, cache>>
        BY <2>4 DEF UpdateClient, DeleteClient, service
      <3> QED  BY <1>a, <3>1, <3>2
    <2>5. ASSUME NEW k \in {"torrent", "usenet", "direct"}, ByTypes(p, k) PROVE Instances'
      <3>1. UNCHANGED <<made, cache, embedded>>
        BY <2>5 DEF ByTypes
      <3>2. CASE UNCHANGED proc
        BY <3>1, <3>2 DEF Instances
      <3>3. CASE Become(p, [Idle EXCEPT !.pc = "embedFast", !.kind = k])
        <4>1. Others /\ proc'[p].pc = "embedFast"
          BY <3>3 DEF Become, Idle
        <4> QED  BY <1>a, <3>1, <4>1
      <3>4. ASSUME NEW c \in ClientId,
                   Become(p, [Idle EXCEPT !.pc = "resolve", !.kind = k, !.id = c, !.cfg = client[c]])
            PROVE  Instances'
        <4>1. Others /\ proc'[p].pc = "resolve" /\ proc'[p].id = c
          BY <3>4 DEF Become, Idle
        <4> QED  BY <1>a, <3>1, <4>1
      <3> QED  BY <2>5, <3>2, <3>3, <3>4 DEF ByTypes, Rows
    <2> QED  BY <1>2, <2>2, <2>3, <2>4, <2>5 DEF Begin
  <1>3. ASSUME NEW p \in Proc, Step(p) PROVE Instances'
    <2> DEFINE Others == \A q \in Proc \ {p} : proc'[q] = proc[q]
    <2>0. proc[p] \in Process
      OBVIOUS
    <2>1. CASE Invalidate(p)
      <3>1. \A c \in ClientId : cache'[c] \in {cache[c], 0}
        BY <2>1 DEF Invalidate
      <3>2. Others /\ proc'[p].pc = "idle" /\ UNCHANGED <<made, embedded>>
        BY <1>d, <2>1 DEF Invalidate
      <3> QED  BY <1>a, <3>1, <3>2
    <2>2. CASE NextClient(p)
      <3>0. UNCHANGED <<made, embedded, cache>>
        BY <2>2 DEF NextClient, service
      <3>1. CASE Return(p)
        BY <1>a, <1>d, <3>0, <3>1
      <3>2. ASSUME NEW x \in proc[p].todo,
                   Become(p, [proc[p] EXCEPT !.pc = "resolve", !.id = x[1], !.cfg = x[2][x[1]],
                                             !.todo = @ \ {x}])
            PROVE  Instances'
        <4>1. x[1] \in ClientId
          BY <2>0 DEF Process
        <4>2. Others /\ proc'[p].pc = "resolve" /\ proc'[p].id = x[1]
          BY <2>0, <3>2 DEF Process, Become
        <4> QED  BY <1>a, <3>0, <4>1, <4>2
      <3> QED  BY <2>2, <3>1, <3>2 DEF NextClient
    <2>3. CASE Resolve(p)
      <3>0. UNCHANGED <<made, embedded, cache>> /\ proc[p].id \in ClientId
        BY <2>3 DEF Resolve, Instances
      <3>1. CASE cache[proc[p].id] = 0
        <4>1. Others /\ proc'[p].pc = "lock" /\ proc'[p].id = proc[p].id
          BY <1>b, <2>3, <3>1 DEF Resolve
        <4> QED  BY <1>a, <3>0, <4>1
      <3>2. CASE cache[proc[p].id] # 0
        <4>1. cache[proc[p].id] \in 1 .. Len(made)
          BY <1>0, <3>0, <3>2 DEF Instances
        <4>2. Others /\ proc'[p].pc = "use" /\ proc'[p].inst = cache[proc[p].id]
          BY <1>e, <2>3, <3>2, <4>1 DEF Resolve, Instances
        <4> QED  BY <1>a, <3>0, <4>1, <4>2
      <3> QED  BY <3>1, <3>2
    <2>4. CASE Lock(p) \/ EmbedLock(p)
      <3>1. Others /\ proc'[p].pc \in {"create", "embedCreate"}
            /\ (proc'[p].pc = "create" => proc[p].pc = "lock" /\ proc'[p].id = proc[p].id)
        BY <1>b, <2>4 DEF Lock, EmbedLock
      <3>2. UNCHANGED <<made, embedded, cache>>
        BY <2>4 DEF Lock, EmbedLock
      <3> QED  BY <1>a, <3>1, <3>2 DEF Instances
    <2>5. CASE EmbedRoot(p)
      <3>1. Others /\ proc'[p].pc \in {"idle", "embedLock"}
        <4>1. CASE Root = {}
          BY <1>d, <2>5, <4>1 DEF EmbedRoot
        <4>2. CASE Root # {}
          <5> DEFINE first == CHOOSE r \in Root : \A q \in Root : r <= q
          <5>1. Become(p, [proc[p] EXCEPT !.pc = "embedLock", !.dir = first])
            BY <2>5, <4>2 DEF EmbedRoot
          <5> HIDE DEF first
          <5> QED  BY <2>0, <5>1 DEF Become, Process
        <4> QED  BY <4>1, <4>2
      <3> QED  BY <1>a, <2>5, <3>1 DEF EmbedRoot, service
    <2>6. CASE EmbedFast(p)
      <3>0. UNCHANGED <<made, embedded, cache>>
        BY <2>6 DEF EmbedFast, service
      <3>1. CASE embedded = 0
        <4>1. Others /\ proc'[p].pc = "embedRoot"
          BY <1>b, <2>6, <3>1 DEF EmbedFast
        <4> QED  BY <1>a, <3>0, <4>1
      <3>2. CASE embedded # 0
        <4>1. embedded \in 1 .. Len(made)
          BY <1>0, <3>2 DEF Instances
        <4>2. Others /\ proc'[p].pc = "use" /\ proc'[p].inst = embedded
          BY <1>f, <2>6, <3>2, <4>1 DEF EmbedFast, Instances
        <4> QED  BY <1>a, <3>0, <4>1, <4>2
      <3> QED  BY <3>1, <3>2
    <2>7. CASE Create(p)
      <3>0. /\ proc[p].id \in ClientId /\ proc[p].cfg \in Row /\ proc[p].kind \in Kind
            /\ UNCHANGED embedded
        BY <2>0, <2>7 DEF Create, Instances, Process
      <3>1. CASE cache[proc[p].id] # 0
        <4>1. cache[proc[p].id] \in 1 .. Len(made) /\ UNCHANGED <<made, cache>>
          BY <1>0, <2>7, <3>0, <3>1 DEF Create, Instances
        <4>2. Others /\ proc'[p].pc = "use" /\ proc'[p].inst = cache[proc[p].id]
          BY <1>e, <2>7, <3>1, <4>1 DEF Create, Instances
        <4> QED  BY <1>a, <3>0, <4>1, <4>2
      <3>2. CASE cache[proc[p].id] = 0 /\ proc[p].cfg.type \notin Factories
        <4>1. Unresolved(p) /\ UNCHANGED <<made, cache>>
          BY <2>7, <3>2 DEF Create
        <4>2. Others /\ proc'[p].pc \in {"idle", "next"}
          BY <1>b, <1>d, <4>1 DEF Unresolved
        <4> QED  BY <1>a, <3>0, <4>1, <4>2
      <3>3. CASE cache[proc[p].id] = 0 /\ proc[p].cfg.type \in Factories
        <4>1. /\ NewClient(proc[p].id, proc[p].cfg, proc[p].kind, 0)
              /\ cache' = [cache EXCEPT ![proc[p].id] = Len(made')]
              /\ Resolved(p, Len(made'), proc[p].cfg.type)
          BY <2>7, <3>3 DEF Create
        <4>2. Grown /\ made'[Len(made')].cfg = proc[p].cfg
          <5>1. /\ Grown
                /\ made'[Len(made')] = [id |-> proc[p].id, cfg |-> proc[p].cfg,
                                         by |-> proc[p].kind, dir |-> 0]
            BY <3>0, <4>1, NewClientGrows DEF Grown
          <5> QED  BY <5>1
        <4>3. Others /\ proc'[p].pc = "use" /\ proc'[p].inst = Len(made')
          BY <1>e, <4>1, <4>2 DEF Grown
        <4>4. made'[Len(made')].cfg.type \in Types
          BY <3>3, <4>2 DEF Factories
        <4>5. \A c \in ClientId : cache'[c] \in {cache[c], Len(made')}
          BY <4>1
        <4> QED  BY <1>g, <3>0, <4>2, <4>3, <4>4, <4>5
      <3> QED  BY <3>1, <3>2, <3>3
    <2>8. CASE EmbedCreate(p)
      <3>1. CASE embedded # 0
        <4>1. embedded \in 1 .. Len(made) /\ UNCHANGED <<made, cache, embedded>>
          BY <1>0, <2>8, <3>1 DEF EmbedCreate, Instances
        <4>2. Others /\ proc'[p].pc = "use" /\ proc'[p].inst = embedded
          BY <1>f, <2>8, <3>1, <4>1 DEF EmbedCreate, Instances
        <4> QED  BY <1>a, <4>1, <4>2
      <3>2. CASE embedded = 0
        <4>1. /\ NewClient(0, DirectCfg, "direct", proc[p].dir)
              /\ embedded' = Len(made') /\ Embedded(p, embedded') /\ UNCHANGED cache
          BY <2>8, <3>2 DEF EmbedCreate
        <4>2. Grown /\ made'[Len(made')].cfg = DirectCfg
          <5>1. proc[p].dir \in Root \cup {0} /\ "direct" \in Kind
            BY <2>0 DEF Process, Kind
          <5>2. /\ Grown
                /\ made'[Len(made')] = [id |-> 0, cfg |-> DirectCfg, by |-> "direct",
                                         dir |-> proc[p].dir]
            BY ZenonT(30), <4>1, <5>1, NewClientGrows, TypeNames DEF Grown
          <5> QED  BY <5>2
        <4>3. Others /\ proc'[p].pc = "use" /\ proc'[p].inst = Len(made')
          BY <1>f, <4>1, <4>2 DEF Grown
        <4>4. made'[Len(made')].cfg.type \in Types
          BY <4>2 DEF DirectCfg, Types
        <4> QED  BY <1>g, <4>1, <4>2, <4>3, <4>4
      <3> QED  BY <3>1, <3>2
    <2>9. CASE Use(p) \/ CallReturns(p)
      <3>1. Others /\ proc'[p].pc \in {"idle", "called", "next"}
        BY <1>b, <1>d, <2>9 DEF Use, CallReturns
      <3> QED  BY <1>a, <2>9, <3>1 DEF Use, CallReturns, service
    <2> QED
      BY <1>1, <1>3, <2>1, <2>2, <2>3, <2>4, <2>5, <2>6, <2>7, <2>8, <2>9 DEF Step, Elsewhere
  <1>4. ASSUME NEW c \in ClientId, CreateClient(c) PROVE Instances'
    BY <1>4 DEF CreateClient, service, Instances
  <1> QED
    BY <1>1, <1>2, <1>3, <1>4 DEF Next, vars, Elsewhere

\* What the beginning of a request does to everything but its own record.
LEMMA BeginGives ==
    ASSUME ServiceTypes, NEW p \in Proc, Begin(p)
    PROVE  /\ proc[p].pc = "idle" /\ conn = Nobody
           /\ \A q \in Proc \ {p} : proc'[q] = proc[q]
           /\ UNCHANGED <<mu, cache, embedded, made, dropped>>
           /\ \/ conn' = conn /\ client' = client /\ proc'[p].pc \in {"idle", "embedFast"}
              \/ /\ conn' = conn /\ client' = client
                 /\ proc'[p].pc \in {"next", "resolve"} /\ proc'[p].kind \in Readers
              \/ /\ conn' = conn /\ proc'[p].pc = "invalidate" /\ proc'[p].id \in ClientId
                 /\ \A d \in ClientId \ {proc'[p].id} : client'[d] = client[d]
              \/ /\ conn' = p /\ client' = client /\ proc'[p].pc = "resolve"
                 /\ proc'[p].cfg = client[proc'[p].id]
  <1>1. CASE GetQueue(p)
    <2>1. proc'[p].pc = "next" /\ proc'[p].kind = "queue" /\ \A q \in Proc \ {p} : proc'[q] = proc[q]
      BY <1>1 DEF GetQueue, Become, Idle, ServiceTypes
    <2> QED  BY <1>1, <2>1 DEF GetQueue, Request, Idle, service, Readers
  <1>2. ASSUME NEW c \in ClientId, GetClientQueue(p, c)
        PROVE  /\ proc[p].pc = "idle" /\ conn = Nobody /\ conn' = conn /\ client' = client
               /\ proc'[p].pc = "resolve" /\ proc'[p].kind \in Readers
               /\ \A q \in Proc \ {p} : proc'[q] = proc[q]
               /\ UNCHANGED <<mu, cache, embedded, made, dropped>>
    <2>1. /\ proc'[p].pc = "resolve" /\ proc'[p].kind = "clientQueue"
          /\ \A q \in Proc \ {p} : proc'[q] = proc[q]
      BY <1>2 DEF GetClientQueue, Become, Idle, ServiceTypes
    <2> QED  BY <1>2, <2>1 DEF GetClientQueue, Request, Idle, service, Readers
  <1>3. ASSUME NEW c \in ClientId, UpdateClient(p, c) \/ DeleteClient(p, c)
        PROVE  /\ proc[p].pc = "idle" /\ conn = Nobody /\ conn' = conn
               /\ proc'[p].pc = "invalidate" /\ proc'[p].id = c
               /\ \A d \in ClientId \ {c} : client'[d] = client[d]
               /\ \A q \in Proc \ {p} : proc'[q] = proc[q]
               /\ UNCHANGED <<mu, cache, embedded, made, dropped>>
    <2>1. PICK k : Become(p, [Idle EXCEPT !.pc = "invalidate", !.kind = k, !.id = c])
      BY <1>3 DEF UpdateClient, DeleteClient
    <2>2. /\ proc'[p].pc = "invalidate" /\ proc'[p].id = c
          /\ \A q \in Proc \ {p} : proc'[q] = proc[q]
      BY <2>1 DEF Become, Idle, ServiceTypes
    <2>3. \A d \in ClientId \ {c} : client'[d] = client[d]
      BY <1>3 DEF UpdateClient, DeleteClient, ServiceTypes
    <2> QED  BY <1>3, <2>2, <2>3 DEF UpdateClient, DeleteClient, Idle, service
  <1>4. ASSUME NEW k \in {"torrent", "usenet", "direct"}, ByTypes(p, k)
        PROVE  /\ proc[p].pc = "idle" /\ conn = Nobody /\ client' = client
               /\ \A q \in Proc \ {p} : proc'[q] = proc[q]
               /\ UNCHANGED <<mu, cache, embedded, made, dropped>>
               /\ \/ conn' = conn /\ proc'[p].pc \in {"idle", "embedFast"}
                  \/ /\ conn' = p /\ proc'[p].pc = "resolve"
                     /\ proc'[p].cfg = client[proc'[p].id]
    <2>1. /\ proc[p].pc = "idle" /\ conn = Nobody /\ client' = client
          /\ UNCHANGED <<mu, cache, embedded, made, dropped>>
      <3>1. Request(p) /\ conn = Nobody /\ UNCHANGED <<client, mu, cache, embedded, made>>
        BY Zenon, <1>4 DEF ByTypes
      <3> QED  BY <3>1 DEF Request, Idle
    <2>2. CASE UNCHANGED <<proc, conn>>
      BY <2>1, <2>2
    <2>3. CASE Become(p, [Idle EXCEPT !.pc = "embedFast", !.kind = k]) /\ UNCHANGED conn
      <3>1. proc'[p].pc = "embedFast" /\ \A q \in Proc \ {p} : proc'[q] = proc[q]
        BY <2>3 DEF Become, Idle, ServiceTypes
      <3> QED  BY <2>1, <2>3, <3>1
    <2>4. ASSUME NEW c \in Rows, conn' = p,
                 Become(p, [Idle EXCEPT !.pc = "resolve", !.kind = k, !.id = c, !.cfg = client[c]])
          PROVE  /\ conn' = p /\ proc'[p].pc = "resolve"
                 /\ proc'[p].cfg = client[proc'[p].id]
                 /\ \A q \in Proc \ {p} : proc'[q] = proc[q]
      BY <2>4 DEF Become, Idle, ServiceTypes
    <2>5. \/ UNCHANGED <<proc, conn>>
          \/ Become(p, [Idle EXCEPT !.pc = "embedFast", !.kind = k]) /\ UNCHANGED conn
          \/ conn' = p /\ \E c \in Rows :
                Become(p, [Idle EXCEPT !.pc = "resolve", !.kind = k, !.id = c, !.cfg = client[c]])
      BY <1>4 DEF ByTypes
    <2> QED  BY <2>1, <2>2, <2>3, <2>4, <2>5
  <1> QED  BY <1>1, <1>2, <1>3, <1>4 DEF Begin

\* The same of a step of a request. It keeps its row and its kind on the way to
\* a client, and only GetQueue sets out again.
LEMMA StepGives ==
    ASSUME ServiceTypes, NEW p \in Proc, Step(p), ~Elsewhere
    PROVE  /\ \A q \in Proc \ {p} : proc'[q] = proc[q]
           /\ client' = client
           /\ \/ mu' = mu /\ (proc'[p].pc \in {"create", "embedCreate"} <=>
                              proc[p].pc \in {"create", "embedCreate"})
              \/ mu \in {Nobody, p} /\ mu' = p /\ proc'[p].pc \in {"create", "embedCreate"}
              \/ /\ proc[p].pc \in {"create", "embedCreate"} /\ mu' = Nobody
                 /\ proc'[p].pc \notin {"create", "embedCreate"}
           /\ \/ /\ proc[p].pc \in {"resolve", "lock"} /\ proc'[p].pc \in {"lock", "create"}
                 /\ proc'[p].id = proc[p].id /\ proc'[p].kind = proc[p].kind
                 /\ proc'[p].cfg = proc[p].cfg /\ conn' = conn
              \/ /\ proc[p].pc = "next" /\ proc'[p].pc = "resolve"
                 /\ proc'[p].kind = proc[p].kind /\ conn' = conn
              \/ /\ proc[p].pc \notin {"resolve", "lock", "create"} /\ conn' = conn
                 /\ proc'[p].pc \notin {"resolve", "lock", "create", "next", "invalidate"}
              \/ /\ FreeConn(p)
                 /\ proc'[p].pc \notin {"resolve", "lock", "create", "next", "invalidate"}
              \/ /\ FreeConn(p) \/ (proc[p].pc = "called" /\ conn' = conn)
                 /\ proc'[p].pc = "next" /\ proc'[p].kind = "queue"
  <1> DEFINE Others == \A q \in Proc \ {p} : proc'[q] = proc[q]
  <1>0. proc[p] \in Process
    BY DEF ServiceTypes
  <1>a. ASSUME Return(p) PROVE Others /\ proc'[p].pc = "idle"
    BY <1>a, BecomeGives DEF Return, Idle
  <1>b. ASSUME Unresolved(p)
        PROVE  /\ Others /\ FreeConn(p)
               /\ \/ proc'[p].pc = "idle"
                  \/ proc'[p].pc = "next" /\ proc'[p].kind = "queue"
    BY <1>a, <1>b, GotoGives DEF Unresolved
  <1>c. ASSUME NEW n, NEW type, Resolved(p, n, type)
        PROVE  Others /\ FreeConn(p) /\ proc'[p].pc = "use"
    BY <1>c, ResolvedGives DEF Resolved
  <1>d. ASSUME NEW n, Embedded(p, n) PROVE Others /\ proc'[p].pc = "use"
    BY <1>d, ResolvedGives
  <1>1. CASE Invalidate(p)
    BY <1>1, <1>a DEF Invalidate
  <1>2. CASE NextClient(p)
    <2>1. CASE Return(p)
      BY <1>2, <2>1, <1>a DEF NextClient, service
    <2>2. ASSUME NEW x \in proc[p].todo,
                 Become(p, [proc[p] EXCEPT !.pc = "resolve", !.id = x[1], !.cfg = x[2][x[1]],
                                           !.todo = @ \ {x}])
          PROVE  Others /\ proc'[p].pc = "resolve" /\ proc'[p].kind = proc[p].kind
      <3>1. Others /\ proc'[p] = [proc[p] EXCEPT !.pc = "resolve", !.id = x[1],
                                                 !.cfg = x[2][x[1]], !.todo = @ \ {x}]
        BY <2>2, BecomeGives
      <3> QED  BY <1>0, <3>1 DEF Process
    <2> QED  BY <1>2, <2>1, <2>2 DEF NextClient, service
  <1>3. CASE Resolve(p)
    <2>1. CASE cache[proc[p].id] = 0
      BY <1>3, <2>1, GotoGives DEF Resolve
    <2>2. CASE cache[proc[p].id] # 0
      BY <1>3, <2>2, <1>c DEF Resolve
    <2> QED  BY <2>1, <2>2
  <1>4. CASE Lock(p) \/ EmbedLock(p)
    BY <1>4, GotoGives DEF Lock, EmbedLock
  <1>5. CASE Create(p)
    <2>1. mu' = Nobody /\ client' = client /\ proc[p].pc = "create"
      BY <1>5 DEF Create
    <2>2. Unresolved(p) \/ \E n, type : Resolved(p, n, type)
      BY <1>5 DEF Create
    <2> QED  BY <1>b, <1>c, <2>1, <2>2
  <1>6. CASE EmbedFast(p)
    BY <1>6, <1>d, GotoGives DEF EmbedFast, service
  <1>7. CASE EmbedRoot(p)
    <2>1. CASE Root = {}
      BY <1>7, <2>1, <1>a DEF EmbedRoot, service
    <2>2. CASE Root # {}
      <3> DEFINE first == CHOOSE r \in Root : \A q \in Root : r <= q
      <3>1. Become(p, [proc[p] EXCEPT !.pc = "embedLock", !.dir = first])
        BY <1>7, <2>2 DEF EmbedRoot
      <3> HIDE DEF first
      <3>2. Others /\ proc'[p].pc = "embedLock"
        <4>1. Others /\ proc'[p] = [proc[p] EXCEPT !.pc = "embedLock", !.dir = first]
          BY <3>1, BecomeGives
        <4> QED  BY <1>0, <4>1 DEF Process
      <3> QED  BY <1>7, <3>2 DEF EmbedRoot, service
    <2> QED  BY <2>1, <2>2
  <1>8. CASE EmbedCreate(p)
    <2>1. PICK n : Embedded(p, n)
      BY <1>8 DEF EmbedCreate
    <2> QED  BY <1>8, <1>d, <2>1 DEF EmbedCreate
  <1>9. CASE Use(p)
    BY <1>9, <1>a, GotoGives DEF Use, service
  <1>10. CASE CallReturns(p)
    BY <1>10, <1>a, GotoGives DEF CallReturns, service
  <1> QED
    BY <1>1, <1>2, <1>3, <1>4, <1>5, <1>6, <1>7, <1>8, <1>9, <1>10 DEF Step, Elsewhere

\* A step of p hands on what its new place asks for.
LEMMA LocksStep == IInv /\ [Next]_vars => Locks'
  <1> SUFFICES ASSUME IInv, [Next]_vars PROVE Locks'
    OBVIOUS
  <1> USE DEF IInv
  <1>0. conn \in Proc \cup {Nobody} /\ mu \in Proc \cup {Nobody} /\ Nobody \notin Proc
    BY ProcAssumption DEF ServiceTypes
  <1>1. CASE Elsewhere
    BY <1>1 DEF Elsewhere, service, Locks
  <1>2. ASSUME NEW p \in Proc, Begin(p) PROVE Locks'
    <2>1. ASSUME NEW q \in Proc PROVE mu' = q <=> proc'[q].pc \in {"create", "embedCreate"}
      BY <1>0, <1>2, BeginGives DEF Locks
    <2>2. ASSUME NEW q \in Proc, conn' = q PROVE proc'[q].pc \in {"resolve", "lock", "create"}
      BY <1>0, <1>2, <2>2, BeginGives DEF Locks
    <2> QED  BY <2>1, <2>2 DEF Locks
  <1>3. ASSUME NEW p \in Proc, Step(p), ~Elsewhere PROVE Locks'
    <2>1. ASSUME NEW q \in Proc PROVE mu' = q <=> proc'[q].pc \in {"create", "embedCreate"}
      BY <1>0, <1>3, StepGives DEF Locks
    <2>2. ASSUME NEW q \in Proc, conn' = q PROVE proc'[q].pc \in {"resolve", "lock", "create"}
      BY <1>0, <1>3, <2>2, StepGives DEF Locks, FreeConn
    <2> QED  BY <2>1, <2>2 DEF Locks
  <1>4. ASSUME NEW c \in ClientId, CreateClient(c) PROVE Locks'
    BY <1>4 DEF CreateClient, service, Locks
  <1> QED
    BY <1>1, <1>2, <1>3, <1>4 DEF Next, vars, Elsewhere

-----------------------------------------------------------------------------
(* What is cached. *)

\* A step that makes no client only drops one.
MakesFor(p, c) ==
    /\ NewClient(c, proc[p].cfg, proc[p].kind, 0)
    /\ proc[p].pc = "create" /\ c = proc[p].id /\ cache[c] = 0
    /\ cache' = [cache EXCEPT ![c] = Len(made')]
    /\ UNCHANGED <<client, embedded, dropped>>
MakesEmbedded(p) ==
    /\ NewClient(0, DirectCfg, "direct", proc[p].dir)
    /\ embedded = 0 /\ embedded' = Len(made')
    /\ UNCHANGED <<client, cache, dropped>>
Drops ==
    /\ UNCHANGED <<made, embedded>>
    /\ \A c \in ClientId : \/ cache'[c] = cache[c] /\ dropped'[c] = dropped[c]
                           \/ cache'[c] = 0 /\ dropped'[c] = dropped[c] + 1

LEMMA CacheGives ==
    ASSUME IInv, [Next]_vars
    PROVE  \/ Drops
           \/ \E p \in Proc : MakesEmbedded(p) \/ \E c \in ClientId : MakesFor(p, c)
  <1> USE DEF IInv
  <1>1. ASSUME UNCHANGED <<cache, made, embedded, dropped>> PROVE Drops
    BY <1>1 DEF Drops
  <1>2. ASSUME NEW p \in Proc, Step(p), ~Elsewhere
        PROVE  \/ Drops \/ MakesEmbedded(p) \/ \E c \in ClientId : MakesFor(p, c)
    <2>1. CASE Invalidate(p)
      BY <2>1 DEF Invalidate, Drops, ServiceTypes
    <2>2. CASE Create(p)
      <3>1. proc[p].id \in ClientId
        BY <2>2 DEF Create, Instances
      <3>2. CASE UNCHANGED <<cache, made>>
        BY <2>2, <3>2 DEF Create, Drops, history
      <3>3. CASE MakesFor(p, proc[p].id)
        BY <3>1, <3>3
      <3>4. UNCHANGED <<cache, made>> \/ MakesFor(p, proc[p].id)
        BY <2>2 DEF Create, MakesFor, history
      <3> QED  BY <3>2, <3>3, <3>4
    <2>3. CASE EmbedCreate(p)
      BY <2>3 DEF EmbedCreate, MakesEmbedded, Drops, history
    <2>4. CASE NextClient(p) \/ EmbedFast(p) \/ EmbedRoot(p) \/ Use(p) \/ CallReturns(p)
      <3>1. UNCHANGED <<service, history>>
        BY <2>4 DEF NextClient, EmbedFast, EmbedRoot, Use, CallReturns
      <3> QED  BY <1>1, <3>1 DEF service, history
    <2>5. CASE Resolve(p) \/ Lock(p) \/ EmbedLock(p)
      <3>1. UNCHANGED <<cache, made, embedded, history>>
        BY <2>5 DEF Resolve, Lock, EmbedLock
      <3> QED  BY <1>1, <3>1 DEF history
    <2> QED
      BY <1>2, <2>1, <2>2, <2>3, <2>4, <2>5 DEF Step, Elsewhere
  <1>3. ASSUME NEW p \in Proc, Begin(p) PROVE Drops
    <2>1. UNCHANGED <<cache, made, embedded, dropped>>
      BY <1>3, BeginGives
    <2> QED  BY <1>1, <2>1
  <1>4. ASSUME NEW c \in ClientId, CreateClient(c) PROVE Drops
    BY <1>1, <1>4 DEF CreateClient, service
  <1>5. CASE Elsewhere \/ UNCHANGED vars
    BY <1>1, <1>5 DEF Elsewhere, vars, service, history
  <1> QED
    BY <1>2, <1>3, <1>4, <1>5 DEF Next, Elsewhere

LEMMA CountedStep == IInv /\ [Next]_vars => Counted'
  <1> SUFFICES ASSUME IInv, [Next]_vars PROVE Counted'
    OBVIOUS
  <1> USE DEF IInv
  <1>0. Len(made) \in Nat /\ \A c : IsFiniteSet(MadeFor(c)) /\ Cardinality(MadeFor(c)) \in Nat
    <2>1. Len(made) \in Nat
      BY LenProperties DEF ServiceTypes
    <2>2. IsFiniteSet(1 .. Len(made))
      BY <2>1, FS_Interval
    <2>3. \A c : MadeFor(c) \subseteq 1 .. Len(made)
      BY DEF MadeFor
    <2> QED  BY <2>1, <2>2, <2>3, FS_Subset, FS_CardinalityType
  <1>1. CASE Drops
    <2>1. \A c : MadeFor(c)' = MadeFor(c)
      BY <1>1 DEF Drops, MadeFor
    <2>2. ASSUME NEW c \in ClientId
          PROVE  Cardinality(MadeFor(c)') <= dropped'[c] + (IF cache'[c] = 0 THEN 0 ELSE 1)
      <3>1. Cardinality(MadeFor(c)) <= dropped[c] + (IF cache[c] = 0 THEN 0 ELSE 1)
        BY DEF Counted
      <3>2. dropped[c] \in Nat
        BY DEF ServiceTypes
      <3> QED  BY <1>0, <1>1, <2>1, <3>1, <3>2 DEF Drops
    <2> QED  BY <1>1, <2>1, <2>2 DEF Drops, Counted
  <1>2. ASSUME NEW id \in ClientId \cup {0}, NEW cfg \in Row, NEW k \in Kind,
               NEW dir \in Root \cup {0}, NewClient(id, cfg, k, dir)
        PROVE  /\ \A c : c # id => MadeFor(c)' = MadeFor(c)
               /\ Cardinality(MadeFor(id)') = Cardinality(MadeFor(id)) + 1
               /\ Len(made') # 0
    <2>1. /\ Len(made') = Len(made) + 1
          /\ made'[Len(made')] = [id |-> id, cfg |-> cfg, by |-> k, dir |-> dir]
          /\ \A n \in 1 .. Len(made) : made'[n] = made[n]
      BY <1>2, NewClientGrows
    <2>2. 1 .. Len(made') = (1 .. Len(made)) \cup {Len(made')} /\ Len(made') \notin 1 .. Len(made)
      BY <1>0, <2>1
    <2>3. made'[Len(made')].id = id
      BY <2>1
    <2>4. ASSUME NEW c, c # id PROVE MadeFor(c)' = MadeFor(c)
      BY <2>1, <2>2, <2>3, <2>4 DEF MadeFor
    <2>5. MadeFor(id)' = MadeFor(id) \cup {Len(made')} /\ Len(made') \notin MadeFor(id)
      BY <2>1, <2>2, <2>3 DEF MadeFor
    <2>6. Cardinality(MadeFor(id)') = Cardinality(MadeFor(id)) + 1
      BY <1>0, <2>5, FS_AddElement
    <2> QED  BY <1>0, <2>1, <2>4, <2>6
  <1>3. ASSUME NEW p \in Proc, NEW c \in ClientId, MakesFor(p, c) PROVE Counted'
    <2>1. proc[p].cfg \in Row /\ proc[p].kind \in Kind /\ c # 0 /\ 0 \in Root \cup {0}
      BY ClientAssumption DEF ServiceTypes, Process
    <2>2. /\ \A d : d # c => MadeFor(d)' = MadeFor(d)
          /\ Cardinality(MadeFor(c)') = Cardinality(MadeFor(c)) + 1 /\ Len(made') # 0
      BY <1>2, <1>3, <2>1 DEF MakesFor
    <2>3. ASSUME NEW d \in ClientId
          PROVE  Cardinality(MadeFor(d)') <= dropped'[d] + (IF cache'[d] = 0 THEN 0 ELSE 1)
      <3>1. Cardinality(MadeFor(d)) <= dropped[d] + (IF cache[d] = 0 THEN 0 ELSE 1)
        BY DEF Counted
      <3>2. dropped[d] \in Nat /\ dropped'[d] = dropped[d]
        BY <1>3 DEF ServiceTypes, MakesFor
      <3>3. CASE d = c
        <4>1. cache[d] = 0 /\ cache'[d] = Len(made')
          BY <1>3, <3>3 DEF MakesFor, ServiceTypes
        <4> QED  BY <1>0, <2>2, <3>1, <3>2, <3>3, <4>1
      <3>4. CASE d # c
        <4>1. cache'[d] = cache[d]
          BY <1>3, <3>4 DEF MakesFor, ServiceTypes
        <4> QED  BY <1>0, <2>2, <3>1, <3>2, <3>4, <4>1
      <3> QED  BY <3>3, <3>4
    <2> QED  BY <1>3, <2>1, <2>2, <2>3 DEF Counted, MakesFor
  <1>4. ASSUME NEW p \in Proc, MakesEmbedded(p) PROVE Counted'
    <2>1. DirectCfg \in Row /\ "direct" \in Kind /\ proc[p].dir \in Root \cup {0}
      BY TypeNames DEF ServiceTypes, Process, Kind
    <2>2. /\ \A d : d # 0 => MadeFor(d)' = MadeFor(d)
          /\ Cardinality(MadeFor(0)') = Cardinality(MadeFor(0)) + 1 /\ Len(made') # 0
      BY <1>2, <1>4, <2>1 DEF MakesEmbedded
    <2>3. Cardinality(MadeFor(0)) = 0
      BY <1>0, <1>4 DEF Counted, MakesEmbedded
    <2>4. \A d \in ClientId : d # 0
      BY ClientAssumption
    <2> QED  BY <1>4, <2>2, <2>3, <2>4 DEF Counted, MakesEmbedded
  <1> QED  BY <1>1, <1>3, <1>4, CacheGives

\* Only Invalidate takes a request out of its pc.
LEMMA InvalidatingStays ==
    ASSUME ServiceTypes, NEW p \in Proc, Step(p), ~Elsewhere, ~Invalidate(p),
           NEW c, Invalidating(c)
    PROVE  Invalidating(c)'
  <1>1. proc[p].pc # "invalidate"
    BY DEF Step, Elsewhere, NextClient, Resolve, Lock, Create, EmbedFast, EmbedRoot,
           EmbedLock, EmbedCreate, Use, CallReturns
  <1>2. PICK q \in Proc : proc[q].pc = "invalidate" /\ proc[q].id = c
    BY DEF Invalidating
  <1>3. proc'[q] = proc[q]
    BY <1>1, <1>2, StepGives
  <1> QED  BY <1>2, <1>3 DEF Invalidating

LEMMA FreshStep == IInv /\ [Next]_vars => Fresh'
  <1> SUFFICES ASSUME IInv, [Next]_vars PROVE Fresh'
    OBVIOUS
  <1> USE DEF IInv
  <1> DEFINE Way(q) == proc[q].pc \in {"resolve", "lock", "create"} /\ proc[q].kind \notin Readers
  <1> DEFINE Held(q) == conn = q /\ proc[q].cfg = client[proc[q].id]
  <1> DEFINE Ok(c) == \/ cache[c] = 0 \/ Invalidating(c)
                      \/ made[cache[c]].cfg = client[c] \/ made[cache[c]].by \in Readers
  <1>0. /\ Nobody \notin Proc /\ Len(made) \in Nat
        /\ \A c \in ClientId : Ok(c) /\ cache[c] \in 0 .. Len(made)
        /\ \A q \in Proc : Way(q) => Held(q)
        /\ \A q \in Proc : proc[q].pc = "next" => proc[q].kind \in Readers
    BY ProcAssumption, LenProperties DEF Fresh, StaleOnlyByReaders, Instances, ServiceTypes
  <1>1. ASSUME Elsewhere PROVE Fresh'
    BY <1>1 DEF Elsewhere, service, Fresh, StaleOnlyByReaders, Invalidating
  <1>2. ASSUME NEW p \in Proc, Begin(p) PROVE Fresh'
    <2>1. \A q \in Proc : proc'[q].pc = "next" => proc'[q].kind \in Readers
      BY <1>0, <1>2, BeginGives
    <2>2. ASSUME NEW q \in Proc, Way(q)' PROVE Held(q)'
      BY <1>0, <1>2, <2>2, BeginGives
    <2>3. ASSUME NEW c \in ClientId PROVE Ok(c)'
      <3>1. UNCHANGED <<cache, made>> /\ proc[p].pc = "idle"
        BY <1>2, BeginGives
      <3>2. CASE Invalidating(c)
        BY <1>2, <3>1, <3>2, BeginGives DEF Invalidating
      <3>3. CASE client'[c] = client[c] /\ ~Invalidating(c)
        BY <1>0, <3>1, <3>3
      <3>4. CASE client'[c] # client[c]
        <4>1. proc'[p].pc = "invalidate" /\ proc'[p].id = c
          BY <1>2, <3>4, BeginGives
        <4> QED  BY <4>1 DEF Invalidating
      <3> QED  BY <3>2, <3>3, <3>4
    <2> QED  BY <2>1, <2>2, <2>3 DEF Fresh, StaleOnlyByReaders
  <1>3. ASSUME NEW p \in Proc, Step(p), ~Elsewhere PROVE Fresh'
    <2>1. \A q \in Proc : proc'[q].pc = "next" => proc'[q].kind \in Readers
      BY <1>0, <1>3, StepGives DEF Readers
    <2>2. ASSUME NEW q \in Proc, Way(q)' PROVE Held(q)'
      <3>1. CASE q = p
        BY <1>0, <1>3, <2>2, <3>1, StepGives
      <3>2. CASE q # p
        <4>1. proc'[q] = proc[q] /\ client' = client
          BY <1>3, <3>2, StepGives
        <4>2. conn = q /\ proc[q].cfg = client[proc[q].id]
          BY <1>0, <2>2, <4>1
        <4>3. conn' = q
          BY <1>0, <1>3, <3>2, <4>2, StepGives DEF FreeConn
        <4> QED  BY <4>1, <4>2, <4>3
      <3> QED  BY <3>1, <3>2
    <2>3. ASSUME NEW c \in ClientId PROVE Ok(c)'
      <3>0. client' = client
        BY <1>3, StepGives
      <3>1. CASE Invalidate(p)
        <4>1. CASE proc[p].id = c
          BY <3>1, <4>1 DEF Invalidate, ServiceTypes
        <4>2. CASE proc[p].id # c
          <5>1. cache'[c] = cache[c] /\ made' = made
            BY <3>1, <4>2 DEF Invalidate, ServiceTypes
          <5>2. Invalidating(c) => Invalidating(c)'
            BY <1>3, <4>2, StepGives DEF Invalidating
          <5> QED  BY <1>0, <3>0, <5>1, <5>2
        <4> QED  BY <4>1, <4>2
      <3>2. CASE ~Invalidate(p)
        <4>1. Invalidating(c) => Invalidating(c)'
          BY <1>3, <3>2, InvalidatingStays
        <4>2. CASE Drops
          BY <1>0, <3>0, <4>1, <4>2 DEF Drops
        <4>3. ASSUME NEW id \in ClientId \cup {0}, NEW cfg \in Row, NEW k \in Kind,
                     NEW dir \in Root \cup {0}, NewClient(id, cfg, k, dir), cache'[c] = cache[c]
              PROVE  Ok(c)'
          <5>1. cache[c] # 0 => made'[cache[c]] = made[cache[c]]
            <6>1. \A n \in 1 .. Len(made) : made'[n] = made[n]
              BY <4>3, NewClientGrows
            <6>2. cache[c] # 0 => cache[c] \in 1 .. Len(made)
              BY <1>0
            <6> QED  BY <6>1, <6>2
          <5> QED  BY <1>0, <3>0, <4>1, <4>3, <5>1
        <4>4. ASSUME NEW q \in Proc, MakesEmbedded(q) PROVE Ok(c)'
          <5>1. DirectCfg \in Row /\ "direct" \in Kind /\ proc[q].dir \in Root \cup {0}
            BY TypeNames DEF ServiceTypes, Process, Kind
          <5> QED  BY <4>3, <4>4, <5>1 DEF MakesEmbedded
        <4>5. ASSUME NEW q \in Proc, NEW d \in ClientId, MakesFor(q, d) PROVE Ok(c)'
          <5>1. proc[q].cfg \in Row /\ proc[q].kind \in Kind /\ 0 \in Root \cup {0}
            BY DEF ServiceTypes, Process
          <5>2. CASE c # d
            <6>1. cache'[c] = cache[c] /\ NewClient(d, proc[q].cfg, proc[q].kind, 0)
              BY <4>5, <5>2 DEF MakesFor, ServiceTypes
            <6> QED  BY <4>3, <5>1, <6>1
          <5>3. CASE c = d
            <6>1. cache'[c] = Len(made') /\ proc[q].pc = "create" /\ c = proc[q].id
              BY <4>5, <5>3 DEF MakesFor, ServiceTypes
            <6>2. made'[Len(made')] = [id |-> c, cfg |-> proc[q].cfg, by |-> proc[q].kind, dir |-> 0]
              BY <4>5, <5>1, <5>3, NewClientGrows DEF MakesFor
            <6>3. proc[q].kind \in Readers \/ proc[q].cfg = client[c]
              BY <1>0, <6>1
            <6> QED  BY <3>0, <6>1, <6>2, <6>3
          <5> QED  BY <5>2, <5>3
        <4> QED  BY <4>2, <4>4, <4>5, CacheGives
      <3> QED  BY <3>1, <3>2
    <2> QED  BY <2>1, <2>2, <2>3 DEF Fresh, StaleOnlyByReaders
  <1>4. ASSUME NEW d \in ClientId, CreateClient(d) PROVE Fresh'
    <2>0. /\ UNCHANGED <<cache, made, proc, conn>> /\ conn = Nobody /\ client[d] = NoRow
          /\ \A c \in ClientId \ {d} : client'[c] = client[c]
      BY <1>4 DEF CreateClient, service, ServiceTypes
    <2>1. ASSUME NEW c \in ClientId PROVE Ok(c)'
      <3>1. CASE c # d
        BY <1>0, <2>0, <3>1 DEF Invalidating
      <3>2. CASE c = d /\ cache[c] # 0
        <4>1. made[cache[c]].cfg.type \in Types
          BY <1>0, <3>2 DEF Instances
        <4>2. made[cache[c]].cfg # client[c]
          BY <2>0, <3>2, <4>1 DEF NoRow, Types
        <4> QED  BY <1>0, <2>0, <3>2, <4>2 DEF Invalidating
      <3>3. CASE c = d /\ cache[c] = 0
        BY <2>0, <3>3
      <3> QED  BY <3>1, <3>2, <3>3
    <2> QED  BY <1>0, <2>0, <2>1 DEF Fresh, StaleOnlyByReaders
  <1>5. CASE UNCHANGED vars
    BY <1>1, <1>5 DEF vars, Elsewhere
  <1> QED
    BY <1>1, <1>2, <1>3, <1>4, <1>5 DEF Next, Elsewhere

-----------------------------------------------------------------------------
(* Calls. *)

\* No step takes a release from SABnzbd altogether.
LEMMA SlotsGrow ==
    ASSUME IInv, [Next]_vars
    PROVE  /\ slots.queue \cup slots.history \subseteq slots'.queue \cup slots'.history
           /\ slots.history \subseteq slots'.history
  <1> USE DEF IInv
  <1>0. slots \in [queue : SUBSET Items, history : SUBSET Items]
    BY DEF CallTypes
  <1>1. CASE UNCHANGED slots
    BY <1>1
  <1>2. ASSUME NEW p \in Proc, SabAdd(p)
        PROVE  UNCHANGED slots \/ slots' = [slots EXCEPT !.queue = @ \cup {call[p].item}]
    BY <1>2 DEF SabAdd
  <1>3. ASSUME NEW r \in Release, SabMoves(r)
        PROVE  slots' = [queue |-> slots.queue \ {r}, history |-> slots.history \cup {r}]
    BY <1>3 DEF SabMoves
  <1>4. CASE \E p \in Proc : SabAdd(p)
    BY <1>0, <1>2, <1>4
  <1>5. CASE \E r \in Release : SabMoves(r)
    BY <1>0, <1>3, <1>5
  <1>6. CASE UNCHANGED extVars
    BY <1>1, <1>6 DEF extVars, programs
  <1>7. ASSUME NEW p \in Proc, CallStep(p), ~SabAdd(p) PROVE UNCHANGED slots
    BY <1>7 DEF CallStep, TrSend, TrStore, QbtLogin, QbtAdd, QbtQueue, SabQueue, SabHistory,
        BhQueue, BhCreate, BhWrite, DirectCall, programs
  <1>8. ASSUME NEW p \in Proc, Use(p) \/ CallReturns(p) PROVE UNCHANGED slots
    BY <1>8 DEF Use, StartCall, CallReturns, programs, extVars
  <1>9. ASSUME NEW p \in Proc, Begin(p) PROVE UNCHANGED extVars
    BY <1>9 DEF Begin, GetQueue, GetClientQueue, UpdateClient, DeleteClient, ByTypes
  <1>10. ASSUME NEW p \in Proc, Step(p), ~Use(p), ~CallReturns(p), ~CallStep(p)
         PROVE  UNCHANGED extVars
    BY <1>10 DEF Step, Invalidate, NextClient, Resolve, Lock, Create, EmbedFast, EmbedRoot,
        EmbedLock, EmbedCreate
  <1>11. CASE TrRotate
    BY <1>1, <1>11 DEF TrRotate
  <1>12. ASSUME NEW c \in ClientId, CreateClient(c) PROVE UNCHANGED extVars
    BY <1>12 DEF CreateClient
  <1> QED
    BY <1>1, <1>4, <1>5, <1>6, <1>7, <1>8, <1>9, <1>10, <1>11, <1>12 DEF Next, vars, ProgramStep

\* A call's own steps keep what it is about and what the bounds remember.
LEMMA CallStepGives ==
    ASSUME call \in [Proc -> Call], NEW p \in Proc, CallStep(p)
    PROVE  /\ UNCHANGED <<epoch, rotated, had>> /\ cut \subseteq cut' /\ cut' \subseteq cut \cup {p}
           /\ \A q \in Proc \ {p} : call'[q] = call[q]
           /\ call'[p].type = call[p].type /\ call'[p].op = call[p].op
           /\ call'[p].inst = call[p].inst
           /\ TrStore(p) \/ (session' = session /\ call'[p].res \in Result \ {"conflict"})
                         \/ (session' = session /\ call'[p].res = call[p].res)
  <1> DEFINE Same == /\ \A q \in Proc \ {p} : call'[q] = call[q]
                     /\ call'[p].type = call[p].type /\ call'[p].op = call[p].op
                     /\ call'[p].inst = call[p].inst
  <1>0. call[p] \in Call
    OBVIOUS
  <1>1. ASSUME NEW res, NEW out, Answer(p, res, out) PROVE Same /\ call'[p].res = res
    <2>1. /\ call'[p] = [call[p] EXCEPT !.pc = "done", !.res = res, !.out = out]
          /\ \A q \in Proc \ {p} : call'[q] = call[q]
      BY <1>1 DEF Answer
    <2> QED  BY <1>0, <2>1 DEF Call
  <1>2. ASSUME NEW pc, NEW n,
               \/ call' = [call EXCEPT ![p].pc = pc]
               \/ call' = [call EXCEPT ![p].pc = pc, ![p].got = n]
               \/ call' = [call EXCEPT ![p].pc = pc, ![p].out = n]
               \/ call' = [call EXCEPT ![p].pc = pc, ![p].tries = n]
        PROVE  Same /\ call'[p].res = call[p].res
    <2>1. \A q \in Proc \ {p} : call'[q] = call[q]
      BY <1>2
    <2>2. \/ call'[p] = [call[p] EXCEPT !.pc = pc]
          \/ call'[p] = [call[p] EXCEPT !.pc = pc, !.got = n]
          \/ call'[p] = [call[p] EXCEPT !.pc = pc, !.out = n]
          \/ call'[p] = [call[p] EXCEPT !.pc = pc, !.tries = n]
      BY <1>2
    <2> QED  BY <1>0, <2>1, <2>2 DEF Call
  <1>3. UNCHANGED <<epoch, rotated, had>>
    BY DEF CallStep, TrSend, TrStore, QbtLogin, QbtAdd, QbtQueue, SabAdd, SabQueue, SabHistory,
           BhQueue, BhCreate, BhWrite, DirectCall, programs, extHistory
  <1>a. cut \subseteq cut' /\ cut' \subseteq cut \cup {p}
    BY DEF CallStep, TrSend, TrStore, QbtLogin, QbtAdd, QbtQueue, SabAdd, SabQueue, SabHistory,
           NoteCut, BhQueue, BhCreate, BhWrite, DirectCall, programs, extHistory
  <1>4. ~TrStore(p) => session' = session
    BY DEF CallStep, TrSend, QbtLogin, QbtAdd, QbtQueue, SabAdd, SabQueue, SabHistory, BhQueue,
           BhCreate, BhWrite, DirectCall
  <1>5. CASE TrStore(p)
    BY SMTT(30), <1>1, <1>2, <1>3, <1>5, <1>a DEF TrStore
  <1>6. CASE ~TrStore(p)
    <2>1. \/ \E res \in {"ok", "connection", "auth", "error", "partial"} : \E out : Answer(p, res, out)
          \/ \E pc, n : \/ call' = [call EXCEPT ![p].pc = pc]
                        \/ call' = [call EXCEPT ![p].pc = pc, ![p].got = n]
                        \/ call' = [call EXCEPT ![p].pc = pc, ![p].out = n]
      <3>1. CASE TrSend(p)
        BY <3>1 DEF TrSend
      <3>2. CASE QbtLogin(p) \/ QbtAdd(p) \/ QbtQueue(p)
        BY <3>2 DEF QbtLogin, QbtAdd, QbtQueue
      <3>3. CASE SabAdd(p) \/ SabQueue(p) \/ SabHistory(p)
        BY <3>3 DEF SabAdd, SabQueue, SabHistory
      <3>4. CASE BhQueue(p) \/ BhCreate(p) \/ BhWrite(p) \/ DirectCall(p)
        BY <3>4 DEF BhQueue, BhCreate, BhWrite, DirectCall
      <3> QED  BY <1>6, <3>1, <3>2, <3>3, <3>4 DEF CallStep
    <2>2. CASE \E res \in {"ok", "connection", "auth", "error", "partial"} : \E out : Answer(p, res, out)
      BY <1>1, <1>3, <1>4, <1>6, <1>a, <2>2 DEF Result
    <2>3. CASE \E pc, n : \/ call' = [call EXCEPT ![p].pc = pc]
                         \/ call' = [call EXCEPT ![p].pc = pc, ![p].got = n]
                         \/ call' = [call EXCEPT ![p].pc = pc, ![p].out = n]
      BY <1>2, <1>3, <1>4, <1>6, <1>a, <2>3
    <2> QED  BY <2>1, <2>2, <2>3
  <1> QED  BY <1>5, <1>6

\* What a step does to the calls.
Starts(p) ==
    \E type \in TypeName, op \in {"add", "queue"}, n \in Instance, r \in Items :
        StartCall(p, type, op, n, r)

LEMMA CallsGive ==
    ASSUME IInv, [Next]_vars
    PROVE  \/ UNCHANGED extVars
           \/ \E p \in Proc : CallStep(p) \/ Starts(p) \/ CallReturns(p)
           \/ ProgramStep
  <1> USE DEF IInv
  <1>1. ASSUME NEW p \in Proc, Use(p) PROVE Starts(p) \/ UNCHANGED extVars
    <2>1. proc[p] \in Process /\ proc[p].inst \in Instance
      BY <1>1 DEF Use, ServiceTypes, Instances
    <2>2. proc[p].cfg.type \in TypeName
      BY <2>1 DEF Process, Row
    <2>3. Release \subseteq Items /\ 0 \in Items
      BY DEF Items
    <2> QED  BY <1>1, <2>1, <2>2, <2>3 DEF Use, Starts
  <1>2. ASSUME NEW p \in Proc, Begin(p) PROVE UNCHANGED extVars
    BY <1>2 DEF Begin, GetQueue, GetClientQueue, UpdateClient, DeleteClient, ByTypes
  <1>3. ASSUME NEW p \in Proc, Step(p), ~Use(p), ~CallReturns(p), ~CallStep(p)
        PROVE  UNCHANGED extVars
    BY <1>3 DEF Step, Invalidate, NextClient, Resolve, Lock, Create, EmbedFast, EmbedRoot,
        EmbedLock, EmbedCreate
  <1>4. ASSUME NEW c \in ClientId, CreateClient(c) PROVE UNCHANGED extVars
    BY <1>4 DEF CreateClient
  <1> QED  BY <1>1, <1>2, <1>3, <1>4 DEF Next, vars

\* What a call is when it begins.
LEMMA StartsGives ==
    ASSUME CallTypes, NEW p \in Proc, NEW type \in TypeName, NEW op \in {"add", "queue"},
           NEW n \in Instance, NEW r \in Items, StartCall(p, type, op, n, r)
    PROVE  /\ \A q \in Proc \ {p} : call'[q] = call[q] /\ had'[q] = had[q]
           /\ call'[p].type = type /\ call'[p].op = op /\ call'[p].inst = n
           /\ call'[p].tries = 0 /\ call'[p].res = "none"
           /\ call'[p].pc = IF type = "qbittorrent" THEN "login" ELSE "send"
           /\ type = "sabnzbd" /\ op = "queue" => had'[p] = slots.queue \cup slots.history
           /\ rotated' = IF type = "transmission" /\ InFlight \cap rotated # {}
                         THEN rotated \cup {p} ELSE rotated \ {p}
           /\ cut' = cut \ {p}
           /\ UNCHANGED <<session, epoch, slots>>
  <1> DEFINE new == [NoCall EXCEPT !.type = type, !.op = op, !.inst = n, !.item = r,
                        !.pc = IF type = "qbittorrent" THEN "login" ELSE "send"]
  <1>1. call'[p] = new /\ \A q \in Proc \ {p} : call'[q] = call[q]
    BY DEF StartCall, CallTypes
  <1>2. /\ new.type = type /\ new.op = op /\ new.inst = n /\ new.tries = 0 /\ new.res = "none"
        /\ new.pc = IF type = "qbittorrent" THEN "login" ELSE "send"
    BY DEF NoCall
  <1>3. /\ \A q \in Proc \ {p} : had'[q] = had[q]
        /\ type = "sabnzbd" /\ op = "queue" => had'[p] = slots.queue \cup slots.history
    BY DEF StartCall, CallTypes
  <1> HIDE DEF new
  <1> QED  BY <1>1, <1>2, <1>3 DEF StartCall, programs

LEMMA SlotsStep == IInv /\ [Next]_vars => Slots'
  <1> SUFFICES ASSUME IInv, [Next]_vars PROVE Slots'
    OBVIOUS
  <1> USE DEF IInv
  <1> DEFINE Known(q) ==
        Asking(q) =>
          /\ call[q].pc = "send" => had[q] \subseteq slots.queue \cup slots.history
          /\ call[q].pc = "history" => had[q] \subseteq call[q].out \cup slots.history
          /\ call[q].res = "ok" => had[q] \subseteq call[q].out
          /\ call[q].pc \in {"send", "history"} => call[q].res = "none"
  <1>0. \A q \in Proc : Known(q)
    BY DEF Slots
  <1>1. ASSUME NEW q \in Proc, call'[q] = call[q], had'[q] = had[q], q \in cut => q \in cut'
        PROVE  Known(q)'
    BY <1>0, <1>1, SlotsGrow DEF Asking
  <1>2. CASE UNCHANGED extVars \/ ProgramStep
    <2>1. UNCHANGED <<call, had, cut>>
      BY <1>2 DEF extVars, callVars, extHistory, ProgramStep, TrRotate, SabMoves
    <2> QED  BY <1>1, <2>1 DEF Slots
  <1>3. ASSUME NEW p \in Proc, CallStep(p) PROVE Slots'
    <2>0. call \in [Proc -> Call] /\ call[p] \in Call
      BY DEF CallTypes
    <2>1. ASSUME NEW q \in Proc \ {p} PROVE Known(q)'
      BY <1>1, <1>3, <2>0, CallStepGives
    <2>2. /\ had' = had /\ call'[p].type = call[p].type /\ call'[p].op = call[p].op
          /\ cut \subseteq cut'
      BY <1>3, <2>0, CallStepGives
    <2>3. ASSUME Asking(p)' PROVE Known(p)'
      <3>1. Asking(p)
        BY <2>2, <2>3 DEF Asking
      <3>2. SabQueue(p) \/ SabHistory(p)
        BY <1>3, <3>1 DEF Asking, CallStep, TrSend, TrStore, QbtLogin, QbtAdd, QbtQueue, SabAdd,
            BhQueue, BhCreate, BhWrite, DirectCall, At
      <3>a. ASSUME NEW res, NEW out, Answer(p, res, out)
            PROVE  call'[p].pc = "done" /\ call'[p].res = res /\ call'[p].out = out
        <4>1. call'[p] = [call[p] EXCEPT !.pc = "done", !.res = res, !.out = out]
          BY <3>a, <2>0 DEF Answer
        <4> QED  BY <2>0, <4>1 DEF Call
      <3>3. CASE SabQueue(p)
        <4>1. CASE \E res \in {"connection"} : \E out : Answer(p, res, out)
          BY <3>a, <4>1
        <4>2. CASE /\ \E s \in Shown(slots.queue, QueueLimit) :
                         call' = [call EXCEPT ![p].pc = "history", ![p].out = s]
                   /\ NoteCut(p, slots.queue, QueueLimit)
          <5>0. call' = [call EXCEPT ![p].pc = "history", ![p].out = slots.queue]
            BY <2>3, <4>2, AllAreShown DEF Asking
          <5>1. call'[p] = [call[p] EXCEPT !.pc = "history", !.out = slots.queue]
            BY <2>0, <5>0
          <5>2. call'[p].pc = "history" /\ call'[p].out = slots.queue /\ call'[p].res = call[p].res
            BY <2>0, <5>1 DEF Call
          <5>3. call[p].pc = "send" /\ slots' = slots
            BY <3>3 DEF SabQueue, At, programs
          <5> QED  BY <1>0, <2>2, <3>1, <5>2, <5>3
        <4> QED  BY <3>3, <4>1, <4>2 DEF SabQueue
      <3>4. CASE SabHistory(p)
        <4>1. call[p].pc = "history"
          BY <3>4 DEF SabHistory, At
        <4>2. CASE /\ \E s \in Shown(slots.history, HistoryLimit) :
                         Answer(p, "ok", call[p].out \cup s)
                   /\ NoteCut(p, slots.history, HistoryLimit)
          <5>1. Answer(p, "ok", call[p].out \cup slots.history)
            BY <2>3, <4>2, AllAreShown DEF Asking
          <5> QED  BY <1>0, <2>2, <3>1, <3>a, <4>1, <5>1
        <4>3. CASE Answer(p, "partial", call[p].out)
          BY <3>a, <4>3
        <4> QED  BY <3>4, <4>2, <4>3 DEF SabHistory
      <3> QED  BY <3>2, <3>3, <3>4
    <2> QED  BY <2>1, <2>3 DEF Slots
  <1>4. ASSUME NEW p \in Proc, CallReturns(p) PROVE Slots'
    <2>1. /\ call'[p] = NoCall /\ had' = had /\ cut' = cut
          /\ \A q \in Proc \ {p} : call'[q] = call[q]
      BY <1>4 DEF CallReturns, extHistory, CallTypes
    <2>2. Known(p)'
      BY <2>1 DEF Asking, NoCall
    <2> QED  BY <1>1, <2>1, <2>2 DEF Slots
  <1>5. ASSUME NEW p \in Proc, Starts(p) PROVE Slots'
    <2>1. PICK type \in TypeName, op \in {"add", "queue"}, n \in Instance, r \in Items :
              StartCall(p, type, op, n, r)
      BY <1>5 DEF Starts
    <2>2. ASSUME NEW q \in Proc \ {p} PROVE Known(q)'
      BY <1>1, <2>1, StartsGives
    <2>3. Known(p)'
      BY <2>1, StartsGives DEF Asking
    <2> QED  BY <2>2, <2>3 DEF Slots
  <1> QED  BY <1>2, <1>3, <1>4, <1>5, CallsGive

LEMMA SessionsStep == IInv /\ [Next]_vars => Sessions'
  <1> SUFFICES ASSUME IInv, [Next]_vars PROVE Sessions'
    OBVIOUS
  <1> USE DEF IInv
  <1> DEFINE Knows(q) ==
        /\ call[q].inst \in Instance
        /\ call[q].pc = "conflict" => call[q].got = epoch /\ call[q].tries = 0
        /\ call[q].pc = "send" /\ call[q].tries = 1 => session[call[q].inst] = epoch
  <1>0. /\ \A q, r \in InFlight : q \in rotated => r \in rotated
        /\ \A q \in InFlight \ rotated : Knows(q)
        /\ \A q \in Proc : call[q].res = "conflict" => q \in rotated
    BY DEF Sessions, ConflictExplained
  <1>1. CASE UNCHANGED extVars \/ \E r \in Release : SabMoves(r)
    <2>1. UNCHANGED <<call, session, epoch, rotated>>
      BY <1>1 DEF extVars, callVars, programs, extHistory, SabMoves
    <2> QED  BY <2>1 DEF Sessions, ConflictExplained, InFlight
  <1>2. CASE TrRotate
    <2>1. UNCHANGED call /\ rotated' = rotated \cup InFlight
      BY <1>2 DEF TrRotate, callVars
    <2> QED  BY <2>1 DEF Sessions, ConflictExplained, InFlight
  <1>3. ASSUME NEW p \in Proc, CallReturns(p) PROVE Sessions'
    <2>1. /\ call'[p] = NoCall /\ UNCHANGED <<session, epoch, rotated>>
          /\ \A q \in Proc \ {p} : call'[q] = call[q]
      BY <1>3 DEF CallReturns, extHistory, programs, CallTypes
    <2>2. InFlight' = InFlight \ {p} /\ \A q \in InFlight \ {p} : call'[q] = call[q]
      BY <2>1 DEF InFlight, NoCall
    <2>3. call'[p].res = "none"
      BY <2>1 DEF NoCall
    <2> QED  BY <1>0, <2>1, <2>2, <2>3 DEF Sessions, ConflictExplained
  <1>4. ASSUME NEW p \in Proc, Starts(p) PROVE Sessions'
    <2>1. PICK type \in TypeName, op \in {"add", "queue"}, n \in Instance, r \in Items :
              StartCall(p, type, op, n, r)
      BY <1>4 DEF Starts
    <2>2. /\ \A q \in Proc \ {p} : call'[q] = call[q]
          /\ call'[p].type = type /\ call'[p].inst = n /\ call'[p].tries = 0
          /\ call'[p].res = "none"
          /\ call'[p].pc = IF type = "qbittorrent" THEN "login" ELSE "send"
          /\ UNCHANGED <<session, epoch>>
      BY <2>1, StartsGives
    <2>3. InFlight' = IF type = "transmission" THEN InFlight \cup {p} ELSE InFlight \ {p}
      BY <2>2 DEF InFlight
    <2>4. rotated' = IF type = "transmission" /\ InFlight \cap rotated # {}
                     THEN rotated \cup {p} ELSE rotated \ {p}
      BY <2>1, StartsGives
    <2>5. \A q, s \in InFlight' : q \in rotated' => s \in rotated'
      BY <1>0, <2>3, <2>4
    <2>6. ASSUME NEW q \in InFlight' \ rotated' PROVE Knows(q)'
      <3>1. CASE q = p
        BY <2>2, <3>1
      <3>2. CASE q # p
        BY <1>0, <2>2, <2>3, <2>4, <3>2 DEF InFlight
      <3> QED  BY <3>1, <3>2
    <2>7. \A q \in Proc : call'[q].res = "conflict" => q \in rotated'
      BY <1>0, <2>2, <2>4
    <2> QED  BY <2>5, <2>6, <2>7 DEF Sessions, ConflictExplained
  <1>5. ASSUME NEW p \in Proc, CallStep(p) PROVE Sessions'
    <2>0. call \in [Proc -> Call] /\ call[p] \in Call /\ session \in [Instance -> Nat]
      BY DEF CallTypes
    <2>1. /\ UNCHANGED <<epoch, rotated>>
          /\ \A q \in Proc \ {p} : call'[q] = call[q]
          /\ call'[p].type = call[p].type /\ call'[p].inst = call[p].inst
      BY <1>5, <2>0, CallStepGives
    <2>a. ASSUME NEW res, NEW out, Answer(p, res, out)
          PROVE  call'[p].pc = "done" /\ call'[p].res = res
      <3>1. call'[p] = [call[p] EXCEPT !.pc = "done", !.res = res, !.out = out]
        BY <2>a, <2>0 DEF Answer
      <3> QED  BY <2>0, <3>1 DEF Call
    <2>2. CASE call[p].type # "transmission"
      <3>1. ~TrStore(p)
        BY <2>2 DEF TrStore, At
      <3>2. InFlight' = InFlight /\ p \notin InFlight
        BY <2>1, <2>2 DEF InFlight
      <3>3. session' = session /\ (call'[p].res # "conflict" \/ call'[p].res = call[p].res)
        BY <1>5, <2>0, <3>1, CallStepGives
      <3>4. \A q \in Proc : call'[q].res = "conflict" => q \in rotated
        BY <1>0, <2>1, <3>3
      <3>5. \A q \in InFlight : call'[q] = call[q]
        BY <2>1, <3>2 DEF InFlight
      <3> QED  BY <1>0, <2>1, <3>2, <3>3, <3>4, <3>5 DEF Sessions, ConflictExplained
    <2>3. CASE TrSend(p)
      <3>0. p \in InFlight /\ call[p].pc = "send" /\ session' = session
        BY <2>3 DEF TrSend, At, InFlight
      <3>1. CASE \E res \in {"ok", "connection", "auth"} : \E out : Answer(p, res, out)
        <4>1. call'[p].pc = "done" /\ call'[p].res # "conflict"
          BY <2>a, <3>1
        <4>2. InFlight' = InFlight \ {p} /\ \A q \in InFlight \ {p} : call'[q] = call[q]
          BY <2>1, <4>1 DEF InFlight
        <4> QED  BY <1>0, <2>1, <3>0, <4>1, <4>2 DEF Sessions, ConflictExplained
      <3>2. CASE session[call[p].inst] # epoch /\
                 call' = [call EXCEPT ![p].pc = "conflict", ![p].got = epoch]
        <4>1. call'[p] = [call[p] EXCEPT !.pc = "conflict", !.got = epoch]
          BY <2>0, <3>2
        <4>2. /\ call'[p].pc = "conflict" /\ call'[p].got = epoch
              /\ call'[p].tries = call[p].tries /\ call'[p].res = call[p].res
          BY <2>0, <4>1 DEF Call
        <4>3. InFlight' = InFlight
          BY <2>1, <3>0, <4>2 DEF InFlight
        <4>4. p \notin rotated => call[p].tries = 0
          BY <1>0, <2>0, <3>0, <3>2 DEF Call
        <4>5. ASSUME NEW q \in InFlight \ rotated PROVE Knows(q)'
          <5>1. CASE q = p
            BY <1>0, <2>1, <4>2, <4>4, <5>1
          <5>2. CASE q # p
            BY <1>0, <2>1, <3>0, <5>2 DEF InFlight
          <5> QED  BY <5>1, <5>2
        <4>6. \A q \in Proc : call'[q].res = "conflict" => q \in rotated
          BY <1>0, <2>1, <4>2
        <4> QED  BY <1>0, <2>1, <4>3, <4>5, <4>6 DEF Sessions, ConflictExplained
      <3> QED  BY <2>3, <3>1, <3>2 DEF TrSend
    <2>4. CASE TrStore(p)
      <3>0. /\ p \in InFlight /\ call[p].pc = "conflict"
            /\ session' = [session EXCEPT ![call[p].inst] = call[p].got]
        BY <2>4 DEF TrStore, At, InFlight
      <3>1. ASSUME NEW q \in InFlight \ rotated, q # p PROVE Knows(q)'
        <4>1. p \notin rotated
          BY <1>0, <3>0, <3>1
        <4>2. call[p].got = epoch /\ Knows(q) /\ call'[q] = call[q]
          BY <1>0, <2>1, <3>0, <3>1, <4>1 DEF InFlight
        <4> QED  BY <2>0, <2>1, <3>0, <4>2
      <3>2. CASE call[p].tries = 1
        <4>1. Answer(p, "conflict", {})
          BY <2>4, <3>2 DEF TrStore
        <4>2. InFlight' = InFlight \ {p}
          BY <2>1, <2>a, <4>1 DEF InFlight
        <4>3. p \in rotated
          BY <1>0, <3>0, <3>2
        <4>4. \A q \in Proc : call'[q].res = "conflict" => q \in rotated
          BY <1>0, <2>1, <4>3
        <4> QED  BY <1>0, <2>1, <3>1, <4>2, <4>4 DEF Sessions, ConflictExplained
      <3>3. CASE call[p].tries # 1
        <4>1. call'[p] = [call[p] EXCEPT !.pc = "send", !.tries = 1]
          BY <2>0, <2>4, <3>3 DEF TrStore
        <4>2. call'[p].pc = "send" /\ call'[p].tries = 1 /\ call'[p].res = call[p].res
          BY <2>0, <4>1 DEF Call
        <4>3. InFlight' = InFlight
          BY <2>1, <3>0, <4>2 DEF InFlight
        <4>4. p \notin rotated => Knows(p)'
          BY <1>0, <2>0, <2>1, <3>0, <4>2
        <4>5. \A q \in Proc : call'[q].res = "conflict" => q \in rotated
          BY <1>0, <2>1, <4>2
        <4> QED  BY <1>0, <2>1, <3>1, <4>3, <4>4, <4>5 DEF Sessions, ConflictExplained
      <3> QED  BY <3>2, <3>3
    <2>5. call[p].type = "transmission" => TrSend(p) \/ TrStore(p)
      BY <1>5 DEF CallStep, QbtLogin, QbtAdd, QbtQueue, SabAdd, SabQueue, SabHistory, BhQueue,
          BhCreate, BhWrite, DirectCall, At
    <2> QED  BY <2>2, <2>3, <2>4, <2>5
  <1> QED  BY <1>1, <1>2, <1>3, <1>4, <1>5, CallsGive DEF ProgramStep

-----------------------------------------------------------------------------
(* The results. *)

\* The invariant: its parts need one another at a step.
THEOREM ResolverInvariant == Spec => []IInv
  <1>1. IInv /\ [Next]_vars => IInv'
    BY CallTypesStep, ServiceTypesStep, InstancesStep, LocksStep, CountedStep, FreshStep,
       SlotsStep, SessionsStep DEF IInv
  <1> QED  BY <1>1, InitIInv, PTL DEF Spec

\* No deadlock over the mutex and the only connection, for any number of
\* requests at once (resolver.go).
THEOREM LocksAreOrdered == Spec => []LockOrder
  <1>1. IInv => LockOrder
    <2> SUFFICES ASSUME IInv PROVE LockOrder
      OBVIOUS
    <2>1. mu \notin WaitsForMutex \cup WaitsForConn
      BY DEF IInv, Locks, WaitsForMutex, WaitsForConn
    <2>2. conn \notin WaitsForConn
      BY DEF IInv, Locks, WaitsForConn
    <2>3. ASSUME NEW p \in Proc, proc[p] = Idle PROVE conn # p /\ mu # p
      <3>1. proc[p].pc = "idle"
        BY <2>3 DEF Idle
      <3> QED  BY <3>1 DEF IInv, Locks
    <2> QED  BY <2>1, <2>2, <2>3 DEF LockOrder
  <1> QED  BY <1>1, ResolverInvariant, PTL

\* One client for a row, one embedded downloader, whatever the requests
\* (getOrCreateClient, getEmbeddedDirectClient).
THEOREM OneClient == Spec => []OneClientPerRow
  <1>1. IInv => OneClientPerRow
    <2> SUFFICES ASSUME IInv PROVE OneClientPerRow
      OBVIOUS
    <2>1. \A c : Cardinality(MadeFor(c)) \in Nat
      <3>1. IsFiniteSet(1 .. Len(made))
        BY FS_Interval, LenProperties DEF IInv, ServiceTypes
      <3>2. \A c : MadeFor(c) \subseteq 1 .. Len(made)
        BY DEF MadeFor
      <3> QED  BY <3>1, <3>2, FS_Subset, FS_CardinalityType
    <2>2. dropped \in [ClientId -> Nat]
      BY DEF IInv, ServiceTypes
    <2> QED  BY <2>1, <2>2 DEF IInv, Counted, OneClientPerRow
  <1> QED  BY <1>1, ResolverInvariant, PTL

\* Only a reader that had let go of the connection leaves an outdated client
\* in the cache (resolver.go, service.go).
THEOREM StaleClients == Spec => []StaleOnlyByReaders
  <1>1. IInv => StaleOnlyByReaders
    BY DEF IInv, Fresh
  <1> QED  BY <1>1, ResolverInvariant, PTL

\* The second try of rpc is enough unless Transmission changes its session id
\* meanwhile (transmission/client.go).
THEOREM SessionIsKept == Spec => []ConflictExplained
  <1>1. IInv => ConflictExplained
    BY DEF IInv, Sessions
  <1> QED  BY <1>1, ResolverInvariant, PTL

\* Asking for the queue before the history loses no release, unless one of them
\* is longer than the call asks for (sabnzbd/client.go).
THEOREM SlotsAreKept == Spec => []NoSlotLost
  <1>1. IInv => NoSlotLost
    BY DEF IInv, Slots, Asking, NoSlotLost
  <1> QED  BY <1>1, ResolverInvariant, PTL
================================================================================
