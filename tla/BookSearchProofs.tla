---------------------------- MODULE BookSearchProofs ----------------------------
(***************************************************************************)
(* The searches for any number of requests, sources, answers and restarts. *)
(* One conjunct of IInv speaks of a request by itself, one of the cached   *)
(* clients against the table, one of the saved results.                    *)
(***************************************************************************)
EXTENDS BookSearch, TLAPS

Kinds == (UNION Answers) \cup Key
Asked == [id : IndexerId \cup Library, ver : Nat]
Result == [from : Asked \cup Nat, kind : Kinds]
TypeName == {"none", "newznab", "torznab", "other", ""}
IndexerRow == [type : TypeName, enabled : BOOLEAN, ver : Nat]
PC == {"idle", "load", "drop", "ask", "save", "walk", "done"}
ReqKind == {"none", "change", "delete", "search", "library", "book", "merge", "fetch"}
Process == [pc : PC, kind : ReqKind, id : IndexerId \cup Nat, cfg : IndexerRow,
            query : {"isbn", "title"}, out : SUBSET Result, err : BOOLEAN]
Fan == [begun : BOOLEAN, ask : SUBSET Asked, got : SUBSET Result, failed : BOOLEAN]
Walk == [next : Nat, named : Nat, any : BOOLEAN, failed : BOOLEAN]

Types ==
    /\ indexer \in [IndexerId -> IndexerRow] /\ clients \in [IndexerId -> Nat]
    /\ proc \in [Proc -> Process] /\ fan \in [Proc -> Fan]
    /\ requests \in Nat /\ changes \in Nat
    /\ heard \in [Proc -> SUBSET Result] /\ todo \in [Proc -> SUBSET Result]
    /\ walk \in [Proc -> Walk]

\* Of several results of one kind the earliest provider's.
Earliest(res) == {r \in res : \A o \in res : o.kind = r.kind => r.from <= o.from}

\* A finished request, and one that is still under way.
Finished(p) ==
    /\ proc[p].kind \in {"search", "library"} => proc[p].out = heard[p]
    /\ proc[p].kind = "book" => proc[p].out = Ebooks(heard[p])
    /\ proc[p].kind \in {"merge", "fetch"} => proc[p].out = Earliest(heard[p])
    /\ proc[p].err => heard[p] = {}
Merged(out, res, n) ==
    /\ out = Earliest(res)
    /\ \A h \in res : /\ h.from \in Nat /\ h.from < n
                      /\ \E r \in out : r.kind = h.kind
Merging(p) ==
    /\ Merged(proc[p].out, heard[p], walk[p].next)
    /\ ~walk[p].any => heard[p] = {}
RequestOk(p) ==
    /\ proc[p].pc \in {"drop", "load"} <=> proc[p].kind \in {"change", "delete"}
    /\ proc[p].pc # "ask" => fan[p] = NoFan
    /\ proc[p].pc \in {"idle", "drop", "load"} => heard[p] = {}
    /\ proc[p].pc = "ask" => /\ fan[p].got = heard[p] /\ proc[p].out = {} /\ ~proc[p].err
                             /\ proc[p].kind \in {"search", "library", "book"}
    /\ proc[p].pc = "save" => /\ proc[p].kind = "book" /\ proc[p].out = Ebooks(heard[p])
                              /\ ~proc[p].err
    /\ todo[p] # {} => proc[p].pc = "save"
    /\ proc[p].pc = "walk" => /\ proc[p].kind \in {"merge", "fetch"} /\ ~proc[p].err
                              /\ proc[p].kind = "fetch" => heard[p] = {}
                              /\ Merging(p)
    /\ proc[p].pc = "done" => Finished(p)
Requests == \A p \in Proc : RequestOk(p)

\* The row a change has written is there until another request writes it.
Expected(i) == IF Loadable(indexer[i]) THEN indexer[i].ver ELSE 0
Cached(i) ==
    /\ Changing(i) = {} => clients[i] = Expected(i)
    /\ \A p, q \in Changing(i) : p = q
    /\ \A p \in Changing(i) :
        /\ proc[p].kind = "delete" => indexer[i] = Deleted /\ proc[p].pc = "drop"
        /\ proc[p].kind = "change" => indexer[i] = proc[p].cfg
        /\ proc[p].pc = "load" => clients[i] = 0 /\ proc[p].cfg.enabled
Caching == \A i \in IndexerId \ raced : Cached(i)

\* What is saved and what is still to be saved are the last search's results.
Pending == UNION {{Row(p, r) : r \in todo[p]} : p \in Proc}
Saved == ~torn => saved \cup Pending = last /\ \A p, q \in Saving : p = q

IInv == Types /\ Requests /\ Caching /\ Saved

-----------------------------------------------------------------------------
LEMMA TypeFacts ==
    /\ NoRow \in IndexerRow /\ Deleted \in IndexerRow /\ Idle \in Process /\ NoFan \in Fan
    /\ Still \in Walk /\ Still.next = 1 /\ Still.any = FALSE
    /\ AskLibraries \subseteq Asked
    /\ \A p : Types => Ebooks(fan[p].got) \subseteq fan[p].got
  <1>1. NoRow \in IndexerRow /\ Deleted \in IndexerRow
    BY DEF NoRow, Deleted, IndexerRow, TypeName
  <1>2. Idle \in Process
    BY <1>1 DEF Idle, Process, PC, ReqKind
  <1> QED  BY <1>1, <1>2 DEF NoFan, Fan, Still, Walk, AskLibraries, Asked, Ebooks

LEMMA InitIInv == Init => IInv
  <1> SUFFICES ASSUME Init PROVE IInv
    OBVIOUS
  <1> USE DEF Init, IdxInit
  <1>1. Types
    <2>1. indexer \in [IndexerId -> IndexerRow]
      <3>1. [type |-> "newznab", enabled |-> TRUE, ver |-> 2] \in IndexerRow
        BY DEF IndexerRow, TypeName
      <3> QED  BY <3>1, TypeFacts
    <2>2. clients \in [IndexerId -> Nat]
      <3>1. \A i \in IndexerId : indexer[i].ver \in Nat
        BY <2>1 DEF IndexerRow
      <3> QED  BY <3>1
    <2> QED  BY <2>1, <2>2, TypeFacts DEF Types
  <1>2. Requests
    BY DEF Requests, RequestOk, Idle, Finished, Merging
  <1>3. Caching
    BY DEF Caching, Cached, Changing, Idle, Expected
  <1>4. Saved
    BY DEF Saved, Saving, Pending
  <1> QED  BY <1>1, <1>2, <1>3, <1>4 DEF IInv

-----------------------------------------------------------------------------
(* A step of request p is about p alone. *)

Others(p) ==
    \A q \in Proc \ {p} :
        /\ proc'[q] = proc[q] /\ fan'[q] = fan[q] /\ heard'[q] = heard[q]
        /\ todo'[q] = todo[q] /\ walk'[q] = walk[q]

\* What a request was doing becomes r, f, h, t, w.
Becomes(p, r, f, h, t, w) ==
    /\ proc' = [proc EXCEPT ![p] = r] /\ fan' = [fan EXCEPT ![p] = f]
    /\ heard' = [heard EXCEPT ![p] = h] /\ todo' = [todo EXCEPT ![p] = t]
    /\ walk' = [walk EXCEPT ![p] = w]

Local(p) ==
    /\ proc' \in [Proc -> Process] /\ fan' \in [Proc -> Fan]
    /\ heard' \in [Proc -> SUBSET Result] /\ todo' \in [Proc -> SUBSET Result]
    /\ walk' \in [Proc -> Walk]
    /\ Others(p)

LEMMA BecomesGives ==
    ASSUME Types, NEW p \in Proc, NEW r \in Process, NEW f \in Fan, NEW h \in SUBSET Result,
           NEW t \in SUBSET Result, NEW w \in Walk, Becomes(p, r, f, h, t, w)
    PROVE  /\ Local(p)
           /\ proc'[p] = r /\ fan'[p] = f /\ heard'[p] = h /\ todo'[p] = t /\ walk'[p] = w
  BY DEF Types, Becomes, Local, Others

\* A step that leaves an aspect of the requests alone.
LEMMA Leaves ==
    ASSUME Types, NEW p \in Proc
    PROVE  /\ proc = [proc EXCEPT ![p] = proc[p]] /\ fan = [fan EXCEPT ![p] = fan[p]]
           /\ heard = [heard EXCEPT ![p] = heard[p]] /\ todo = [todo EXCEPT ![p] = todo[p]]
           /\ walk = [walk EXCEPT ![p] = walk[p]]
           /\ proc[p] \in Process /\ fan[p] \in Fan /\ heard[p] \subseteq Result
           /\ todo[p] \subseteq Result /\ walk[p] \in Walk
  BY DEF Types

LEMMA BodyTypes ==
    ASSUME changes \in Nat, NEW b \in Body
    PROVE  RowOf(b) \in IndexerRow /\ RowOf(Created(b)) \in IndexerRow
  <1>1. b.type \in TypeName /\ b.enabled \in BOOLEAN
    BY DEF Body, TypeName
  <1>2. Created(b).type \in TypeName /\ Created(b).enabled \in BOOLEAN
    <2>1. CASE b.impl = "none"
      BY <1>1, <2>1 DEF Created
    <2>2. CASE b.impl # "none"
      <3>1. b \in [impl : {"Newznab", "Torznab"}, type : {""}, enabled : {FALSE}]
        BY <2>2 DEF Body
      <3>2. \E t \in {"newznab", "torznab"} : Created(b) = [b EXCEPT !.type = t, !.enabled = TRUE]
        BY <2>2 DEF Created
      <3> QED  BY <3>1, <3>2 DEF TypeName
    <2> QED  BY <2>1, <2>2
  <1> QED  BY <1>1, <1>2 DEF RowOf, IndexerRow

LEMMA IdxRequestStep ==
    ASSUME Types, Requests, NEW p \in Proc, IdxRequest(p), UNCHANGED <<bookVars, walk>>
    PROVE  Local(p) /\ RequestOk(p)'
  <1>0. RequestOk(p) /\ UNCHANGED <<todo, walk>> /\ proc[p] = Idle
    BY DEF Requests, bookVars, IdxRequest, Request, CreateIndexer, UpdateIndexer, DeleteIndexer,
           SearchBegin
  <1>a. fan[p] = NoFan /\ heard[p] = {} /\ todo[p] = {}
    BY <1>0 DEF RequestOk, Idle
  <1>1. ASSUME UNCHANGED <<fan, heard>>, NEW r \in Process, Become(p, r),
               r = Idle \/ (r.pc \in {"load", "drop"} /\ r.kind \in {"change", "delete"})
        PROVE  Local(p) /\ RequestOk(p)'
    <2>1. Becomes(p, r, fan[p], heard[p], todo[p], walk[p])
      BY <1>0, <1>1, Leaves DEF Becomes, Become
    <2>2. Local(p) /\ proc'[p] = r /\ fan'[p] = fan[p] /\ heard'[p] = heard[p] /\ todo'[p] = todo[p]
      BY <2>1, Leaves, BecomesGives
    <2> QED  BY <1>1, <1>a, <2>2 DEF RequestOk, Idle
  <1>2. ASSUME NEW i \in IndexerId, NEW row \in IndexerRow, NEW pc \in {"load", "drop"},
               NEW k \in {"change", "delete"}, UNCHANGED <<fan, heard>>,
               \/ Become(p, [Idle EXCEPT !.pc = pc, !.kind = k, !.id = i, !.cfg = row])
               \/ Become(p, [Idle EXCEPT !.pc = pc, !.kind = k, !.id = i])
        PROVE  Local(p) /\ RequestOk(p)'
    <2> DEFINE r1 == [Idle EXCEPT !.pc = pc, !.kind = k, !.id = i, !.cfg = row]
               r2 == [Idle EXCEPT !.pc = pc, !.kind = k, !.id = i]
    <2>1. r1 \in Process /\ r1.pc = pc /\ r1.kind = k
      BY TypeFacts DEF Process, PC, ReqKind, Idle
    <2>2. r2 \in Process /\ r2.pc = pc /\ r2.kind = k
      BY TypeFacts DEF Process, PC, ReqKind, Idle
    <2>3. Become(p, r1) \/ Become(p, r2)
      BY <1>2
    <2> HIDE DEF r1, r2
    <2> QED  BY <1>1, <1>2, <2>1, <2>2, <2>3
  <1>3. CASE CreateIndexer(p)
    <2>1. PICK body \in Body, i \in IndexerId :
            Become(p, IF ~Created(body).enabled THEN Idle
                      ELSE [Idle EXCEPT !.pc = "load", !.kind = "change", !.id = i,
                                        !.cfg = RowOf(Created(body))])
      BY <1>3 DEF CreateIndexer
    <2>2. RowOf(Created(body)) \in IndexerRow
      BY BodyTypes DEF Types
    <2>3. UNCHANGED <<fan, heard>>
      BY <1>3 DEF CreateIndexer
    <2>4. CASE Created(body).enabled
      BY <1>2, <2>1, <2>2, <2>3, <2>4
    <2>5. CASE ~Created(body).enabled
      BY <1>1, <2>1, <2>3, <2>5, TypeFacts
    <2> QED  BY <2>4, <2>5
  <1>4. CASE UpdateIndexer(p)
    <2>1. PICK b \in Body, i \in IndexerId :
            Become(p, [Idle EXCEPT !.pc = "drop", !.kind = "change", !.id = i, !.cfg = RowOf(b)])
      BY <1>4 DEF UpdateIndexer, Rows
    <2>2. RowOf(b) \in IndexerRow /\ UNCHANGED <<fan, heard>>
      BY <1>4, BodyTypes DEF Types, UpdateIndexer
    <2> QED  BY <1>2, <2>1, <2>2
  <1>5. CASE DeleteIndexer(p)
    <2>1. PICK i \in IndexerId :
            Become(p, [Idle EXCEPT !.pc = "drop", !.kind = "delete", !.id = i])
      BY <1>5 DEF DeleteIndexer, Rows
    <2>2. NoRow \in IndexerRow /\ UNCHANGED <<fan, heard>>
      BY <1>5, TypeFacts DEF DeleteIndexer
    <2> QED  BY <1>2, <2>1, <2>2
  <1>6. CASE SearchBegin(p)
    <2> DEFINE r == [Idle EXCEPT !.pc = "ask", !.kind = "search"]
               f == [NoFan EXCEPT !.ask = Clients]
    <2>1. Clients \subseteq Asked
      BY DEF Clients, Client, Asked, Types
    <2>2. r \in Process /\ r.pc = "ask" /\ r.kind = "search" /\ r.out = {} /\ r.err = FALSE
      BY TypeFacts DEF Process, PC, ReqKind, Idle
    <2>3. f \in Fan /\ f.got = {}
      BY <2>1, TypeFacts DEF Fan, NoFan
    <2>4. Becomes(p, r, f, heard[p], todo[p], walk[p])
      BY <1>0, <1>6, Leaves DEF SearchBegin, Becomes, Become
    <2> HIDE DEF r, f
    <2>5. /\ Local(p) /\ proc'[p] = r /\ fan'[p] = f /\ heard'[p] = heard[p]
          /\ todo'[p] = todo[p]
      BY <2>2, <2>3, <2>4, Leaves, BecomesGives
    <2> QED  BY <1>a, <2>2, <2>3, <2>5 DEF RequestOk
  <1> QED  BY <1>3, <1>4, <1>5, <1>6 DEF IdxRequest

\* The steps of a request for an indexer and the goroutines of any search.
LEMMA IdxStepStep ==
    ASSUME Types, Requests, NEW p \in Proc, IdxStep(p), UNCHANGED <<bookVars, walk>>
    PROVE  Local(p) /\ RequestOk(p)'
  <1>0. RequestOk(p) /\ UNCHANGED <<todo, walk>>
    BY DEF Requests, bookVars
  <1>1. CASE Drop(p) \/ loadClient(p)
    <2>1. /\ fan[p] = NoFan /\ heard[p] = {} /\ todo[p] = {} /\ UNCHANGED <<fan, heard>>
          /\ proc[p].kind \in {"change", "delete"}
      BY <1>0, <1>1 DEF Drop, loadClient, RequestOk
    <2>2. Goto(p, "load") \/ Return(p)
      BY <1>1 DEF Drop, loadClient
    <2>3. CASE Goto(p, "load")
      <3> DEFINE r == [proc[p] EXCEPT !.pc = "load"]
      <3>1. r \in Process /\ r.pc = "load" /\ r.kind = proc[p].kind
        BY Leaves DEF Process, PC
      <3>2. Becomes(p, r, fan[p], heard[p], todo[p], walk[p])
        BY <1>0, <2>1, <2>3, Leaves DEF Becomes, Goto
      <3> HIDE DEF r
      <3> QED  BY <2>1, <3>1, <3>2, Leaves, BecomesGives DEF RequestOk
    <2>4. CASE Return(p)
      <3>1. Becomes(p, Idle, fan[p], heard[p], todo[p], walk[p])
        BY <1>0, <2>1, <2>4, Leaves DEF Becomes, Return, Become
      <3>2. /\ Local(p) /\ proc'[p] = Idle /\ fan'[p] = NoFan /\ heard'[p] = {} /\ todo'[p] = {}
        BY <2>1, <3>1, Leaves, TypeFacts, BecomesGives
      <3> QED  BY <3>2 DEF RequestOk, Idle
    <2> QED  BY <2>2, <2>3, <2>4
  <1>2. CASE FanStep(p)
    <2>1. proc[p].pc = "ask" /\ todo[p] = {} /\ fan[p].got = heard[p]
      BY <1>0, <1>2 DEF FanStep, Snapshot, RequestOk, NoFan
    <2>2. ASSUME NEW f \in Fan, NEW h \in SUBSET Result, f.got = h,
                 proc' = proc, fan' = [fan EXCEPT ![p] = f], heard' = [heard EXCEPT ![p] = h]
          PROVE  Local(p) /\ RequestOk(p)'
      <3>1. Becomes(p, proc[p], f, h, todo[p], walk[p])
        BY <1>0, <2>2, Leaves DEF Becomes
      <3>2. /\ Local(p) /\ proc'[p] = proc[p] /\ fan'[p] = f /\ heard'[p] = h /\ todo'[p] = todo[p]
        BY <3>1, Leaves, BecomesGives
      <3> QED  BY <1>0, <2>1, <2>2, <3>2 DEF RequestOk
    <2>3. CASE Snapshot(p)
      <3> DEFINE f == [fan[p] EXCEPT !.begun = TRUE, !.ask = @ \cup Clients]
      <3>1. Clients \subseteq Asked
        BY DEF Clients, Client, Asked, Types
      <3>2. f \in Fan /\ f.got = fan[p].got
        BY <3>1, Leaves DEF Fan
      <3>3. fan' = [fan EXCEPT ![p] = f] /\ heard' = [heard EXCEPT ![p] = heard[p]] /\ proc' = proc
        BY <2>3, Leaves DEF Snapshot
      <3> HIDE DEF f
      <3> QED  BY <2>1, <2>2, <3>2, <3>3, Leaves
    <2>4. ASSUME NEW s \in fan[p].ask, Reply(p, s) PROVE Local(p) /\ RequestOk(p)'
      <3>1. PICK kinds \in Answers :
              /\ fan' = [fan EXCEPT ![p].ask = @ \ {s},
                                    ![p].got = @ \cup {[from |-> s, kind |-> k] : k \in kinds}]
              /\ heard' = [heard EXCEPT ![p] = @ \cup {[from |-> s, kind |-> k] : k \in kinds}]
        BY <2>4 DEF Reply
      <3> DEFINE res == {[from |-> s, kind |-> k] : k \in kinds}
                 f == [fan[p] EXCEPT !.ask = @ \ {s}, !.got = @ \cup res]
      <3>2. res \subseteq Result
        <4>1. s \in Asked /\ kinds \subseteq Kinds
          BY Leaves DEF Fan, Kinds
        <4> QED  BY <4>1 DEF Result
      <3>3. fan' = [fan EXCEPT ![p] = f] /\ heard' = [heard EXCEPT ![p] = heard[p] \cup res]
        BY <3>1
      <3> HIDE DEF res
      <3>4. f \in Fan /\ f.got = heard[p] \cup res
        BY <2>1, <3>2, Leaves DEF Fan
      <3>5. proc' = proc /\ heard[p] \cup res \subseteq Result
        BY <2>4, <3>2, Leaves DEF Reply
      <3> HIDE DEF f
      <3> QED  BY <2>2, <3>3, <3>4, <3>5
    <2>5. ASSUME NEW s \in fan[p].ask, ReplyFails(p, s) PROVE Local(p) /\ RequestOk(p)'
      <3> DEFINE f == [fan[p] EXCEPT !.ask = @ \ {s}, !.failed = TRUE]
      <3>1. f \in Fan /\ f.got = fan[p].got
        BY Leaves DEF Fan
      <3>2. fan' = [fan EXCEPT ![p] = f] /\ heard' = [heard EXCEPT ![p] = heard[p]] /\ proc' = proc
        BY <2>5, Leaves DEF ReplyFails
      <3> HIDE DEF f
      <3> QED  BY <2>1, <2>2, <3>1, <3>2, Leaves
    <2> QED  BY <1>2, <2>3, <2>4, <2>5 DEF FanStep
  <1>3. CASE SearchDone(p)
    <2> DEFINE r == [proc[p] EXCEPT !.pc = "done", !.out = fan[p].got,
                                    !.err = (fan[p].got = {} /\ fan[p].failed)]
    <2>1. proc[p].kind = "search" /\ fan[p].got = heard[p] /\ todo[p] = {}
      BY <1>0, <1>3 DEF SearchDone, Collected, RequestOk
    <2>2. /\ r \in Process /\ r.pc = "done" /\ r.kind = "search" /\ r.out = heard[p]
          /\ r.err => heard[p] = {}
      BY <2>1, Leaves DEF Process, PC, Fan
    <2>3. Becomes(p, r, NoFan, heard[p], todo[p], walk[p])
      BY <1>0, <1>3, Leaves DEF Becomes, SearchDone, Become
    <2> HIDE DEF r
    <2>4. /\ Local(p) /\ proc'[p] = r /\ fan'[p] = NoFan /\ heard'[p] = heard[p] /\ todo'[p] = {}
      BY <2>1, <2>2, <2>3, TypeFacts, Leaves, BecomesGives
    <2> QED  BY <2>2, <2>4 DEF RequestOk, Finished
  <1>4. CASE Respond(p)
    <2>1. fan[p] = NoFan /\ todo[p] = {}
      BY <1>0, <1>4 DEF Respond, RequestOk
    <2>2. Becomes(p, Idle, fan[p], {}, todo[p], walk[p])
      BY <1>0, <1>4, Leaves DEF Becomes, Respond, Return, Become
    <2>3. /\ Local(p) /\ proc'[p] = Idle /\ fan'[p] = NoFan /\ heard'[p] = {} /\ todo'[p] = {}
      BY <2>1, <2>2, Leaves, TypeFacts, BecomesGives
    <2> QED  BY <2>3 DEF RequestOk, Idle
  <1> QED  BY <1>1, <1>2, <1>3, <1>4 DEF IdxStep

\* The searches of the libraries and for a book.
LEMMA BookStep ==
    ASSUME Types, Requests, NEW p \in Proc,
           \/ LibraryBegin(p) \/ LibraryDone(p) \/ BookBegin(p) \/ BookAgain(p)
           \/ BookNothing(p) \/ BookFound(p) \/ SaveOne(p) \/ SaveFails(p)
    PROVE  Local(p) /\ RequestOk(p)'
  <1>0. RequestOk(p)
    BY DEF Requests
  <1>a. ASSUME Collected(p)
        PROVE  /\ fan[p].got = heard[p] /\ proc[p].out = {} /\ ~proc[p].err /\ todo[p] = {}
               /\ fan[p].got \subseteq Result /\ Ebooks(fan[p].got) \subseteq Result
    BY <1>0, <1>a, Leaves DEF Collected, RequestOk, Fan, Ebooks
  <1>1. CASE LibraryBegin(p) \/ BookBegin(p)
    <2>1. /\ proc[p] = Idle /\ heard[p] = {} /\ todo[p] = {}
      BY <1>0, <1>1 DEF LibraryBegin, BookBegin, Request, RequestOk, Idle
    <2>2. PICK r \in Process, f \in Fan :
            /\ Become(p, r) /\ fan' = [fan EXCEPT ![p] = f]
            /\ r.pc = "ask" /\ r.kind \in {"library", "book"} /\ r.out = {} /\ ~r.err
            /\ f.got = {}
      <3>1. CASE LibraryBegin(p)
        <4> DEFINE r == [Idle EXCEPT !.pc = "ask", !.kind = "library"]
                   f == [NoFan EXCEPT !.ask = AskLibraries]
        <4>1. r \in Process /\ r.pc = "ask" /\ r.kind = "library" /\ r.out = {} /\ r.err = FALSE
          BY TypeFacts DEF Process, PC, ReqKind, Idle
        <4>2. f \in Fan /\ f.got = {}
          BY TypeFacts DEF Fan, NoFan
        <4>3. Become(p, r) /\ fan' = [fan EXCEPT ![p] = f]
          BY <3>1 DEF LibraryBegin
        <4> HIDE DEF r, f
        <4> QED  BY <4>1, <4>2, <4>3
      <3>2. CASE BookBegin(p)
        <4>1. PICK q \in {"isbn", "title"} :
                Become(p, [Idle EXCEPT !.pc = "ask", !.kind = "book", !.id = requests',
                                       !.query = q])
          BY <3>2 DEF BookBegin
        <4> DEFINE r == [Idle EXCEPT !.pc = "ask", !.kind = "book", !.id = requests', !.query = q]
                   f == [NoFan EXCEPT !.begun = FALSE, !.ask = AskLibraries]
        <4>0. requests' \in Nat
          BY <3>2 DEF BookBegin, Request, Types
        <4>2. r \in Process /\ r.pc = "ask" /\ r.kind = "book" /\ r.out = {} /\ r.err = FALSE
          BY <4>0, TypeFacts DEF Process, PC, ReqKind, Idle
        <4>3. f \in Fan /\ f.got = {}
          BY TypeFacts DEF Fan, NoFan
        <4>4. Become(p, r) /\ fan' = [fan EXCEPT ![p] = f]
          BY <3>2, <4>1 DEF BookBegin, searchAllSources
        <4> HIDE DEF r, f
        <4> QED  BY <4>2, <4>3, <4>4
      <3> QED  BY <1>1, <3>1, <3>2
    <2>3. Becomes(p, r, f, heard[p], todo[p], walk[p])
      BY <1>1, <2>2, Leaves DEF Becomes, Become, LibraryBegin, BookBegin, bookVars
    <2>4. /\ Local(p) /\ proc'[p] = r /\ fan'[p] = f /\ heard'[p] = {} /\ todo'[p] = {}
      BY <2>1, <2>3, Leaves, BecomesGives
    <2> QED  BY <2>2, <2>4 DEF RequestOk
  <1>2. CASE LibraryDone(p)
    <2> DEFINE r == [proc[p] EXCEPT !.pc = "done", !.out = fan[p].got]
    <2>1. Collected(p) /\ proc[p].kind = "library"
      BY <1>2 DEF LibraryDone
    <2>2. r \in Process /\ r.pc = "done" /\ r.kind = "library" /\ r.out = heard[p] /\ ~r.err
      BY <1>a, <2>1, Leaves DEF Process, PC
    <2>3. Becomes(p, r, NoFan, heard[p], todo[p], walk[p])
      BY <1>2, Leaves DEF Becomes, Become, LibraryDone, bookVars
    <2> HIDE DEF r
    <2>4. /\ Local(p) /\ proc'[p] = r /\ fan'[p] = NoFan /\ heard'[p] = heard[p] /\ todo'[p] = {}
      BY <1>a, <2>1, <2>2, <2>3, TypeFacts, Leaves, BecomesGives
    <2> QED  BY <2>2, <2>4 DEF RequestOk, Finished
  <1>3. CASE BookAgain(p)
    <2> DEFINE r == [proc[p] EXCEPT !.query = "title"]
               f == [NoFan EXCEPT !.begun = FALSE, !.ask = AskLibraries]
    <2>1. Collected(p) /\ proc[p].kind = "book" /\ Ebooks(fan[p].got) = {}
      BY <1>3 DEF BookAgain
    <2>2. Ebooks(heard[p]) = {}
      BY <1>a, <2>1
    <2>3. r \in Process /\ r.pc = "ask" /\ r.kind = "book" /\ r.out = {} /\ ~r.err
      BY <1>a, <2>1, Leaves DEF Process, PC, Collected
    <2>4. f \in Fan /\ f.got = {}
      BY TypeFacts DEF Fan, NoFan
    <2>5. heard' = [heard EXCEPT ![p] = {}]
      BY <1>3, <2>2 DEF BookAgain
    <2>6. Becomes(p, r, f, {}, todo[p], walk[p])
      BY <1>3, <2>5, Leaves DEF Becomes, Become, BookAgain, searchAllSources, bookVars
    <2> HIDE DEF r, f
    <2>7. /\ Local(p) /\ proc'[p] = r /\ fan'[p] = f /\ heard'[p] = {} /\ todo'[p] = {}
      BY <1>a, <2>1, <2>3, <2>4, <2>6, Leaves, BecomesGives
    <2> QED  BY <2>3, <2>4, <2>7 DEF RequestOk
  <1>4. CASE BookNothing(p)
    <2> DEFINE r == [proc[p] EXCEPT !.pc = "done"]
    <2>1. Collected(p) /\ proc[p].kind = "book" /\ Ebooks(fan[p].got) = {}
      BY <1>4 DEF BookNothing
    <2>2. r \in Process /\ r.pc = "done" /\ r.kind = "book" /\ r.out = Ebooks(heard[p]) /\ ~r.err
      BY <1>a, <2>1, Leaves DEF Process, PC
    <2>3. Becomes(p, r, NoFan, heard[p], todo[p], walk[p])
      BY <1>4, Leaves DEF Becomes, Goto, BookNothing, bookVars
    <2> HIDE DEF r
    <2>4. /\ Local(p) /\ proc'[p] = r /\ fan'[p] = NoFan /\ heard'[p] = heard[p] /\ todo'[p] = {}
      BY <1>a, <2>1, <2>2, <2>3, TypeFacts, Leaves, BecomesGives
    <2> QED  BY <2>2, <2>4 DEF RequestOk, Finished
  <1>5. CASE BookFound(p)
    <2> DEFINE r == [proc[p] EXCEPT !.pc = "save", !.out = Ebooks(fan[p].got)]
    <2>1. Collected(p) /\ proc[p].kind = "book"
      BY <1>5 DEF BookFound
    <2>2. r \in Process /\ r.pc = "save" /\ r.kind = "book" /\ r.out = Ebooks(heard[p]) /\ ~r.err
      BY <1>a, <2>1, Leaves DEF Process, PC
    <2>3. Becomes(p, r, NoFan, heard[p], Ebooks(fan[p].got), walk[p])
      BY <1>5, Leaves DEF Becomes, Become, BookFound
    <2> HIDE DEF r
    <2>4. /\ Local(p) /\ proc'[p] = r /\ fan'[p] = NoFan /\ heard'[p] = heard[p]
      BY <1>a, <2>1, <2>2, <2>3, TypeFacts, Leaves, BecomesGives
    <2> QED  BY <2>2, <2>4 DEF RequestOk
  <1>6. CASE SaveOne(p) \/ SaveFails(p)
    <2>1. /\ proc[p].pc = "save" /\ proc[p].kind = "book" /\ proc[p].out = Ebooks(heard[p])
          /\ ~proc[p].err /\ fan[p] = NoFan
      BY <1>0, <1>6 DEF SaveOne, SaveFails, RequestOk
    <2>2. PICK rest \in SUBSET Result : Inserted(p, rest)
      <3>1. \A r : todo[p] \ {r} \subseteq Result
        BY Leaves
      <3> QED  BY <1>6, <3>1 DEF SaveOne, SaveFails
    <2>3. CASE rest # {}
      <3>1. Becomes(p, proc[p], fan[p], heard[p], rest, walk[p])
        BY <2>2, <2>3, Leaves DEF Becomes, Inserted
      <3>2. /\ Local(p) /\ proc'[p] = proc[p] /\ fan'[p] = NoFan /\ heard'[p] = heard[p]
        BY <2>1, <3>1, Leaves, TypeFacts, BecomesGives
      <3> QED  BY <2>1, <3>2 DEF RequestOk
    <2>4. CASE rest = {}
      <3> DEFINE r == [proc[p] EXCEPT !.pc = "done"]
      <3>1. r \in Process /\ r.pc = "done" /\ r.kind = "book" /\ r.out = Ebooks(heard[p]) /\ ~r.err
        BY <2>1, Leaves DEF Process, PC
      <3>2. Becomes(p, r, fan[p], heard[p], rest, walk[p])
        BY <2>2, <2>4, Leaves DEF Becomes, Inserted, Goto
      <3> HIDE DEF r
      <3>3. /\ Local(p) /\ proc'[p] = r /\ fan'[p] = NoFan /\ heard'[p] = heard[p] /\ todo'[p] = {}
        BY <2>1, <2>4, <3>1, <3>2, Leaves, TypeFacts, BecomesGives
      <3> QED  BY <3>1, <3>3 DEF RequestOk, Finished
    <2> QED  BY <2>3, <2>4
  <1> QED  BY <1>1, <1>2, <1>3, <1>4, <1>5, <1>6

\* To out, made of the results old, provider n adds of its results new the fresh ones.
MergeOf(out, old, n, new, fresh) ==
    /\ Merged(out, old, n)
    /\ \A x \in new : x.from = n
    /\ fresh = {x \in new : \A o \in out : o.kind # x.kind}

\* A merge keeps, of every key, the result of the provider asked first.
LEMMA MergeKeepsEarliest ==
    ASSUME NEW out \in SUBSET Result, NEW old \in SUBSET Result, NEW n \in Nat,
           NEW new \in SUBSET Result, NEW fresh \in SUBSET Result,
           MergeOf(out, old, n, new, fresh)
    PROVE  Merged(out \cup fresh, old \cup new, n + 1)
  <1> USE DEF MergeOf, Merged
  <1>1. out \subseteq old
    BY DEF Earliest
  <1>2. ASSUME NEW r \in out PROVE r \in Earliest(old \cup new)
    <2>1. /\ r \in old /\ r.from < n /\ r.from \in Nat
          /\ \A o \in old : o.kind = r.kind => r.from <= o.from
      BY <1>1 DEF Earliest
    <2>2. \A o \in new : r.from <= o.from
      BY <2>1
    <2> QED  BY <2>1, <2>2 DEF Earliest
  <1>3. ASSUME NEW r \in fresh PROVE r \in Earliest(old \cup new)
    <2>1. r \in new /\ r.from = n /\ \A o \in out : o.kind # r.kind
      OBVIOUS
    <2>2. \A o \in old : o.kind # r.kind
      BY <2>1
    <2>3. \A o \in new : r.from <= o.from
      BY <2>1
    <2> QED  BY <2>1, <2>2, <2>3 DEF Earliest
  <1>4. ASSUME NEW r \in Earliest(old \cup new) PROVE r \in out \cup fresh
    <2>1. r \in old \cup new /\ \A o \in old \cup new : o.kind = r.kind => r.from <= o.from
      BY DEF Earliest
    <2>2. CASE r \in old
      BY <2>1, <2>2 DEF Earliest
    <2>3. CASE r \in new
      <3>1. \A o \in out : o.kind # r.kind
        BY <1>1, <2>1, <2>3
      <3> QED  BY <2>3, <3>1
    <2> QED  BY <2>1, <2>2, <2>3
  <1>5. ASSUME NEW h \in new PROVE \E r \in out \cup fresh : r.kind = h.kind
    OBVIOUS
  <1>6. \A h \in old : h.from < n + 1
    OBVIOUS
  <1>7. \A h \in new : h.from \in Nat /\ h.from < n + 1
    OBVIOUS
  <1>8. out \cup fresh = Earliest(old \cup new)
    <2>1. Earliest(old \cup new) \subseteq out \cup fresh
      BY <1>4
    <2>2. out \cup fresh \subseteq Earliest(old \cup new)
      BY <1>2, <1>3
    <2> QED  BY <2>1, <2>2
  <1> QED  BY <1>5, <1>6, <1>7, <1>8

\* A step along the list of providers, and what one of them answers.
LEMMA WalkOn ==
    ASSUME NEW x \in Walk
    PROVE  /\ [x EXCEPT !.next = @ + 1, !.any = TRUE] \in Walk
           /\ [x EXCEPT !.next = @ + 1, !.any = TRUE].next = x.next + 1
           /\ [x EXCEPT !.next = @ + 1, !.any = TRUE].any = TRUE
           /\ [x EXCEPT !.next = @ + 1, !.failed = TRUE] \in Walk
           /\ [x EXCEPT !.next = @ + 1, !.failed = TRUE].next = x.next + 1
           /\ [x EXCEPT !.next = @ + 1, !.failed = TRUE].any = x.any
  <1> DEFINE y == [x EXCEPT !.next = x.next + 1]
  <1>1. y \in Walk /\ y.next = x.next + 1 /\ y.any = x.any
    BY DEF Walk
  <1> HIDE DEF y
  <1>2. [y EXCEPT !.any = TRUE] \in Walk /\ [y EXCEPT !.failed = TRUE] \in Walk
    BY <1>1 DEF Walk
  <1>3. /\ [y EXCEPT !.any = TRUE].next = y.next /\ [y EXCEPT !.any = TRUE].any = TRUE
        /\ [y EXCEPT !.failed = TRUE].next = y.next /\ [y EXCEPT !.failed = TRUE].any = y.any
    BY <1>1 DEF Walk
  <1>4. /\ [x EXCEPT !.next = @ + 1, !.any = TRUE] = [y EXCEPT !.any = TRUE]
        /\ [x EXCEPT !.next = @ + 1, !.failed = TRUE] = [y EXCEPT !.failed = TRUE]
    BY DEF y
  <1> QED  BY <1>1, <1>2, <1>3, <1>4

LEMMA Answered ==
    ASSUME NEW n \in Nat, NEW keys, keys \subseteq Key
    PROVE  LET res == {[from |-> n, kind |-> k] : k \in keys}
           IN  res \subseteq Result /\ \A x \in res : x.from = n
  <1> DEFINE res == {[from |-> n, kind |-> k] : k \in keys}
  <1>1. \A x \in res : x \in Result
    BY DEF Result, Kinds
  <1>2. \A x \in res : x.from = n
    OBVIOUS
  <1> QED  BY <1>1, <1>2

\* The walk along the metadata providers.
LEMMA MetaStep ==
    ASSUME Types, Requests, NEW p \in Proc,
           MetaBegin(p) \/ MergeReply(p) \/ FetchReply(p) \/ MetaFails(p) \/ MetaDone(p)
    PROVE  Local(p) /\ RequestOk(p)'
  <1>0. RequestOk(p) /\ fan' = fan /\ todo' = todo
    BY DEF Requests, MetaBegin, MergeReply, FetchReply, MetaFails, MetaDone, bookVars
  <1>1. CASE MetaBegin(p)
    <2>a. proc[p] = Idle
      BY <1>1 DEF MetaBegin, Request
    <2>1. heard[p] = {} /\ todo[p] = {} /\ fan[p] = NoFan
      BY <1>0, <2>a DEF RequestOk, Idle
    <2>2. PICK k \in {"merge", "fetch"}, n \in 0 .. MetaProviders :
            /\ Become(p, [Idle EXCEPT !.pc = "walk", !.kind = k])
            /\ walk' = [walk EXCEPT ![p] = [Still EXCEPT !.named = n,
                                                         !.next = IF n = 0 THEN 1 ELSE n]]
      BY <1>1 DEF MetaBegin
    <2> DEFINE r == [Idle EXCEPT !.pc = "walk", !.kind = k]
               w == [Still EXCEPT !.named = n, !.next = IF n = 0 THEN 1 ELSE n]
    <2>3. r \in Process /\ r.pc = "walk" /\ r.kind = k /\ r.out = {} /\ r.err = FALSE
      BY TypeFacts DEF Process, PC, ReqKind, Idle
    <2>4. w \in Walk
      <3>1. n \in Nat
        BY ProvidersAssumption
      <3> QED  BY <3>1 DEF Still, Walk
    <2>5. Becomes(p, r, fan[p], heard[p], todo[p], w)
      BY <1>0, <1>1, <2>2, Leaves DEF Becomes, Become, MetaBegin
    <2> HIDE DEF r, w
    <2>6. /\ Local(p) /\ proc'[p] = r /\ fan'[p] = NoFan /\ heard'[p] = {} /\ todo'[p] = {}
      BY <2>1, <2>3, <2>4, <2>5, Leaves, BecomesGives
    <2> QED  BY <2>3, <2>6 DEF RequestOk, Merging, Merged, Earliest
  <1>2. CASE MergeReply(p) \/ FetchReply(p) \/ MetaFails(p) \/ MetaDone(p)
    <2>0. proc[p].pc = "walk"
      BY <1>2 DEF MergeReply, FetchReply, MetaFails, MetaDone, Walking
    <2>a. walk[p] \in Walk /\ walk[p].next \in Nat
      BY Leaves DEF Walk
    <2>1. /\ fan[p] = NoFan /\ todo[p] = {} /\ ~proc[p].err
          /\ proc[p].kind \in {"merge", "fetch"} /\ Merging(p)
          /\ proc[p].kind = "fetch" => heard[p] = {}
      BY <1>0, <2>0 DEF RequestOk
    <2>2. ASSUME NEW r \in Process, NEW h \in SUBSET Result, NEW w \in Walk,
                 Becomes(p, r, fan[p], h, todo[p], w), ~r.err, r.kind = proc[p].kind, r.pc = "walk",
                 r.kind = "fetch" => h = {},
                 Merged(r.out, h, w.next),
                 ~w.any => h = {}
          PROVE  Local(p) /\ RequestOk(p)'
      <3>1. /\ Local(p) /\ proc'[p] = r /\ fan'[p] = NoFan /\ heard'[p] = h /\ todo'[p] = {}
            /\ walk'[p] = w
        BY <2>1, <2>2, Leaves, BecomesGives
      <3> QED  BY <2>1, <2>2, <3>1 DEF RequestOk, Merging
    <2>3. ASSUME NEW r \in Process, NEW h \in SUBSET Result, NEW w \in Walk,
                 Becomes(p, r, fan[p], h, todo[p], w), r.kind \in {"merge", "fetch"}, r.pc = "done",
                 r.out = Earliest(h), r.err => h = {}
          PROVE  Local(p) /\ RequestOk(p)'
      <3>1. /\ Local(p) /\ proc'[p] = r /\ fan'[p] = NoFan /\ heard'[p] = h /\ todo'[p] = {}
        BY <2>1, <2>3, Leaves, BecomesGives
      <3> QED  BY <2>3, <3>1 DEF RequestOk, Finished
    <2>4. CASE MergeReply(p)
      <3> DEFINE res(ks) == {[from |-> walk[p].next, kind |-> k] : k \in ks}
      <3>1. PICK keys \in SUBSET Key :
              /\ Become(p, [proc[p] EXCEPT !.out = @ \cup res(keys \ Seen(p))])
              /\ heard' = [heard EXCEPT ![p] = @ \cup res(keys)]
        BY <2>4 DEF MergeReply
      <3> DEFINE new == res(keys)
                 fresh == res(keys \ Seen(p))
                 r == [proc[p] EXCEPT !.out = @ \cup fresh]
                 w == [walk[p] EXCEPT !.next = @ + 1, !.any = TRUE]
      <3>3. new \subseteq Result /\ fresh \subseteq Result
        BY <2>a, Answered
      <3>4. Merged(proc[p].out \cup fresh, heard[p] \cup new, walk[p].next + 1)
        <4> HIDE DEF new, fresh
        <4>1. /\ \A x \in new : x.from = walk[p].next
              /\ fresh = {x \in new : \A o \in proc[p].out : o.kind # x.kind}
          BY DEF new, fresh, Seen
        <4>2. MergeOf(proc[p].out, heard[p], walk[p].next, new, fresh)
          BY <2>1, <4>1 DEF MergeOf, Merging
        <4>3. proc[p].out \in SUBSET Result /\ heard[p] \in SUBSET Result
          BY Leaves DEF Process
        <4> QED  BY <2>a, <3>3, <4>2, <4>3, MergeKeepsEarliest
      <3>5. walk' = [walk EXCEPT ![p] = w] /\ heard' = [heard EXCEPT ![p] = heard[p] \cup new]
        BY <2>4, <3>1 DEF MergeReply
      <3>6. w \in Walk /\ w.next = walk[p].next + 1 /\ w.any = TRUE
        BY <2>a, WalkOn
      <3>7. proc' = [proc EXCEPT ![p] = r] /\ proc[p].kind = "merge"
        BY <2>4, <3>1 DEF Become, MergeReply
      <3> HIDE DEF new, fresh
      <3>8. /\ r \in Process /\ r.pc = "walk" /\ r.kind = proc[p].kind /\ ~r.err
            /\ r.out = proc[p].out \cup fresh
        BY <2>0, <2>1, <3>3, Leaves DEF Process
      <3>9. Becomes(p, r, fan[p], heard[p] \cup new, todo[p], w)
        BY <1>0, <3>5, <3>7, Leaves DEF Becomes
      <3> HIDE DEF r, w
      <3>10. heard[p] \cup new \in SUBSET Result
        BY <3>3, Leaves
      <3> DEFINE h == heard[p] \cup new
      <3>11. h \in SUBSET Result /\ Merged(r.out, h, w.next)
        BY <3>4, <3>6, <3>8, <3>10
      <3> HIDE DEF h
      <3>12. Becomes(p, r, fan[p], h, todo[p], w)
        BY <3>9 DEF h
      <3> QED  BY <2>2, <3>6, <3>7, <3>8, <3>11, <3>12
    <2>5. CASE FetchReply(p)
      <3>1. PICK k \in Key : LET x == [from |-> walk[p].next, kind |-> k] IN
              /\ Become(p, [proc[p] EXCEPT !.pc = "done", !.out = {x}])
              /\ heard' = [heard EXCEPT ![p] = {x}]
        BY <2>5 DEF FetchReply
      <3> DEFINE x == [from |-> walk[p].next, kind |-> k]
                 r == [proc[p] EXCEPT !.pc = "done", !.out = {x}]
      <3>2. x \in Result /\ x.from \in Nat
        <4>1. {[from |-> walk[p].next, kind |-> y] : y \in {k}} \subseteq Result
          BY <2>a, Answered
        <4> QED  BY <2>a, <4>1
      <3>3. proc' = [proc EXCEPT ![p] = r] /\ heard' = [heard EXCEPT ![p] = {x}]
        BY <3>1 DEF Become
      <3> HIDE DEF x
      <3>4. /\ r \in Process /\ r.pc = "done" /\ r.kind = proc[p].kind /\ ~r.err /\ r.out = {x}
        BY <2>1, <3>2, Leaves DEF Process, PC
      <3>5. Becomes(p, r, fan[p], {x}, todo[p], Still)
        BY <1>0, <2>5, <3>3, Leaves DEF Becomes, FetchReply
      <3> HIDE DEF r
      <3>6. {x} = Earliest({x}) /\ {x} \in SUBSET Result
        BY <3>2 DEF Earliest
      <3> QED  BY <2>1, <2>3, <3>4, <3>5, <3>6, TypeFacts
    <2>6. CASE MetaFails(p)
      <3> DEFINE w == [walk[p] EXCEPT !.next = @ + 1, !.failed = TRUE]
      <3>1. w \in Walk /\ w.next = walk[p].next + 1 /\ w.any = walk[p].any
        BY <2>a, WalkOn
      <3>2. Becomes(p, proc[p], fan[p], heard[p], todo[p], w)
        BY <1>0, <2>6, Leaves DEF Becomes, MetaFails
      <3> HIDE DEF w
      <3>3. Merged(proc[p].out, heard[p], w.next)
        BY <2>1, <2>a, <3>1 DEF Merging, Merged
      <3> QED  BY <2>0, <2>1, <2>2, <3>1, <3>2, <3>3, Leaves DEF Merging
    <2>7. CASE MetaDone(p)
      <3> DEFINE r == [proc[p] EXCEPT !.pc = "done", !.err = (~walk[p].any /\ walk[p].failed)]
      <3>1. /\ r \in Process /\ r.pc = "done" /\ r.kind = proc[p].kind
            /\ r.out = proc[p].out /\ (r.err => ~walk[p].any)
        BY ZenonT(30), Leaves DEF Process, PC, Walk
      <3>2. Becomes(p, r, fan[p], heard[p], todo[p], Still)
        BY <1>0, <2>7, Leaves DEF Becomes, Become, MetaDone
      <3> HIDE DEF r
      <3>3. /\ r.out = Earliest(heard[p]) /\ (r.err => heard[p] = {})
            /\ heard[p] \in SUBSET Result
        BY <2>1, <3>1, Leaves DEF Merging, Merged
      <3> QED  BY <2>1, <2>3, <3>1, <3>2, <3>3, TypeFacts
    <2> QED  BY <1>2, <2>4, <2>5, <2>6, <2>7
  <1> QED  BY <1>1, <1>2

-----------------------------------------------------------------------------
(* What the steps keep. *)

LEMMA LocalStep ==
    ASSUME Types, Requests, NEW p \in Proc, BookRequest(p) \/ Step(p)
    PROVE  Local(p) /\ RequestOk(p)'
  BY IdxRequestStep, IdxStepStep, BookStep, MetaStep DEF BookRequest, Step

LEMMA RequestsKept ==
    ASSUME Types, Requests, NEW p \in Proc, BookRequest(p) \/ Step(p)
    PROVE  Requests'
  <1>1. Local(p) /\ RequestOk(p)'
    BY LocalStep
  <1>2. ASSUME NEW q \in Proc \ {p} PROVE RequestOk(q)'
    <2>1. /\ proc'[q] = proc[q] /\ fan'[q] = fan[q] /\ heard'[q] = heard[q]
          /\ todo'[q] = todo[q] /\ walk'[q] = walk[q] /\ RequestOk(q)
      BY <1>1, <1>2 DEF Local, Others, Requests
    <2> QED  BY <2>1 DEF RequestOk, Finished, Merging
  <1> QED  BY <1>1, <1>2 DEF Requests

\* Only a change of an indexer writes the table, only what follows it the map.
Rewrites(p) == \E i \in IndexerId, row \in IndexerRow : WriteRow(p, i, row)

LEMMA TableStep ==
    ASSUME Types, NEW p \in Proc, BookRequest(p) \/ Step(p)
    PROVE  \/ Rewrites(p) /\ clients' = clients
              /\ (CreateIndexer(p) \/ UpdateIndexer(p) \/ DeleteIndexer(p))
           \/ UNCHANGED table /\ (Drop(p) \/ loadClient(p))
           \/ UNCHANGED <<table, clients>>
  <1>1. CASE CreateIndexer(p) \/ UpdateIndexer(p) \/ DeleteIndexer(p)
    <2>1. Rewrites(p)
      BY <1>1, BodyTypes, TypeFacts
         DEF Types, CreateIndexer, UpdateIndexer, DeleteIndexer, Rows, Rewrites
    <2> QED  BY <1>1, <2>1 DEF CreateIndexer, UpdateIndexer, DeleteIndexer
  <1>2. CASE Drop(p) \/ loadClient(p)
    BY <1>2 DEF Drop, loadClient
  <1>3. CASE SearchBegin(p) \/ FanStep(p) \/ SearchDone(p) \/ Respond(p)
    BY <1>3 DEF SearchBegin, FanStep, SearchDone, Respond, Snapshot, Reply, ReplyFails
  <1>4. CASE \/ LibraryBegin(p) \/ BookBegin(p) \/ MetaBegin(p) \/ LibraryDone(p)
             \/ BookAgain(p) \/ BookNothing(p) \/ BookFound(p)
    BY <1>4 DEF LibraryBegin, BookBegin, MetaBegin, LibraryDone, BookAgain, BookNothing, BookFound
  <1>5. CASE \/ SaveOne(p) \/ SaveFails(p) \/ MergeReply(p) \/ FetchReply(p)
             \/ MetaFails(p) \/ MetaDone(p)
    BY <1>5 DEF SaveOne, SaveFails, Inserted, MergeReply, FetchReply, MetaFails, MetaDone
  <1> QED  BY <1>1, <1>2, <1>3, <1>4, <1>5 DEF BookRequest, Step, IdxRequest, IdxStep

LEMMA RequestsCounted ==
    ASSUME Types, NEW p \in Proc, BookRequest(p) \/ Step(p)
    PROVE  requests' \in Nat
  <1>1. CASE Request(p)
    BY <1>1 DEF Request, Types
  <1>2. CASE UNCHANGED requests
    BY <1>2 DEF Types
  <1>3. CASE BookRequest(p)
    BY <1>1, <1>3 DEF BookRequest, IdxRequest, CreateIndexer, UpdateIndexer, DeleteIndexer,
                      SearchBegin, LibraryBegin, BookBegin, MetaBegin
  <1>4. CASE Step(p)
    BY <1>2, <1>4 DEF Step, IdxStep, Drop, loadClient, FanStep, Snapshot, Reply, ReplyFails,
                      SearchDone, Respond, LibraryDone, BookAgain, BookNothing, BookFound,
                      SaveOne, SaveFails, Inserted, MergeReply, FetchReply, MetaFails, MetaDone
  <1> QED  BY <1>3, <1>4

LEMMA TypesKept ==
    ASSUME Types, Requests, NEW p \in Proc, BookRequest(p) \/ Step(p)
    PROVE  Types'
  <1>1. Local(p) /\ requests' \in Nat
    BY LocalStep, RequestsCounted
  <1>2. indexer' \in [IndexerId -> IndexerRow] /\ changes' \in Nat
    <2>1. CASE Rewrites(p)
      BY <2>1 DEF Rewrites, WriteRow, Types
    <2>2. CASE UNCHANGED table
      BY <2>2 DEF table, Types
    <2> QED  BY <2>1, <2>2, TableStep
  <1>3. clients' \in [IndexerId -> Nat]
    <2>1. CASE Drop(p)
      BY <2>1 DEF Drop, Types
    <2>2. CASE loadClient(p)
      <3>1. proc[p].cfg.ver \in Nat
        BY DEF Types, Process, IndexerRow
      <3> QED  BY <2>2, <3>1 DEF loadClient, Types
    <2>3. CASE clients' = clients
      BY <2>3 DEF Types
    <2> QED  BY <2>1, <2>2, <2>3, TableStep
  <1> QED  BY <1>1, <1>2, <1>3 DEF Types, Local

\* A request that changes no indexer i, before or after, disturbs none.
LEMMA CachedKept ==
    ASSUME NEW p \in Proc, Others(p), NEW i \in IndexerId, Cached(i),
           indexer'[i] = indexer[i], clients'[i] = clients[i],
           p \notin Changing(i), p \notin Changing(i)'
    PROVE  Cached(i)'
  <1>1. \A q \in Proc \ {p} : proc'[q] = proc[q]
    BY DEF Others
  <1>2. Changing(i)' = Changing(i) /\ \A q \in Changing(i) : proc'[q] = proc[q]
    BY <1>1 DEF Changing
  <1> QED  BY <1>2 DEF Cached, Expected

\* A row that no other request is changing is written.
LEMMA CachedWritten ==
    ASSUME Types, NEW p \in Proc, Others(p), NEW i \in IndexerId, NEW row \in IndexerRow,
           WriteRow(p, i, row), clients' = clients, i \notin raced', Cached(i), proc[p] = Idle,
           \/ proc'[p] = Idle /\ indexer[i] = NoRow /\ ~row.enabled
           \/ /\ proc'[p].id = i /\ proc'[p].kind \in {"change", "delete"}
              /\ proc'[p].kind = "delete" => row = Deleted /\ proc'[p].pc = "drop"
              /\ proc'[p].kind = "change" => row = proc'[p].cfg
              /\ proc'[p].pc = "load" => indexer[i] = NoRow /\ row.enabled
    PROVE  Cached(i)'
  <1>1. Changing(i) = {} /\ indexer'[i] = row
    BY DEF WriteRow, Types
  <1>2. Changing(i)' \subseteq {p}
    BY <1>1 DEF Changing, Others
  <1>3. indexer[i] = NoRow => clients[i] = 0
    BY <1>1 DEF Cached, Expected, Loadable, NoRow
  <1>4. CASE proc'[p] = Idle /\ indexer[i] = NoRow /\ ~row.enabled
    <2>1. Changing(i)' = {}
      BY <1>2, <1>4 DEF Changing, Idle
    <2>2. Expected(i)' = 0
      BY <1>1, <1>4 DEF Expected, Loadable
    <2> QED  BY <1>3, <1>4, <2>1, <2>2 DEF Cached
  <1>5. CASE ~(proc'[p] = Idle /\ indexer[i] = NoRow /\ ~row.enabled)
    <2>1. Changing(i)' = {p}
      BY <1>2, <1>5 DEF Changing
    <2>2. /\ row = Deleted \/ row = proc'[p].cfg
          /\ proc'[p].kind = "delete" => row = Deleted /\ proc'[p].pc = "drop"
          /\ proc'[p].kind = "change" => row = proc'[p].cfg
          /\ proc'[p].pc = "load" => clients[i] = 0 /\ row = proc'[p].cfg /\ row.enabled
      BY <1>3, <1>5
    <2> QED  BY <1>1, <2>1, <2>2 DEF Cached
  <1> QED  BY <1>4, <1>5

LEMMA CachingKept ==
    ASSUME Types, Requests, Caching, NEW p \in Proc, BookRequest(p) \/ Step(p)
    PROVE  Caching'
  <1>0. Local(p) /\ RequestOk(p)' /\ RequestOk(p) /\ Others(p)
    BY LocalStep DEF Local, Requests
  <1> SUFFICES ASSUME NEW i \in IndexerId \ raced' PROVE Cached(i)'
    BY DEF Caching
  <1>1. i \in IndexerId /\ Cached(i)
    <2>1. raced \subseteq raced'
      BY TableStep DEF Rewrites, WriteRow, table
    <2> QED  BY <2>1 DEF Caching
  <1>2. ASSUME CreateIndexer(p) \/ UpdateIndexer(p) \/ DeleteIndexer(p) PROVE Cached(i)'
    <2>a. clients' = clients /\ proc[p] = Idle
      BY <1>2 DEF CreateIndexer, UpdateIndexer, DeleteIndexer, Request
    <2>1. clients' = clients /\ proc[p] = Idle /\ p \notin Changing(i)
      BY <2>a DEF Changing, Idle
    <2>2. PICK j \in IndexerId, row \in IndexerRow :
            /\ WriteRow(p, j, row)
            /\ \/ proc'[p] = Idle /\ indexer[j] = NoRow /\ ~row.enabled
               \/ /\ proc'[p].id = j /\ proc'[p].kind \in {"change", "delete"}
                  /\ proc'[p].kind = "delete" => row = Deleted /\ proc'[p].pc = "drop"
                  /\ proc'[p].kind = "change" => row = proc'[p].cfg
                  /\ proc'[p].pc = "load" => indexer[j] = NoRow /\ row.enabled
      <3>1. ASSUME NEW r, Become(p, r) PROVE proc'[p] = r
        BY <3>1 DEF Become, Types
      <3>2. CASE CreateIndexer(p)
        <4>1. PICK body \in Body, j \in IndexerId :
                /\ indexer[j] = NoRow
                /\ WriteRow(p, j, RowOf(Created(body)))
                /\ Become(p, IF ~Created(body).enabled THEN Idle
                             ELSE [Idle EXCEPT !.pc = "load", !.kind = "change", !.id = j,
                                               !.cfg = RowOf(Created(body))])
          BY <3>2 DEF CreateIndexer
        <4>2. /\ RowOf(Created(body)) \in IndexerRow
              /\ RowOf(Created(body)).enabled = Created(body).enabled
          BY BodyTypes DEF Types, RowOf
        <4>3. CASE ~Created(body).enabled
          BY <3>1, <4>1, <4>2, <4>3
        <4>4. CASE Created(body).enabled
          <5>1. proc'[p] = [Idle EXCEPT !.pc = "load", !.kind = "change", !.id = j,
                                        !.cfg = RowOf(Created(body))]
            BY <3>1, <4>1, <4>4
          <5>2. /\ proc'[p].pc = "load" /\ proc'[p].kind = "change" /\ proc'[p].id = j
                /\ proc'[p].cfg = RowOf(Created(body))
            BY <5>1 DEF Idle
          <5> QED  BY <4>1, <4>2, <4>4, <5>2
        <4> QED  BY <4>3, <4>4
      <3>3. CASE UpdateIndexer(p)
        <4>1. PICK b \in Body, j \in IndexerId :
                /\ WriteRow(p, j, RowOf(b))
                /\ Become(p, [Idle EXCEPT !.pc = "drop", !.kind = "change", !.id = j,
                                          !.cfg = RowOf(b)])
          BY <3>3 DEF UpdateIndexer, Rows
        <4>2. proc'[p] = [Idle EXCEPT !.pc = "drop", !.kind = "change", !.id = j, !.cfg = RowOf(b)]
          BY <3>1, <4>1
        <4>3. /\ proc'[p].pc = "drop" /\ proc'[p].kind = "change" /\ proc'[p].id = j
              /\ proc'[p].cfg = RowOf(b) /\ RowOf(b) \in IndexerRow
          BY <4>2, BodyTypes DEF Idle, Types
        <4> QED  BY <4>1, <4>3
      <3>4. CASE DeleteIndexer(p)
        <4>1. PICK j \in IndexerId :
                /\ WriteRow(p, j, Deleted)
                /\ Become(p, [Idle EXCEPT !.pc = "drop", !.kind = "delete", !.id = j])
          BY <3>4 DEF DeleteIndexer, Rows
        <4>2. proc'[p] = [Idle EXCEPT !.pc = "drop", !.kind = "delete", !.id = j]
          BY <3>1, <4>1
        <4>3. proc'[p].pc = "drop" /\ proc'[p].kind = "delete" /\ proc'[p].id = j
          BY <4>2 DEF Idle
        <4> QED  BY <4>1, <4>3, TypeFacts
      <3> QED  BY <1>2, <3>2, <3>3, <3>4
    <2>3. CASE i = j
      BY <1>0, <1>1, <2>1, <2>2, <2>3, CachedWritten
    <2>4. CASE i # j
      <3>1. indexer'[i] = indexer[i]
        BY <2>2, <2>4 DEF WriteRow, Types
      <3>2. p \notin Changing(i)'
        BY <2>2, <2>4 DEF Changing, Idle
      <3> QED  BY <1>0, <1>1, <2>1, <3>1, <3>2, CachedKept
    <2> QED  BY <2>3, <2>4
  <1>3. ASSUME Drop(p) PROVE Cached(i)'
    <2>1. indexer' = indexer
      BY <1>3 DEF Drop, table
    <2>2. proc[p].pc = "drop" /\ proc[p].kind \in {"change", "delete"}
      BY <1>0, <1>3 DEF Drop, RequestOk
    <2>3. CASE p \in Changing(i)
      <3>1. /\ Changing(i) = {p} /\ proc[p].id = i /\ clients'[i] = 0
            /\ proc[p].kind = "delete" => indexer[i] = Deleted
            /\ proc[p].kind = "change" => indexer[i] = proc[p].cfg
        BY <1>1, <1>3, <2>3 DEF Cached, Drop, Changing, Types
      <3>2. Changing(i)' \subseteq {p}
        BY <1>0, <3>1 DEF Changing, Others
      <3>3. CASE proc[p].kind = "change" /\ proc[p].cfg.enabled
        <4>1. proc'[p] = [proc[p] EXCEPT !.pc = "load"]
          BY <1>3, <3>3 DEF Drop, Goto, Types
        <4>2. proc'[p].kind = "change" /\ proc'[p].cfg = proc[p].cfg
          BY <3>3, <4>1, Leaves DEF Process
        <4>3. \A q \in Changing(i)' : q = p
          BY <3>2
        <4>4. Changing(i)' = {p}
          BY <3>1, <3>2, <4>1, <4>2, Leaves DEF Changing, Process
        <4> QED  BY <2>1, <3>1, <3>3, <4>2, <4>4 DEF Cached
      <3>4. CASE ~(proc[p].kind = "change" /\ proc[p].cfg.enabled)
        <4>1. proc'[p] = Idle
          BY <1>3, <3>4 DEF Drop, Return, Become, Types
        <4>2. Changing(i)' = {}
          BY <3>2, <4>1 DEF Changing, Idle
        <4>3. ~Loadable(indexer[i])
          BY <2>2, <3>1, <3>4 DEF Loadable, Deleted, NoRow
        <4> QED  BY <2>1, <3>1, <4>2, <4>3 DEF Cached, Expected
      <3> QED  BY <3>3, <3>4
    <2>4. CASE p \notin Changing(i)
      <3>1. proc[p].id # i /\ clients'[i] = clients[i]
        BY <1>3, <2>2, <2>4 DEF Changing, Drop, Types
      <3>2. proc'[p] = Idle \/ proc'[p].id = proc[p].id
        BY <1>3, Leaves DEF Drop, Goto, Return, Become, Types, Process
      <3>3. p \notin Changing(i)'
        BY <3>1, <3>2 DEF Changing, Idle
      <3> QED  BY <1>0, <1>1, <2>1, <2>4, <3>1, <3>3, CachedKept
    <2> QED  BY <2>3, <2>4
  <1>4. ASSUME loadClient(p) PROVE Cached(i)'
    <2>1. indexer' = indexer /\ proc'[p] = Idle
      BY <1>4 DEF loadClient, table, Return, Become, Types
    <2>2. p \notin Changing(i)'
      BY <2>1 DEF Changing, Idle
    <2>3. proc[p].pc = "load" /\ proc[p].kind \in {"change", "delete"}
      BY <1>0, <1>4 DEF loadClient, RequestOk
    <2>4. CASE p \in Changing(i)
      <3>1. /\ Changing(i) = {p} /\ proc[p].id = i /\ clients[i] = 0
            /\ indexer[i] = proc[p].cfg /\ proc[p].cfg.enabled
        BY <1>1, <2>3, <2>4 DEF Cached, Changing
      <3>2. Changing(i)' = {}
        BY <1>0, <2>2, <3>1 DEF Changing, Others
      <3>3. clients'[i] = IF GetFactory(proc[p].cfg.type) THEN proc[p].cfg.ver ELSE 0
        BY <1>1, <1>4, <3>1 DEF loadClient, Types
      <3> QED  BY <2>1, <3>1, <3>2, <3>3 DEF Cached, Expected, Loadable
    <2>5. CASE p \notin Changing(i)
      <3>1. clients'[i] = clients[i]
        BY <1>4, <2>3, <2>5 DEF Changing, loadClient, Types
      <3> QED  BY <1>0, <1>1, <2>1, <2>2, <2>5, <3>1, CachedKept
    <2> QED  BY <2>4, <2>5
  <1>5. ASSUME UNCHANGED <<table, clients>>, ~(Drop(p) \/ loadClient(p)),
               ~(CreateIndexer(p) \/ UpdateIndexer(p) \/ DeleteIndexer(p))
        PROVE  Cached(i)'
    <2>1. proc[p].pc \notin {"drop", "load"} /\ proc'[p].pc \notin {"drop", "load"}
      <3>1. ASSUME NEW r, Become(p, r) PROVE proc'[p] = r
        BY <3>1 DEF Become, Types
      <3>2. CASE SearchBegin(p) \/ LibraryBegin(p) \/ BookBegin(p) \/ MetaBegin(p)
        <4>a. proc[p] = Idle
          BY <3>2 DEF SearchBegin, LibraryBegin, BookBegin, MetaBegin, Request
        <4>1. proc[p].pc = "idle"
          BY <4>a DEF Idle
        <4>2. proc'[p].pc \in {"ask", "walk"}
          <5>1. CASE SearchBegin(p)
            BY <3>1, <5>1 DEF SearchBegin, Idle
          <5>2. CASE LibraryBegin(p)
            BY <3>1, <5>2 DEF LibraryBegin, Idle
          <5>3. CASE BookBegin(p)
            BY <3>1, <5>3 DEF BookBegin, Idle
          <5>4. CASE MetaBegin(p)
            BY <3>1, <5>4 DEF MetaBegin, Idle
          <5> QED  BY <3>2, <5>1, <5>2, <5>3, <5>4
        <4> QED  BY <4>1, <4>2
      <3>3. CASE FanStep(p)
        <4>1. proc' = proc
          BY <3>3 DEF FanStep, Snapshot, Reply, ReplyFails
        <4>2. ~fan[p].begun \/ fan[p].ask # {}
          BY <3>3 DEF FanStep, Snapshot
        <4>3. fan[p] # NoFan
          BY <4>2 DEF NoFan
        <4> QED  BY <1>0, <4>1, <4>3 DEF RequestOk
      <3>4. CASE SearchDone(p) \/ LibraryDone(p) \/ BookFound(p)
        <4>1. proc[p].pc = "ask"
          BY <3>4 DEF SearchDone, LibraryDone, BookFound, Collected
        <4>2. CASE SearchDone(p)
          BY ZenonT(30), <3>1, <4>1, <4>2, Leaves DEF SearchDone, Process
        <4>3. CASE LibraryDone(p)
          BY <3>1, <4>1, <4>3, Leaves DEF LibraryDone, Process
        <4>4. CASE BookFound(p)
          BY <3>1, <4>1, <4>4, Leaves DEF BookFound, Process
        <4> QED  BY <3>4, <4>2, <4>3, <4>4
      <3>5. CASE BookAgain(p) \/ BookNothing(p)
        <4>1. proc[p].pc = "ask"
          BY <3>5 DEF BookAgain, BookNothing, Collected
        <4>2. proc'[p].pc \in {"ask", "done"}
          BY <3>1, <3>5, <4>1, Leaves DEF BookAgain, BookNothing, Goto, Types, Process
        <4> QED  BY <4>1, <4>2
      <3>6. CASE Respond(p)
        BY <3>1, <3>6 DEF Respond, Return, Idle
      <3>7. CASE SaveOne(p) \/ SaveFails(p)
        <4>1. proc[p].pc = "save"
          BY <3>7 DEF SaveOne, SaveFails
        <4>2. proc'[p].pc \in {"save", "done"}
          BY <3>7, <4>1, Leaves DEF SaveOne, SaveFails, Inserted, Goto, Types, Process
        <4> QED  BY <4>1, <4>2
      <3>8. CASE MergeReply(p) \/ FetchReply(p) \/ MetaFails(p) \/ MetaDone(p)
        <4>1. proc[p].pc = "walk"
          BY <3>8 DEF MergeReply, FetchReply, MetaFails, MetaDone, Walking
        <4>2. CASE MergeReply(p)
          <5>1. PICK o : Become(p, [proc[p] EXCEPT !.out = o])
            BY <4>2 DEF MergeReply
          <5> QED  BY <3>1, <4>1, <5>1, Leaves DEF Process
        <4>3. CASE FetchReply(p)
          <5>1. PICK o : Become(p, [proc[p] EXCEPT !.pc = "done", !.out = o])
            BY <4>3 DEF FetchReply
          <5> QED  BY <3>1, <4>1, <5>1, Leaves DEF Process
        <4>4. CASE MetaFails(p)
          BY <4>1, <4>4 DEF MetaFails
        <4>5. CASE MetaDone(p)
          BY ZenonT(30), <3>1, <4>1, <4>5, Leaves DEF MetaDone, Process
        <4> QED  BY <3>8, <4>2, <4>3, <4>4, <4>5
      <3> QED  BY <1>5, <3>2, <3>3, <3>4, <3>5, <3>6, <3>7, <3>8
               DEF BookRequest, Step, IdxRequest, IdxStep
    <2>2. p \notin Changing(i) /\ p \notin Changing(i)'
      BY <1>0, <2>1 DEF Changing, RequestOk
    <2> QED  BY <1>0, <1>1, <1>5, <2>2, CachedKept DEF table
  <1> QED  BY <1>2, <1>3, <1>4, <1>5, TableStep

-----------------------------------------------------------------------------
(* The saved results. *)

LEMMA InPending == \A x : x \in Pending <=> \E q \in Proc : \E r \in todo[q] : x = Row(q, r)
  BY DEF Pending

\* A step of a request with nothing to save, or that saves nothing.
LEMMA SavedKept ==
    ASSUME Saved, NEW p \in Proc, Others(p), UNCHANGED <<saved, todo, last, torn>>,
           todo[p] = {} \/ proc'[p].id = proc[p].id
    PROVE  Saved'
  <1>1. Saving' = Saving
    BY DEF Saving
  <1>2. \A q \in Proc : \A r \in todo[q] : Row(q, r)' = Row(q, r)
    BY DEF Others, Row
  <1>3. \A x : x \in Pending' <=> \E q \in Proc : \E r \in todo'[q] : x = Row(q, r)'
    BY DEF Pending, Row
  <1>4. Pending' = Pending
    <2>1. ASSUME NEW x PROVE x \in Pending' <=> x \in Pending
      <3>1. x \in Pending' <=> \E q \in Proc : \E r \in todo[q] : x = Row(q, r)'
        BY <1>3
      <3>2. x \in Pending <=> \E q \in Proc : \E r \in todo[q] : x = Row(q, r)
        BY InPending
      <3> QED  BY <1>2, <3>1, <3>2
    <2> QED  BY <2>1
  <1> QED  BY <1>1, <1>4 DEF Saved

LEMMA FoundKeepsSaved ==
    ASSUME Types, Requests, Saved, NEW p \in Proc, BookFound(p)
    PROVE  Saved'
  <1>1. Others(p)
    BY BookStep DEF Local
  <1>2. proc'[p].id = proc[p].id
    BY Leaves DEF BookFound, Become, Types, Process
  <1>3. CASE Saving = {} /\ saved' = {}
    <2>1. \A q \in Proc \ {p} : todo'[q] = {}
      BY <1>3 DEF BookFound, Types, Saving
    <2>2. Saving' \subseteq {p}
      BY <2>1 DEF Saving
    <2>3. \A x : x \in Pending' <=> \E q \in Proc : \E r \in todo'[q] : x = Row(q, r)'
      BY DEF Pending, Row
    <2>4. last' = {Row(p, r) : r \in todo'[p]} /\ \A r : Row(p, r)' = Row(p, r)
      BY <1>2 DEF BookFound, Row
    <2>5. \A x : x \in Pending' <=> x \in last'
      BY <2>1, <2>3, <2>4
    <2> QED  BY <1>3, <2>2, <2>5 DEF Saved
  <1>4. CASE torn'
    BY <1>4 DEF Saved
  <1> QED  BY <1>3, <1>4 DEF BookFound

LEMMA InsertKeepsSaved ==
    ASSUME Types, Requests, Saved, NEW p \in Proc, SaveOne(p)
    PROVE  Saved'
  <1>0. Others(p)
    BY BookStep DEF Local
  <1>1. PICK r \in todo[p] : saved' = saved \cup {Row(p, r)} /\ Inserted(p, todo[p] \ {r})
    BY DEF SaveOne
  <1>2. proc'[p].id = proc[p].id
    BY <1>1, Leaves DEF Inserted, Goto, Types, Process
  <1>3. \A q \in Proc : todo'[q] = IF q = p THEN todo[p] \ {r} ELSE todo[q]
    BY <1>1 DEF Inserted, Types
  <1>4. \A q \in Proc : \A x : Row(q, x)' = Row(q, x)
    BY <1>0, <1>2 DEF Others, Row
  <1>5. \A x : x \in Pending' <=> \E q \in Proc : \E y \in todo'[q] : x = Row(q, y)'
    BY DEF Pending, Row
  <1>6. Saving' \subseteq Saving
    BY <1>3 DEF Saving
  <1>7. saved' \cup Pending' = saved \cup Pending
    <2>1. ASSUME NEW x \in Pending' PROVE x \in Pending
      BY <1>3, <1>4, <1>5, InPending
    <2>2. ASSUME NEW x \in Pending, x # Row(p, r) PROVE x \in Pending'
      BY <1>3, <1>4, <1>5, <2>2, InPending
    <2>3. Row(p, r) \in Pending
      BY InPending
    <2> QED  BY <1>1, <2>1, <2>2, <2>3
  <1>8. last' = last /\ torn' = torn
    BY <1>1 DEF Inserted, SaveOne
  <1> QED  BY <1>6, <1>7, <1>8 DEF Saved

LEMMA SavedStep ==
    ASSUME Types, Requests, Saved, NEW p \in Proc, BookRequest(p) \/ Step(p)
    PROVE  Saved'
  <1>0. Others(p) /\ RequestOk(p)
    BY LocalStep DEF Local, Requests
  <1>1. ASSUME proc[p].pc # "save", UNCHANGED <<saved, todo, last, torn>> PROVE Saved'
    BY <1>0, <1>1, SavedKept DEF RequestOk
  <1>2. CASE BookFound(p) \/ SaveOne(p)
    BY <1>2, FoundKeepsSaved, InsertKeepsSaved
  <1>3. CASE SaveFails(p)
    BY <1>3 DEF SaveFails, Saved
  <1>4. CASE BookRequest(p)
    <2>1. proc[p] = Idle
      BY <1>4 DEF BookRequest, IdxRequest, CreateIndexer, UpdateIndexer, DeleteIndexer,
                  SearchBegin, LibraryBegin, BookBegin, MetaBegin, Request
    <2>2. UNCHANGED bookVars
      BY <1>4 DEF BookRequest, LibraryBegin, BookBegin, MetaBegin
    <2> QED  BY <1>1, <2>1, <2>2 DEF Idle, bookVars
  <1>5. CASE IdxStep(p) /\ UNCHANGED <<bookVars, walk>>
    <2>1. proc[p].pc # "save"
      <3>1. CASE FanStep(p)
        <4>1. ~fan[p].begun \/ fan[p].ask # {}
          BY <3>1 DEF FanStep, Snapshot
        <4>2. fan[p] # NoFan
          BY <4>1 DEF NoFan
        <4> QED  BY <1>0, <4>2 DEF RequestOk
      <3> QED  BY <1>5, <3>1 DEF IdxStep, Drop, loadClient, SearchDone, Collected, Respond
    <2> QED  BY <1>1, <1>5, <2>1 DEF bookVars
  <1>6. CASE LibraryDone(p) \/ BookAgain(p) \/ BookNothing(p)
    BY <1>1, <1>6 DEF LibraryDone, BookAgain, BookNothing, Collected, bookVars
  <1>7. CASE MergeReply(p) \/ FetchReply(p) \/ MetaFails(p) \/ MetaDone(p)
    BY <1>1, <1>7 DEF MergeReply, FetchReply, MetaFails, MetaDone, Walking, bookVars
  <1> QED  BY <1>2, <1>3, <1>4, <1>5, <1>6, <1>7 DEF Step

-----------------------------------------------------------------------------
(* After a restart no request is served and the map is the table's. *)

LEMMA RestartStep ==
    ASSUME IInv, RestartAll
    PROVE  IInv'
  <1> USE DEF RestartAll, Restart
  <1>1. Types'
    <2>1. clients' \in [IndexerId -> Nat]
      <3>1. \A i \in IndexerId : indexer[i].ver \in Nat
        BY DEF IInv, Types, IndexerRow
      <3> QED  BY <3>1 DEF LoadIndexers
    <2> QED  BY <2>1, TypeFacts DEF IInv, Types
  <1>2. Requests'
    BY DEF Requests, RequestOk, Idle, Finished, Merging
  <1>3. Caching'
    <2>1. \A i \in IndexerId : Changing(i)' = {}
      BY DEF Changing, Idle
    <2>2. \A i \in IndexerId : clients'[i] = Expected(i)'
      BY DEF LoadIndexers, Expected
    <2> QED  BY <2>1, <2>2 DEF Caching, Cached
  <1>4. Saved'
    <2>1. Saving' = {} /\ Pending' = {}
      BY DEF Saving, Pending
    <2>2. ASSUME ~torn' PROVE saved' = last'
      <3>1. ~torn /\ Saving = {}
        BY <2>2
      <3>2. Pending = {}
        BY <3>1, InPending DEF Saving
      <3> QED  BY <3>1, <3>2 DEF IInv, Saved
    <2> QED  BY <2>1, <2>2 DEF Saved
  <1> QED  BY <1>1, <1>2, <1>3, <1>4 DEF IInv

LEMMA NextIInv == IInv /\ [Next]_vars => IInv'
  <1> SUFFICES ASSUME IInv, [Next]_vars PROVE IInv'
    OBVIOUS
  <1>1. ASSUME NEW p \in Proc, BookRequest(p) \/ Step(p) PROVE IInv'
    BY <1>1, TypesKept, RequestsKept, CachingKept, SavedStep DEF IInv
  <1>2. CASE RestartAll
    BY <1>2, RestartStep
  <1>3. CASE UNCHANGED vars
    <2>1. UNCHANGED <<indexer, clients, proc, fan, requests, changes, raced, heard>>
      BY <1>3 DEF vars, idxVars
    <2>2. UNCHANGED <<saved, todo, last, torn, walk>>
      BY <1>3 DEF vars, bookVars
    <2>3. Types' /\ Requests'
      BY <2>1, <2>2 DEF IInv, Types, Requests, RequestOk, Finished, Merging
    <2>4. Caching'
      BY <2>1 DEF IInv, Caching, Cached, Changing, Expected
    <2>5. Saved'
      BY <2>1, <2>2 DEF IInv, Saved, Saving, Pending, Row
    <2> QED  BY <2>3, <2>4, <2>5 DEF IInv
  <1> QED  BY <1>1, <1>2, <1>3 DEF Next

-----------------------------------------------------------------------------
\* The inductive invariant of the searches: every request keeps its part of
\* it, the map of clients follows the table, and the results saved and to be
\* saved are those of one search.
THEOREM SearchInvariant == Spec => []IInv
  BY InitIInv, NextIInv, PTL DEF Spec

\* A finished search, of the indexers, the libraries, a book or the metadata
\* providers, returns what every source that answered had to say.
THEOREM NothingIsHidden == Spec => []NothingHidden
  <1>1. IInv => NothingHidden
    BY DEF IInv, Requests, RequestOk, Finished, Earliest, NothingHidden
  <1> QED  BY <1>1, SearchInvariant, PTL

\* The results kept for a book are those of one search, whole, unless a
\* failed statement, a restart or a second search disturbed the saving.
THEOREM SavedFromOneSearch == Spec => []SavedIsOneSearch
  <1>1. IInv => SavedIsOneSearch
    <2> SUFFICES ASSUME IInv, ~torn, Saving = {} PROVE saved = last
      BY DEF SavedIsOneSearch
    <2>1. Pending = {}
      BY InPending DEF Saving
    <2> QED  BY <2>1 DEF IInv, Saved
  <1> QED  BY <1>1, SearchInvariant, PTL

\* The map the searches use follows the table wherever no two requests
\* changed one indexer at the same time.
THEOREM ClientsFollow == Spec => []ClientsFollowRows
  <1>1. IInv => ClientsFollowRows
    BY DEF IInv, Caching, Cached, Expected, ClientsFollowRows
  <1> QED  BY <1>1, SearchInvariant, PTL
================================================================================
