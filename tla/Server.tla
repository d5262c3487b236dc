--------------------------------- MODULE Server ---------------------------------
(***************************************************************************)
(* The process from start to end (cmd/bookaneer, internal/auth): the API    *)
(* key and the first admin it makes at its first start, the rows of         *)
(* internal/notification as an example of what requests change, the backup  *)
(* of the database and its restore (handler/system.go), the hub, and the    *)
(* process being killed anywhere in between.                                *)
(*                                                                         *)
(* The content of the database is one value, db: the key, the password of   *)
(* the admin and one notification channel. A file made from it is that      *)
(* value, or Cut if it was truncated or mixed with another.                 *)
(***************************************************************************)
EXTENDS Hub, FiniteSets

CONSTANTS
    Proc,       \* requests being served
    None, Cut,  \* no file, and a file that is not a whole database
    MaxTime,    \* bound: seconds, as the names of backups count them
    Budgets     \* bound: how many connections, messages, requests, faults and
                \* seconds a behaviour has

VARIABLES
    boot,       \* where run() is: "down", "key", "admin", "show", "up"
    starts,     \* how often the process has been started
    db,         \* the database
    now,        \* the time, in seconds
    copy, zip,  \* backups/bookaneer-<time>.db and .zip
    restored,   \* bookaneer-restore.db
    backups,    \* the backups that users have been given
    req,        \* what each request is doing
    left, faults,
    \* History: the API keys and passwords that were shown; the passwords that
    \* died with their process; whether restores ran into each other; the
    \* channel as it was last asked to be, and whether two asked at once; the
    \* starts that could not read the key.
    keys, shown, unlucky, mixed, asked, raced, unread

sysVars == <<boot, starts, db, now, copy, zip, restored, backups, req, left, faults,
             keys, shown, unlucky, mixed, asked, raced, unread>>
vars == <<hubVars, sysVars>>

-----------------------------------------------------------------------------
Time == 0 .. MaxTime

Channel == [url : {0, 1}, enabled : BOOLEAN]
Database == [key : Nat, admin : Nat, channel : Channel]
Files == Database \cup {None, Cut}

ASSUME FilesAssumption ==
    /\ None # Cut /\ None \notin Database /\ Cut \notin Database
    /\ MaxTime \in Nat

NoChannel == [url |-> 0, enabled |-> FALSE]
FirstDb == [key |-> 0, admin |-> 0, channel |-> NoChannel]
NoReq == [pc |-> "idle", at |-> 0, file |-> None, row |-> NoChannel]

Init ==
    /\ HubInit
    /\ boot = "down" /\ starts = 0 /\ db = FirstDb /\ now = 0
    /\ copy = [t \in Time |-> None] /\ zip = [t \in Time |-> None]
    /\ restored = None /\ backups = {}
    /\ req = [p \in Proc |-> NoReq]
    /\ left \in Budgets /\ faults = FALSE
    /\ keys = {} /\ shown = {} /\ unlucky = {} /\ mixed = FALSE
    /\ asked = NoChannel /\ raced = FALSE /\ unread = 0

Spend(k) == left[k] > 0 /\ left' = [left EXCEPT ![k] = @ - 1]
Fault == Spend("faults") /\ faults' = TRUE

-----------------------------------------------------------------------------
(* Start-up. *)

\* setupDatabase: the file is opened and migrated.
Start ==
    /\ boot = "down"
    /\ boot' = "key" /\ starts' = starts + 1
    /\ UNCHANGED <<hubVars, db, now, copy, zip, restored, backups, req, left, faults,
                   keys, shown, unlucky, mixed, asked, raced, unread>>

\* Mutant: every start makes a key.
EnsureAPIKey_always ==
    /\ boot = "key"
    /\ boot' = "admin"
    /\ db' = [db EXCEPT !.key = starts]
    /\ UNCHANGED <<hubVars, starts, now, copy, zip, restored, backups, req, left, faults,
                   keys, shown, unlucky, mixed, asked, raced, unread>>

\* A key is made if there is none, and also if it cannot be read.
EnsureAPIKey ==
    /\ boot = "key"
    /\ boot' = "admin"
    /\ \/ /\ db' = IF db.key = 0 THEN [db EXCEPT !.key = starts] ELSE db
          /\ UNCHANGED <<left, faults, unread>>
       \/ /\ Fault /\ unread' = unread + 1
          /\ db' = [db EXCEPT !.key = starts]
    /\ UNCHANGED <<hubVars, starts, now, copy, zip, restored, backups, req,
                   keys, shown, unlucky, mixed, asked, raced>>

\* The key is logged, unless it cannot be read: then the start goes on without.
ShowKey ==
    \/ keys' = keys \cup {db.key} /\ UNCHANGED <<left, faults>>
    \/ Fault /\ UNCHANGED keys

\* The first admin is made when there are no users.
EnsureDefaultAdmin ==
    /\ boot = "admin"
    /\ IF db.admin = 0
       THEN /\ boot' = "show" /\ db' = [db EXCEPT !.admin = starts]
            /\ UNCHANGED <<keys, left, faults>>
       ELSE boot' = "up" /\ ShowKey /\ UNCHANGED db
    /\ UNCHANGED <<hubVars, starts, now, copy, zip, restored, backups, req,
                   shown, unlucky, mixed, asked, raced, unread>>

\* The password is logged, and put into a file, after it has been stored.
LogAdminCredentials ==
    /\ boot = "show"
    /\ boot' = "up"
    /\ shown' = shown \cup {db.admin}
    /\ ShowKey
    /\ UNCHANGED <<hubVars, starts, db, now, copy, zip, restored, backups, req,
                   unlucky, mixed, asked, raced, unread>>

\* The process is killed, or ends over a statement that fails at start-up.
Die ==
    /\ boot # "down"
    /\ Fault
    /\ boot' = "down"
    /\ unlucky' = IF boot = "show" THEN unlucky \cup {db.admin} ELSE unlucky
    /\ restored' = IF \E p \in Proc : req[p].pc = "extract" THEN Cut ELSE restored
    /\ req' = [p \in Proc |-> NoReq]
    /\ raced' = (raced \/ \E p \in Proc : req[p].pc = "update")
    /\ HubDies
    /\ UNCHANGED <<starts, db, now, copy, zip, backups, keys, shown, mixed, asked, unread>>

-----------------------------------------------------------------------------
(* Requests. *)

Request(p) ==
    /\ boot = "up"
    /\ req[p] = NoReq
    /\ Spend("requests")

Become(p, r) == req' = [req EXCEPT ![p] = r]
Goto(p, pc) == req' = [req EXCEPT ![p].pc = pc]
Return(p) == Become(p, NoReq)

Updating == {p \in Proc : req[p].pc = "update"}

\* notification.Update reads the row, puts in what the request names, ...
UpdateChannel(p) ==
    /\ Request(p)
    /\ \E r \in {[db.channel EXCEPT !.url = 1], [db.channel EXCEPT !.enabled = TRUE]} :
        /\ Become(p, [NoReq EXCEPT !.pc = "update", !.row = r])
        /\ asked' = r
    /\ raced' = (raced \/ Updating # {})
    /\ UNCHANGED <<hubVars, boot, starts, db, now, copy, zip, restored, backups, faults,
                   keys, shown, unlucky, mixed, unread>>

\* Mutant: what the request does not name is written as in a new row.
StoreChannel_resets(p) ==
    /\ p \in Updating
    /\ db' = [db EXCEPT !.channel = [url |-> req[p].row.url, enabled |-> req[p].row.url = 0]]
    /\ Return(p)
    /\ UNCHANGED <<hubVars, boot, starts, now, copy, zip, restored, backups, left, faults,
                   keys, shown, unlucky, mixed, asked, raced, unread>>

\* ... and writes all of it.
StoreChannel(p) ==
    /\ p \in Updating
    /\ db' = [db EXCEPT !.channel = req[p].row]
    /\ Return(p)
    /\ UNCHANGED <<hubVars, boot, starts, now, copy, zip, restored, backups, left, faults,
                   keys, shown, unlucky, mixed, asked, raced, unread>>

-----------------------------------------------------------------------------
(* Backup and Restore. *)

\* Mutant: the copy is removed also when it could not be made.
Backup_removes(p) ==
    /\ Request(p)
    /\ IF copy[now] # None THEN copy' = [copy EXCEPT ![now] = None] /\ UNCHANGED req
       ELSE /\ copy' = [copy EXCEPT ![now] = db]
            /\ Become(p, [NoReq EXCEPT !.pc = "zip", !.at = now])
    /\ UNCHANGED <<hubVars, boot, starts, db, now, zip, restored, backups, faults,
                   keys, shown, unlucky, mixed, asked, raced, unread>>

\* VACUUM INTO copies the database in one statement. It fails if there is a
\* file of the name, which has the time in seconds: another request is at it,
\* or one was killed.
Backup(p) ==
    /\ Request(p)
    /\ IF copy[now] # None THEN UNCHANGED <<copy, req>>
       ELSE /\ copy' = [copy EXCEPT ![now] = db]
            /\ Become(p, [NoReq EXCEPT !.pc = "zip", !.at = now])
    /\ UNCHANGED <<hubVars, boot, starts, db, now, zip, restored, backups, faults,
                   keys, shown, unlucky, mixed, asked, raced, unread>>

\* The archive is created, truncating one of the name, or it cannot be.
CreateZip(p) ==
    /\ req[p].pc = "zip"
    /\ \/ /\ zip' = [zip EXCEPT ![req[p].at] = Cut]
          /\ Goto(p, "write") /\ UNCHANGED <<left, faults>>
       \/ Fault /\ Goto(p, "rmCopy") /\ UNCHANGED zip
    /\ UNCHANGED <<hubVars, boot, starts, db, now, copy, restored, backups,
                   keys, shown, unlucky, mixed, asked, raced, unread>>

\* The copy is opened and written to it; a failure leaves the archive there,
\* and one of its last bytes, at Close, is ignored.
WriteZip(p) ==
    /\ req[p].pc = "write"
    /\ \/ /\ copy[req[p].at] # None
          /\ \/ /\ zip' = [zip EXCEPT ![req[p].at] = copy[req[p].at]]
                /\ UNCHANGED <<left, faults>>
             \/ Fault /\ zip' = [zip EXCEPT ![req[p].at] = Cut]
          /\ Goto(p, "serve")
       \/ /\ IF copy[req[p].at] = None THEN UNCHANGED <<left, faults>> ELSE Fault
          /\ Goto(p, "rmCopy") /\ UNCHANGED zip
    /\ UNCHANGED <<hubVars, boot, starts, db, now, copy, restored, backups,
                   keys, shown, unlucky, mixed, asked, raced, unread>>

ServeZip(p) ==
    /\ req[p].pc = "serve"
    /\ backups' = backups \cup ({zip[req[p].at]} \ {None})
    /\ Goto(p, "rmZip")
    /\ UNCHANGED <<hubVars, boot, starts, db, now, copy, zip, restored, left, faults,
                   keys, shown, unlucky, mixed, asked, raced, unread>>

\* The deferred calls, last first.
RemoveZip(p) ==
    /\ req[p].pc = "rmZip"
    /\ zip' = [zip EXCEPT ![req[p].at] = None]
    /\ Goto(p, "rmCopy")
    /\ UNCHANGED <<hubVars, boot, starts, db, now, copy, restored, backups, left, faults,
                   keys, shown, unlucky, mixed, asked, raced, unread>>

RemoveCopy(p) ==
    /\ req[p].pc = "rmCopy"
    /\ copy' = [copy EXCEPT ![req[p].at] = None]
    /\ Return(p)
    /\ UNCHANGED <<hubVars, boot, starts, db, now, zip, restored, backups, left, faults,
                   keys, shown, unlucky, mixed, asked, raced, unread>>

\* Restore refuses an archive that is not one. It creates bookaneer-restore.db,
\* whoever else is writing it, ...
Restore(p) ==
    /\ Request(p)
    /\ \E b \in backups \ {Cut} : Become(p, [NoReq EXCEPT !.pc = "extract", !.file = b])
    /\ restored' = Cut
    /\ mixed' = (\E q \in Proc : req[q].pc = "extract")
    /\ UNCHANGED <<hubVars, boot, starts, db, now, copy, zip, backups, faults,
                   keys, shown, unlucky, asked, raced, unread>>

\* ... and writes the database of the archive to it, or fails half way.
Extract(p) ==
    /\ req[p].pc = "extract"
    /\ \/ restored' = (IF mixed THEN Cut ELSE req[p].file) /\ UNCHANGED <<left, faults>>
       \/ Fault /\ restored' = Cut
    /\ Return(p)
    /\ UNCHANGED <<hubVars, boot, starts, db, now, copy, zip, backups,
                   keys, shown, unlucky, mixed, asked, raced, unread>>

\* The user starts Bookaneer with the restored database, as the answer says.
InstallRestored ==
    /\ boot = "down"
    /\ restored \notin {None, Cut}
    /\ db' = restored
    /\ restored' = None
    /\ asked' = restored.channel
    /\ UNCHANGED <<hubVars, boot, starts, now, copy, zip, backups, req, left, faults,
                   keys, shown, unlucky, mixed, raced, unread>>

Second ==
    /\ now < MaxTime
    /\ Spend("seconds")
    /\ now' = now + 1
    /\ UNCHANGED <<hubVars, boot, starts, db, copy, zip, restored, backups, req, faults,
                   keys, shown, unlucky, mixed, asked, raced, unread>>

-----------------------------------------------------------------------------
(* The hub, for as long as the process lives. *)

Connect(c) ==
    /\ boot = "up" /\ Spend("connections") /\ HandleWS(c)
    /\ UNCHANGED <<boot, starts, db, now, copy, zip, restored, backups, req, faults,
                   keys, shown, unlucky, mixed, asked, raced, unread>>

Event ==
    /\ boot = "up" /\ Spend("messages") /\ Broadcast
    /\ UNCHANGED <<boot, starts, db, now, copy, zip, restored, backups, req, faults,
                   keys, shown, unlucky, mixed, asked, raced, unread>>

ReqStep(p) ==
    \/ UpdateChannel(p) \/ StoreChannel(p)
    \/ Backup(p) \/ CreateZip(p) \/ WriteZip(p) \/ ServeZip(p) \/ RemoveZip(p) \/ RemoveCopy(p)
    \/ Restore(p) \/ Extract(p)

Next ==
    \/ Start \/ EnsureAPIKey \/ EnsureDefaultAdmin \/ LogAdminCredentials \/ Die
    \/ \E p \in Proc : ReqStep(p)
    \/ InstallRestored \/ Second
    \/ (\E c \in Conn : Connect(c)) \/ Event
    \/ HubStep /\ UNCHANGED sysVars

Spec == Init /\ [][Next]_vars
FairSpec == Spec /\ HubFairness

-----------------------------------------------------------------------------
(* Properties. *)

ReqPC == {"idle", "update", "zip", "write", "serve", "rmZip", "rmCopy", "extract"}

SysTypeOK ==
    /\ boot \in {"down", "key", "admin", "show", "up"} /\ starts \in Nat
    /\ db \in Database /\ now \in Time
    /\ copy \in [Time -> Files] /\ zip \in [Time -> Files]
    /\ restored \in Files /\ backups \in SUBSET Files
    /\ req \in [Proc -> [pc : ReqPC, at : Time, file : Files, row : Channel]]
    /\ keys \in SUBSET Nat /\ shown \in SUBSET Nat /\ unlucky \in SUBSET Nat
    /\ faults \in BOOLEAN /\ mixed \in BOOLEAN /\ raced \in BOOLEAN
    /\ asked \in Channel /\ unread \in Nat

\* Whoever has been told the API key or the admin's password can use it for
\* ever: there has only ever been one of each, over any number of starts,
\* deaths in the middle of a start and restored backups, but for the key of a
\* start that could not read the one there was. A password nobody was
\* told can only be in force if the process died between storing and showing it
\* (no later start makes another, and no request changes it).
LoginsOutlive ==
    /\ Cardinality(keys \cup ({db.key} \ {0})) <= 1 + unread /\ Cardinality(shown) <= 1
    /\ boot = "up" => db.admin \in shown \cup unlucky

\* A backup that is given out is the whole database as it was at one moment,
\* unless a write failed: two backups of one second have the same two files.
\* And a restored file is such a backup, unless restores ran into each other.
BackupsAreWhole ==
    /\ Cut \in backups => faults
    /\ restored = Cut => faults \/ mixed \/ \E p \in Proc : req[p].pc = "extract"

\* An update of a notification channel changes the columns it names and no
\* other, unless two updates of it run at once: the later one then takes back
\* what the earlier one changed.
OthersKept == ~raced /\ Updating = {} => db.channel = asked
================================================================================
