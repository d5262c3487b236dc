------------------------------ MODULE Scheduler ------------------------------
(***************************************************************************)
(* The command queue of internal/scheduler: the commands and               *)
(* scheduled_tasks tables, the one-second loop (run), the goroutines it    *)
(* starts (executeCommand), CancelCommand, Stop, and a process that may    *)
(* die at any point and start again on the same database.                  *)
(*                                                                         *)
(* Command ids are numbers in order of insertion: ORDER BY priority DESC,  *)
(* queued_at ASC is the order of insertion, since QueueCommand always      *)
(* writes priority 0, and rows of the same second come in index order,     *)
(* that is by rowid (the wall clock is taken not to go back).              *)
(***************************************************************************)
EXTENDS Naturals, FiniteSets

CONSTANTS
    Names,          \* command names
    Handled,        \* the names RegisterWantedHandlers registers a handler for
    Tasks,          \* the names in scheduled_tasks
    Worker,         \* identities for goroutines running executeCommand
    MaxConcurrent,  \* capacity of workerSem
    \* Bounds of the exploration: rows inserted, manual commands queued,
    \* times a task falls due, cancels, stops, crashes, failed statements.
    MaxCommands, MaxManual, MaxDue, MaxCancels, MaxStops, MaxCrashes, MaxFaults

ASSUME ConstantsOK ==
    /\ Handled \subseteq Names
    /\ Tasks \subseteq Names
    /\ IsFiniteSet(Worker)
    /\ MaxConcurrent \in Nat \ {0}
    /\ \A b \in {MaxCommands, MaxManual, MaxDue, MaxCancels, MaxStops,
                 MaxCrashes, MaxFaults} : b \in Nat

VARIABLES
    \* The database: it survives a crash.
    status,     \* commands.status, "absent" before the INSERT
    name,       \* commands.name
    origin,     \* commands.trigger
    inserted,   \* number of rows inserted so far
    due,        \* scheduled_tasks rows with next_run_at in the past
    \* The scheduler goroutine.
    loop,       \* where run is
    picked,     \* the command returned by getNextQueuedCommand, or 0
    batch,      \* rows returned by getDueScheduledTasks still to be handled
    task,       \* the task of that batch being handled
    \* The rest of the process.
    pc,         \* where the goroutine of each worker is
    cmd,        \* the command that goroutine was started with, or 0
    cancelled,  \* goroutines whose context has been cancelled
    running,    \* the running map: whose cancel func is stored, or 0
    sem,        \* tokens in workerSem
    wg,         \* the WaitGroup counter
    stop,       \* how far a call of Stop has come
    canceller,  \* the command CancelCommand is between its two steps for, or 0
    \* What has happened so far, for the bounds and the properties.
    dueCount, manual, cancels, stops, crashes, faults

dbVars   == <<status, name, origin, inserted, due>>
loopVars == <<loop, picked, batch, task>>
workVars == <<pc, cmd, cancelled, running, sem, wg>>
ctlVars  == <<stop, canceller>>
history  == <<dueCount, manual, cancels, stops, crashes, faults>>
vars     == <<dbVars, loopVars, workVars, ctlVars, history>>

-----------------------------------------------------------------------------
CommandId == 1..MaxCommands
Terminal  == {"completed", "failed", "cancelled"}
Status    == {"queued", "running"} \cup Terminal

\* The goroutine has its own steps only between "go" and wg.Done.
Live == {w \in Worker : pc[w] # "idle"}
\* Between the send on workerSem and the deferred receive.
Holding == {w \in Worker : pc[w] \notin {"idle", "released"}}
Executing == {w \in Worker : pc[w] = "executing"}
LoopAlive == loop \notin {"off", "exited"}
Up == loop # "off"

Queued == {c \in CommandId : status[c] = "queued"}
NoTask == "none"

WorkerPC == {"idle", "spawned", "tracked", "executing", "completing", "failing",
             "untracking", "releasing", "released"}
LoopPC == {"off", "select", "dispatch", "acquire", "check", "tasks",
           "reschedule", "exited"}

TypeOK ==
    /\ status \in [CommandId -> Status \cup {"absent"}]
    /\ name \in [CommandId -> Names \cup {NoTask}]
    /\ origin \in [CommandId -> {"manual", "scheduled"}]
    /\ inserted \in 0..MaxCommands
    /\ due \in SUBSET Tasks
    /\ loop \in LoopPC
    /\ picked \in CommandId \cup {0}
    /\ batch \in SUBSET Tasks
    /\ task \in Tasks \cup {NoTask}
    /\ pc \in [Worker -> WorkerPC]
    /\ cmd \in [Worker -> CommandId \cup {0}]
    /\ cancelled \in SUBSET Worker
    /\ running \in [CommandId -> Worker \cup {0}]
    /\ sem \in Nat
    /\ wg \in Nat
    /\ stop \in {"no", "closed", "swept", "returned"}
    /\ canceller \in CommandId \cup {0}
    /\ dueCount \in [Tasks -> Nat]
    /\ {manual, cancels, stops, crashes, faults} \subseteq Nat

Init ==
    /\ status = [c \in CommandId |-> "absent"]
    /\ name = [c \in CommandId |-> NoTask]
    /\ origin = [c \in CommandId |-> "manual"]
    /\ inserted = 0
    /\ due = {}
    /\ loop = "off"
    /\ picked = 0
    /\ batch = {}
    /\ task = NoTask
    /\ pc = [w \in Worker |-> "idle"]
    /\ cmd = [w \in Worker |-> 0]
    /\ cancelled = {}
    /\ running = [c \in CommandId |-> 0]
    /\ sem = 0
    /\ wg = 0
    /\ stop = "no"
    /\ canceller = 0
    /\ dueCount = [t \in Tasks |-> 0]
    /\ manual = 0 /\ cancels = 0 /\ stops = 0 /\ crashes = 0 /\ faults = 0

-----------------------------------------------------------------------------
\* The INSERT of QueueCommand.
Insert(n, trigger) ==
    /\ inserted < MaxCommands
    /\ inserted' = inserted + 1
    /\ status' = [status EXCEPT ![inserted'] = "queued"]
    /\ name' = [name EXCEPT ![inserted'] = n]
    /\ origin' = [origin EXCEPT ![inserted'] = trigger]

\* One statement may fail; the code logs the error and goes on without it.
StatementFails ==
    /\ faults < MaxFaults
    /\ faults' = faults + 1
    /\ UNCHANGED <<dueCount, manual, cancels, stops, crashes>>

\* UPDATE commands SET status = ... WHERE id = c: no condition on the old
\* status, no effect when the row is not there.
updateCommandStatus(c, s) ==
    status' = [status EXCEPT ![c] = IF @ = "absent" THEN @ ELSE s]

-----------------------------------------------------------------------------
\* QueueCommand with TriggerManual, which is also all that TriggerTask does.
QueueCommand(n) ==
    /\ Up
    /\ manual < MaxManual
    /\ Insert(n, "manual")
    /\ manual' = manual + 1
    /\ UNCHANGED <<due, loopVars, workVars, ctlVars, dueCount, cancels, stops,
                   crashes, faults>>

\* Time passes next_run_at of a task.
TaskFallsDue(t) ==
    /\ t \notin due
    /\ dueCount[t] < MaxDue
    /\ due' = due \cup {t}
    /\ dueCount' = [dueCount EXCEPT ![t] = @ + 1]
    /\ UNCHANGED <<status, name, origin, inserted, loopVars, workVars, ctlVars,
                   manual, cancels, stops, crashes, faults>>

-----------------------------------------------------------------------------
\* Mutant: a restart leaves the rows of the dead process alone.
noRecovery == UNCHANGED status

\* Start: recoverOrphanedCommands, then the loop's goroutine.
recoverOrphanedCommands ==
    status' = [c \in CommandId |->
                 IF status[c] = "running" THEN "queued" ELSE status[c]]

Start ==
    /\ loop = "off"
    /\ loop' = "select"
    /\ wg' = wg + 1
    /\ \/ recoverOrphanedCommands /\ UNCHANGED history
       \/ UNCHANGED status /\ StatementFails
    /\ UNCHANGED <<name, origin, inserted, due, picked, batch, task, pc, cmd,
                   cancelled, running, sem, ctlVars>>

\* case <-ticker.C: select may take it even when stopCh is closed too.
Tick ==
    /\ loop = "select"
    /\ loop' = "dispatch"
    /\ UNCHANGED <<dbVars, picked, batch, task, workVars, ctlVars, history>>

\* Mutant: run returns without wg.Done.
LoopExit_noDone ==
    /\ loop = "select"
    /\ stop # "no"
    /\ loop' = "exited"
    /\ UNCHANGED <<dbVars, picked, batch, task, workVars, ctlVars, history>>

\* case <-s.stopCh: run returns, its deferred wg.Done runs.
LoopExit ==
    /\ loop = "select"
    /\ stop # "no"
    /\ loop' = "exited"
    /\ wg' = wg - 1
    /\ UNCHANGED <<dbVars, picked, batch, task, pc, cmd, cancelled, running, sem,
                   ctlVars, history>>

\* getNextQueuedCommand: the oldest row that is still queued.
getNextQueuedCommand ==
    /\ loop = "dispatch"
    /\ \/ \E c \in Queued :
             /\ \A d \in Queued : c <= d
             /\ picked' = c
             /\ loop' = "acquire"
             /\ UNCHANGED history
       \/ /\ Queued = {}
          /\ loop' = "check"
          /\ UNCHANGED <<picked, history>>
       \/ /\ loop' = "check"
          /\ StatementFails
          /\ UNCHANGED picked
    /\ UNCHANGED <<dbVars, batch, task, workVars, ctlVars>>

\* Mutant: the slot is counted but not waited for.
Spawn_noLimit(w) ==
    /\ loop = "acquire"
    /\ pc[w] = "idle"
    /\ sem' = sem + 1
    /\ wg' = wg + 1
    /\ pc' = [pc EXCEPT ![w] = "spawned"]
    /\ cmd' = [cmd EXCEPT ![w] = picked]
    /\ picked' = 0
    /\ loop' = "check"
    /\ UNCHANGED <<dbVars, batch, task, cancelled, running, ctlVars, history>>

\* Mutant: no wg.Add before the goroutine is started.
Spawn_noAdd(w) ==
    /\ loop = "acquire"
    /\ sem < MaxConcurrent
    /\ pc[w] = "idle"
    /\ sem' = sem + 1
    /\ pc' = [pc EXCEPT ![w] = "spawned"]
    /\ cmd' = [cmd EXCEPT ![w] = picked]
    /\ picked' = 0
    /\ loop' = "check"
    /\ UNCHANGED <<dbVars, batch, task, cancelled, running, wg, ctlVars, history>>

\* The non-blocking send on workerSem, wg.Add and go executeCommand.
Spawn(w) ==
    /\ loop = "acquire"
    /\ sem < MaxConcurrent
    /\ pc[w] = "idle"
    /\ sem' = sem + 1
    /\ wg' = wg + 1
    /\ pc' = [pc EXCEPT ![w] = "spawned"]
    /\ cmd' = [cmd EXCEPT ![w] = picked]
    /\ picked' = 0
    /\ loop' = "check"
    /\ UNCHANGED <<dbVars, batch, task, cancelled, running, ctlVars, history>>

\* default: no worker slot, try again on a later tick.
NoSlot ==
    /\ loop = "acquire"
    /\ sem >= MaxConcurrent
    /\ picked' = 0
    /\ loop' = "check"
    /\ UNCHANGED <<dbVars, batch, task, workVars, ctlVars, history>>

\* checkScheduledTasks reads the due rows once ...
getDueScheduledTasks ==
    /\ loop = "check"
    /\ \/ /\ batch' = due
          /\ loop' = IF due = {} THEN "select" ELSE "tasks"
          /\ UNCHANGED history
       \/ /\ loop' = "select"
          /\ StatementFails
          /\ UNCHANGED batch
    /\ UNCHANGED <<dbVars, picked, task, workVars, ctlVars>>

\* Mutant: no "continue" after a failed INSERT.
QueueScheduled_noContinue(t) ==
    /\ loop = "tasks"
    /\ t \in batch
    /\ batch' = batch \ {t}
    /\ task' = t
    /\ loop' = "reschedule"
    /\ \/ Insert(t, "scheduled") /\ UNCHANGED history
       \/ UNCHANGED <<status, name, origin, inserted>> /\ StatementFails
    /\ UNCHANGED <<due, picked, workVars, ctlVars>>

\* ... queues each of them in turn; when that fails it goes to the next row ...
QueueScheduled(t) ==
    /\ loop = "tasks"
    /\ t \in batch
    /\ batch' = batch \ {t}
    /\ \/ /\ Insert(t, "scheduled")
          /\ task' = t
          /\ loop' = "reschedule"
          /\ UNCHANGED history
       \/ /\ loop' = IF batch' = {} THEN "select" ELSE "tasks"
          /\ StatementFails
          /\ UNCHANGED <<status, name, origin, inserted, task>>
    /\ UNCHANGED <<due, picked, workVars, ctlVars>>

\* Mutant: next_run_at stays in the past.
updateTaskNextRun_lost ==
    /\ loop = "reschedule"
    /\ task' = NoTask
    /\ loop' = IF batch = {} THEN "select" ELSE "tasks"
    /\ UNCHANGED <<dbVars, picked, batch, workVars, ctlVars, history>>

\* ... and moves next_run_at into the future in a statement of its own.
updateTaskNextRun ==
    /\ loop = "reschedule"
    /\ \/ due' = due \ {task} /\ UNCHANGED history
       \/ UNCHANGED due /\ StatementFails
    /\ task' = NoTask
    /\ loop' = IF batch = {} THEN "select" ELSE "tasks"
    /\ UNCHANGED <<status, name, origin, inserted, picked, batch, workVars, ctlVars>>

-----------------------------------------------------------------------------
(* executeCommand, one action between two points where others can act. *)

\* s.running[cmd.ID] = cancel
Track(w) ==
    /\ pc[w] = "spawned"
    /\ running' = [running EXCEPT ![cmd[w]] = w]
    /\ pc' = [pc EXCEPT ![w] = "tracked"]
    /\ UNCHANGED <<dbVars, loopVars, cmd, cancelled, sem, wg, ctlVars, history>>

\* Mutant: a command without a handler is only logged.
MarkRunning_logsOnly(w) ==
    /\ pc[w] = "tracked"
    /\ updateCommandStatus(cmd[w], "running")
    /\ pc' = [pc EXCEPT ![w] =
                IF name[cmd[w]] \in Handled THEN "executing" ELSE "untracking"]
    /\ UNCHANGED <<name, origin, inserted, due, loopVars, cmd, cancelled, running,
                   sem, wg, ctlVars, history>>

\* Mark as running, then look the handler up; a failed UPDATE ends it here.
MarkRunning(w) ==
    /\ pc[w] = "tracked"
    /\ \/ /\ updateCommandStatus(cmd[w], "running")
          /\ pc' = [pc EXCEPT ![w] =
                      IF name[cmd[w]] \in Handled THEN "executing" ELSE "failing"]
          /\ UNCHANGED history
       \/ /\ UNCHANGED status
          /\ pc' = [pc EXCEPT ![w] = "untracking"]
          /\ StatementFails
    /\ UNCHANGED <<name, origin, inserted, due, loopVars, cmd, cancelled, running,
                   sem, wg, ctlVars>>

\* The handler returns nil or an error, whether its context is cancelled or not.
HandlerReturns(w) ==
    /\ pc[w] = "executing"
    /\ \E r \in {"completing", "failing"} : pc' = [pc EXCEPT ![w] = r]
    /\ UNCHANGED <<dbVars, loopVars, cmd, cancelled, running, sem, wg, ctlVars,
                   history>>

RecordResult(w) ==
    /\ pc[w] \in {"completing", "failing"}
    /\ \/ /\ updateCommandStatus(cmd[w], IF pc[w] = "completing" THEN "completed"
                                         ELSE "failed")
          /\ UNCHANGED history
       \/ UNCHANGED status /\ StatementFails
    /\ pc' = [pc EXCEPT ![w] = "untracking"]
    /\ UNCHANGED <<name, origin, inserted, due, loopVars, cmd, cancelled, running,
                   sem, wg, ctlVars>>

\* The deferred calls, last in first out: delete from running, cancel the
\* context, receive from workerSem, wg.Done.
Untrack(w) ==
    /\ pc[w] = "untracking"
    /\ running' = [running EXCEPT ![cmd[w]] = 0]
    /\ pc' = [pc EXCEPT ![w] = "releasing"]
    /\ UNCHANGED <<dbVars, loopVars, cmd, cancelled, sem, wg, ctlVars, history>>

Release(w) ==
    /\ pc[w] = "releasing"
    /\ sem' = sem - 1
    /\ pc' = [pc EXCEPT ![w] = "released"]
    /\ cancelled' = cancelled \ {w}
    /\ UNCHANGED <<dbVars, loopVars, cmd, running, wg, ctlVars, history>>

Done(w) ==
    /\ pc[w] = "released"
    /\ wg' = wg - 1
    /\ pc' = [pc EXCEPT ![w] = "idle"]
    /\ cmd' = [cmd EXCEPT ![w] = 0]
    /\ UNCHANGED <<dbVars, loopVars, cancelled, running, sem, ctlVars, history>>

WorkerStep(w) ==
    \/ Track(w) \/ MarkRunning(w) \/ HandlerReturns(w) \/ RecordResult(w)
    \/ Untrack(w) \/ Release(w) \/ Done(w)

-----------------------------------------------------------------------------
\* CancelCommand calls the stored cancel func under the lock ...
CancelContext(c) ==
    /\ Up
    /\ canceller = 0
    /\ cancels < MaxCancels
    /\ status[c] # "absent"
    /\ cancelled' = cancelled \cup ({running[c]} \cap Worker)
    /\ canceller' = c
    /\ cancels' = cancels + 1
    /\ UNCHANGED <<dbVars, loopVars, pc, cmd, running, sem, wg, stop, dueCount,
                   manual, stops, crashes, faults>>

\* ... and writes the row after it.
CancelRow ==
    /\ canceller # 0
    /\ \/ updateCommandStatus(canceller, "cancelled") /\ UNCHANGED history
       \/ UNCHANGED status /\ StatementFails
    /\ canceller' = 0
    /\ UNCHANGED <<name, origin, inserted, due, loopVars, workVars, stop>>

\* Stop: close(stopCh); cancel what is in running; wg.Wait.
StopClose ==
    /\ LoopAlive
    /\ stop = "no"
    /\ stops < MaxStops
    /\ stop' = "closed"
    /\ stops' = stops + 1
    /\ UNCHANGED <<dbVars, loopVars, workVars, canceller, dueCount, manual,
                   cancels, crashes, faults>>

StopSweep ==
    /\ stop = "closed"
    /\ cancelled' = cancelled \cup ({running[c] : c \in CommandId} \cap Worker)
    /\ stop' = "swept"
    /\ UNCHANGED <<dbVars, loopVars, pc, cmd, running, sem, wg, canceller, history>>

StopWait ==
    /\ stop = "swept"
    /\ wg = 0
    /\ stop' = "returned"
    /\ UNCHANGED <<dbVars, loopVars, workVars, canceller, history>>

-----------------------------------------------------------------------------
\* The process dies: only the database is left.
Crash ==
    /\ Up
    /\ crashes < MaxCrashes
    /\ crashes' = crashes + 1
    /\ loop' = "off"
    /\ picked' = 0
    /\ batch' = {}
    /\ task' = NoTask
    /\ pc' = [w \in Worker |-> "idle"]
    /\ cmd' = [w \in Worker |-> 0]
    /\ cancelled' = {}
    /\ running' = [c \in CommandId |-> 0]
    /\ sem' = 0
    /\ wg' = 0
    /\ stop' = "no"
    /\ canceller' = 0
    /\ UNCHANGED <<dbVars, dueCount, manual, cancels, stops, faults>>

LoopStep ==
    \/ Tick \/ LoopExit \/ getNextQueuedCommand \/ NoSlot
    \/ \E w \in Worker : Spawn(w)
    \/ getDueScheduledTasks \/ updateTaskNextRun
    \/ \E t \in Tasks : QueueScheduled(t)

StopStep == StopSweep \/ StopWait

Next ==
    \/ Start
    \/ LoopStep
    \/ \E w \in Worker : WorkerStep(w)
    \/ \E n \in Names : QueueCommand(n)
    \/ \E t \in Tasks : TaskFallsDue(t)
    \/ \E c \in CommandId : CancelContext(c)
    \/ CancelRow
    \/ StopClose
    \/ StopStep
    \/ Crash

Spec == Init /\ [][Next]_vars

\* A supervisor starts the process again; the loop's ticker keeps firing; a
\* goroutine that can run does; handlers return. select picks at random among
\* the cases that are ready, so the stop case is not passed over for ever.
Fairness ==
    /\ WF_vars(Start)
    /\ WF_vars(LoopStep)
    /\ SF_vars(LoopExit)
    /\ \A w \in Worker : WF_vars(WorkerStep(w))
    /\ WF_vars(CancelRow)
    /\ WF_vars(StopStep)

FairSpec == Spec /\ Fairness

-----------------------------------------------------------------------------
\* workerSem: no more handlers run at once than it has slots, however the
\* goroutines' starts and deferred releases interleave.
BoundedExecution == Cardinality(Executing) <= MaxConcurrent

\* Stop returns only when no goroutine that could still touch the database or
\* run a handler is left: neither the loop nor a worker, also those started
\* between close(stopCh) and the loop seeing it.
StopQuiesces == stop = "returned" => loop = "exited" /\ Live = {}

\* A row says "running" only while a goroutine is there that will move it on:
\* recoverOrphanedCommands leaves no row behind that a dead process was
\* running, and no interleaving of copies of a command strands it. Failed
\* statements (they are logged and dropped) are the one way to break this.
RunningHasWorker ==
    Up /\ faults = 0 =>
        \A c \in CommandId : status[c] = "running" =>
            \E w \in Worker : cmd[w] = c /\ pc[w] \in {"executing", "completing", "failing"}

\* The counters and the queue implement the pool of WorkerPool: the slots are
\* those of workerSem, Stop closes it, and wg is what Stop waits for.
Phase == IF loop = "off" THEN "down"
         ELSE IF stop = "no" THEN "open"
         ELSE IF stop = "returned" THEN "closed"
         ELSE "closing"

Pool == INSTANCE WorkerPool WITH
    Slots <- MaxConcurrent, busy <- Holding, alive <- Live, phase <- Phase

ImplementsPool == Pool!Spec

\* Each time a task falls due it is queued once. A crash or a failed UPDATE
\* between the INSERT and updateTaskNextRun may repeat it, once each.
RowsOf(t) == {c \in CommandId : name[c] = t /\ origin[c] = "scheduled"}
NoSpuriousTaskRun ==
    \A t \in Tasks :
        Cardinality(RowsOf(t)) <= dueCount[t] + crashes + faults

\* The reverse: no due time is lost. A task whose due mark is gone has been
\* queued for every time it fell due, even when statements fail or the process
\* dies between reading the due rows and queueing them.
NoLostTaskRun ==
    \A t \in Tasks : t \notin due => Cardinality(RowsOf(t)) >= dueCount[t]

\* Every command that is queued ends for good (completed, failed or
\* cancelled) unless Stop is called: a full semaphore, a second copy and a
\* crash only delay it.
EveryCommandEnds ==
    \/ <>[](\A c \in CommandId : status[c] \in Terminal \cup {"absent"})
    \/ <>[](stop # "no")

\* A task that falls due gets its row and a new due time, unless Stop is called.
DueTaskQueued == \A t \in Tasks : t \in due ~> t \notin due \/ stop # "no"

\* Stop does not hang: once it is called it returns, unless the process dies.
StopReturns == stop = "closed" ~> (stop = "returned" \/ loop = "off")

-----------------------------------------------------------------------------
(* What comments promise and the code does not keep. *)

\* "CancelCommand cancels a running or queued command": a cancelled row stays
\* cancelled.
CancelledStaysCancelled ==
    [][\A c \in CommandId : status[c] = "cancelled" => status'[c] = "cancelled"]_vars

\* executeCommand: "Track running command". While a handler runs, running
\* holds its cancel func under its command's id.
ExecutingIsTracked == \A w \in Executing : running[cmd[w]] = w
=============================================================================
