--------------------------- MODULE SchedulerProofs ---------------------------
(***************************************************************************)
(* Theorems about Scheduler for every number of workers, slots, commands,  *)
(* tasks and faults. The counters sem and wg are what the Go code has; the *)
(* argument ties them to the goroutines they are meant to count.           *)
(***************************************************************************)
EXTENDS Scheduler, FiniteSetTheorems, TLAPS

\* Each token in workerSem belongs to one goroutine that has not released it.
SlotsCounted == sem = Cardinality(Holding) /\ sem <= MaxConcurrent

\* The WaitGroup counts the loop and every goroutine that has yet to call Done.
WaitGroupCounted == wg = Cardinality(Live) + (IF LoopAlive THEN 1 ELSE 0)

\* Stop is called on a started scheduler, and what it waited for stays gone.
StopOrder == (stop # "no" => Up) /\ StopQuiesces

PoolInv == SlotsCounted /\ WaitGroupCounted /\ StopOrder
IInv == TypeOK /\ PoolInv

-----------------------------------------------------------------------------
LEMMA WorkerSetsFinite ==
    /\ IsFiniteSet(Live) /\ Cardinality(Live) \in Nat
    /\ IsFiniteSet(Holding) /\ Cardinality(Holding) \in Nat
    /\ IsFiniteSet(Executing) /\ Cardinality(Executing) \in Nat
  <1>1. Live \subseteq Worker /\ Holding \subseteq Worker /\ Executing \subseteq Worker
    BY DEF Live, Holding, Executing
  <1> QED  BY <1>1, ConstantsOK, FS_Subset, FS_CardinalityType

\* A step of one goroutine that keeps it on the same side of both counters.
LEMMA PoolUnchanged ==
    ASSUME PoolInv, TypeOK, NEW w \in Worker, NEW p \in WorkerPC,
           pc' = [pc EXCEPT ![w] = p],
           pc[w] \notin {"idle", "released"}, p \notin {"idle", "released"},
           UNCHANGED <<sem, wg, loop, stop>>
    PROVE  PoolInv'
  <1>1. Holding' = Holding /\ Live' = Live
    BY DEF Holding, Live, TypeOK
  <1> QED
    BY <1>1 DEF PoolInv, SlotsCounted, WaitGroupCounted, StopOrder, StopQuiesces,
                LoopAlive, Up

\* QueueCommand's INSERT adds a well-formed row.
LEMMA InsertType ==
    ASSUME TypeOK, NEW n \in Names, NEW o \in {"manual", "scheduled"}, Insert(n, o)
    PROVE  /\ status' \in [CommandId -> Status \cup {"absent"}]
           /\ name' \in [CommandId -> Names \cup {NoTask}]
           /\ origin' \in [CommandId -> {"manual", "scheduled"}]
           /\ inserted' \in 0..MaxCommands
  <1>1. MaxCommands \in Nat
    BY ConstantsOK
  <1>2. inserted' \in 0..MaxCommands
    BY <1>1 DEF Insert, TypeOK
  <1> QED
    BY <1>2 DEF Insert, TypeOK, Status

LEMMA TypeStep == IInv /\ [Next]_vars => TypeOK'
  <1> SUFFICES ASSUME IInv, [Next]_vars PROVE TypeOK'
    OBVIOUS
  <1> USE DEF IInv, TypeOK, Status, Terminal, LoopPC, WorkerPC
  <1>1. CASE Start
    BY <1>1 DEF Start, recoverOrphanedCommands, StatementFails, ctlVars, history
  <1>2. CASE LoopStep
    <2>1. wg \in Nat /\ (LoopAlive => wg - 1 \in Nat)
      BY WorkerSetsFinite DEF PoolInv, WaitGroupCounted
    <2>2. CASE Tick
      BY <2>2 DEF Tick, dbVars, workVars, ctlVars, history
    <2>3. CASE LoopExit
      BY <2>1, <2>3 DEF LoopExit, LoopAlive, dbVars, ctlVars, history
    <2>4. CASE getNextQueuedCommand
      BY <2>4 DEF getNextQueuedCommand, Queued, StatementFails, dbVars, workVars,
                  ctlVars, history
    <2>5. CASE NoSlot
      BY <2>5 DEF NoSlot, dbVars, workVars, ctlVars, history
    <2>6. ASSUME NEW w \in Worker, Spawn(w) PROVE TypeOK'
      BY <2>6 DEF Spawn, dbVars, ctlVars, history
    <2>7. CASE getDueScheduledTasks
      BY <2>7 DEF getDueScheduledTasks, StatementFails, dbVars, workVars, ctlVars,
                  history
    <2>8. CASE updateTaskNextRun
      BY <2>8 DEF updateTaskNextRun, StatementFails, workVars, ctlVars, history
    <2>9. ASSUME NEW t \in Tasks, QueueScheduled(t) PROVE TypeOK'
      <3>1. t \in Names
        BY ConstantsOK
      <3>2. CASE Insert(t, "scheduled") /\ UNCHANGED history
        BY <2>9, <3>1, <3>2, InsertType DEF QueueScheduled, workVars, ctlVars, history
      <3>3. CASE UNCHANGED <<status, name, origin, inserted, task>> /\ StatementFails
        BY <2>9, <3>3 DEF QueueScheduled, StatementFails, workVars, ctlVars
      <3> QED
        BY <2>9, <3>2, <3>3 DEF QueueScheduled
    <2> QED
      BY <1>2, <2>2, <2>3, <2>4, <2>5, <2>6, <2>7, <2>8, <2>9 DEF LoopStep
  <1>3. ASSUME NEW w \in Worker, WorkerStep(w) PROVE TypeOK'
    <2>1. CASE Track(w)
      BY <2>1 DEF Track, dbVars, loopVars, ctlVars, history
    <2>2. CASE MarkRunning(w)
      BY <2>2 DEF MarkRunning, updateCommandStatus, StatementFails, loopVars,
                  ctlVars, history
    <2>3. CASE HandlerReturns(w)
      BY <2>3 DEF HandlerReturns, dbVars, loopVars, ctlVars, history
    <2>4. CASE RecordResult(w)
      BY <2>4 DEF RecordResult, updateCommandStatus, StatementFails, loopVars,
                  ctlVars, history
    <2>5. CASE Untrack(w)
      BY <2>5 DEF Untrack, dbVars, loopVars, ctlVars, history
    <2>6. CASE Release(w)
      <3>1. w \in Holding
        BY <2>6 DEF Release, Holding
      <3>2. sem - 1 \in Nat
        BY <3>1, WorkerSetsFinite, FS_EmptySet DEF PoolInv, SlotsCounted
      <3> QED
        BY <2>6, <3>2 DEF Release, dbVars, loopVars, ctlVars, history
    <2>7. CASE Done(w)
      <3>1. w \in Live
        BY <2>7 DEF Done, Live
      <3>2. wg - 1 \in Nat
        BY <3>1, WorkerSetsFinite, FS_EmptySet DEF PoolInv, WaitGroupCounted
      <3> QED
        BY <2>7, <3>2 DEF Done, dbVars, loopVars, ctlVars, history
    <2> QED
      BY <1>3, <2>1, <2>2, <2>3, <2>4, <2>5, <2>6, <2>7 DEF WorkerStep
  <1>4. ASSUME NEW n \in Names, QueueCommand(n) PROVE TypeOK'
    BY <1>4, InsertType DEF QueueCommand, loopVars, workVars, ctlVars
  <1>5. ASSUME NEW t \in Tasks, TaskFallsDue(t) PROVE TypeOK'
    BY <1>5 DEF TaskFallsDue, loopVars, workVars, ctlVars
  <1>6. ASSUME NEW c \in CommandId, CancelContext(c) PROVE TypeOK'
    BY <1>6 DEF CancelContext, dbVars, loopVars
  <1>7. CASE CancelRow
    BY <1>7 DEF CancelRow, updateCommandStatus, StatementFails, loopVars, workVars,
                history
  <1>8. CASE StopClose
    BY <1>8 DEF StopClose, dbVars, loopVars, workVars
  <1>9. CASE StopStep
    BY <1>9 DEF StopStep, StopSweep, StopWait, dbVars, loopVars, workVars, history
  <1>10. CASE Crash
    BY <1>10 DEF Crash, dbVars
  <1>11. CASE UNCHANGED vars
    BY <1>11 DEF vars, dbVars, loopVars, workVars, ctlVars, history
  <1> QED
    BY <1>1, <1>2, <1>3, <1>4, <1>5, <1>6, <1>7, <1>8, <1>9, <1>10, <1>11 DEF Next

-----------------------------------------------------------------------------
\* Only Spawn, Release, Done, LoopExit, Start and Crash move the counters.
LEMMA PoolStep == IInv /\ [Next]_vars => PoolInv'
  <1> SUFFICES ASSUME IInv, [Next]_vars PROVE PoolInv'
    OBVIOUS
  <1> USE DEF IInv
  <1> DEFINE Quiet == UNCHANGED <<pc, sem, wg, loop>>
  <1>0. ASSUME UNCHANGED <<pc, sem, wg>>, LoopAlive' = LoopAlive, Up' = Up,
               stop' = stop, stop = "returned" => loop' = "exited"
        PROVE  PoolInv'
    BY <1>0 DEF PoolInv, SlotsCounted, WaitGroupCounted, StopOrder, StopQuiesces,
                Holding, Live
  <1>1. CASE Start
    <2>1. Live' = Live /\ Holding' = Holding /\ stop = "no"
      BY <1>1 DEF Start, ctlVars, Live, Holding, PoolInv, StopOrder, Up
    <2> QED
      BY <1>1, <2>1, WorkerSetsFinite
         DEF Start, PoolInv, SlotsCounted, WaitGroupCounted, StopOrder, StopQuiesces,
             LoopAlive, Up, ctlVars
  <1>2. CASE LoopStep
    <2>1. CASE \/ Tick \/ getNextQueuedCommand \/ NoSlot \/ getDueScheduledTasks
               \/ updateTaskNextRun \/ \E t \in Tasks : QueueScheduled(t)
      <3>1. UNCHANGED <<pc, sem, wg, stop>> /\ LoopAlive /\ LoopAlive' /\ Up /\ Up'
            /\ loop # "exited"
        BY <2>1 DEF Tick, getNextQueuedCommand, NoSlot, getDueScheduledTasks,
                    updateTaskNextRun, QueueScheduled, workVars, ctlVars, LoopAlive, Up
      <3> QED  BY <1>0, <3>1 DEF PoolInv, StopOrder, StopQuiesces
    <2>2. CASE LoopExit
      <3>1. Live' = Live /\ Holding' = Holding
        BY <2>2 DEF LoopExit, Live, Holding
      <3> QED
        BY <2>2, <3>1, WorkerSetsFinite
           DEF LoopExit, PoolInv, SlotsCounted, WaitGroupCounted, StopOrder,
               StopQuiesces, LoopAlive, Up, ctlVars
    <2>3. ASSUME NEW w \in Worker, Spawn(w) PROVE PoolInv'
      <3>1. Live' = Live \cup {w} /\ Holding' = Holding \cup {w}
        BY <2>3 DEF Spawn, Live, Holding, TypeOK
      <3>2. w \notin Live /\ w \notin Holding
        BY <2>3 DEF Spawn, Live, Holding
      <3>3. /\ Cardinality(Live') = Cardinality(Live) + 1
            /\ Cardinality(Holding') = Cardinality(Holding) + 1
        BY <3>1, <3>2, WorkerSetsFinite, FS_AddElement
      <3> QED
        BY <2>3, <3>3, WorkerSetsFinite, ConstantsOK
           DEF Spawn, PoolInv, SlotsCounted, WaitGroupCounted, StopOrder,
               StopQuiesces, LoopAlive, Up, ctlVars
    <2> QED  BY <1>2, <2>1, <2>2, <2>3 DEF LoopStep
  <1>3. ASSUME NEW w \in Worker, WorkerStep(w) PROVE PoolInv'
    <2>1. CASE Track(w)
      BY <2>1, PoolUnchanged DEF Track, loopVars, ctlVars, WorkerPC
    <2>2. CASE MarkRunning(w)
      <3>1. \E p \in {"executing", "failing", "untracking"} : pc' = [pc EXCEPT ![w] = p]
        BY <2>2 DEF MarkRunning
      <3> QED
        BY <2>2, <3>1, PoolUnchanged DEF MarkRunning, loopVars, ctlVars, WorkerPC
    <2>3. CASE HandlerReturns(w)
      BY <2>3, PoolUnchanged DEF HandlerReturns, loopVars, ctlVars, WorkerPC
    <2>4. CASE RecordResult(w)
      BY <2>4, PoolUnchanged DEF RecordResult, loopVars, ctlVars, WorkerPC
    <2>5. CASE Untrack(w)
      BY <2>5, PoolUnchanged DEF Untrack, loopVars, ctlVars, WorkerPC
    <2>6. CASE Release(w)
      <3>1. Live' = Live /\ Holding' = Holding \ {w} /\ w \in Holding /\ w \in Live
        BY <2>6 DEF Release, Live, Holding, TypeOK
      <3>2. Cardinality(Holding') = Cardinality(Holding) - 1
        BY <3>1, WorkerSetsFinite, FS_RemoveElement
      <3> QED
        BY <2>6, <3>1, <3>2, WorkerSetsFinite, ConstantsOK
           DEF Release, PoolInv, SlotsCounted, WaitGroupCounted, StopOrder,
               StopQuiesces, LoopAlive, Up, loopVars, ctlVars
    <2>7. CASE Done(w)
      <3>1. Holding' = Holding /\ Live' = Live \ {w} /\ w \in Live
        BY <2>7 DEF Done, Live, Holding, TypeOK
      <3>2. Cardinality(Live') = Cardinality(Live) - 1
        BY <3>1, WorkerSetsFinite, FS_RemoveElement
      <3> QED
        BY <2>7, <3>1, <3>2, WorkerSetsFinite
           DEF Done, PoolInv, SlotsCounted, WaitGroupCounted, StopOrder,
               StopQuiesces, LoopAlive, Up, loopVars, ctlVars
    <2> QED
      BY <1>3, <2>1, <2>2, <2>3, <2>4, <2>5, <2>6, <2>7 DEF WorkerStep
  <1>4. CASE \/ \E n \in Names : QueueCommand(n)
             \/ \E t \in Tasks : TaskFallsDue(t)
             \/ \E c \in CommandId : CancelContext(c)
             \/ CancelRow
             \/ UNCHANGED vars
    <2>1. UNCHANGED <<pc, sem, wg, stop, loop>>
      BY <1>4 DEF QueueCommand, TaskFallsDue, CancelContext, CancelRow, vars,
                  loopVars, workVars, ctlVars
    <2> QED  BY <1>0, <2>1 DEF LoopAlive, Up, PoolInv, StopOrder, StopQuiesces
  <1>5. CASE StopClose \/ StopStep
    <2>1. UNCHANGED <<pc, sem, wg, loop>> /\ Up
      BY <1>5 DEF StopClose, StopStep, StopSweep, StopWait, loopVars, workVars,
                  PoolInv, StopOrder, LoopAlive, Up
    <2>2. stop' = "returned" => loop = "exited" /\ Live = {}
      <3>1. ASSUME StopWait PROVE ~LoopAlive /\ Live = {}
        <4>1. wg = 0
          BY <3>1 DEF StopWait
        <4>2. Cardinality(Live) = 0 /\ ~LoopAlive
          BY <4>1, WorkerSetsFinite DEF PoolInv, WaitGroupCounted
        <4> QED  BY <4>2, WorkerSetsFinite, FS_EmptySet
      <3> QED
        BY <1>5, <2>1, <3>1 DEF StopClose, StopStep, StopSweep, StopWait, LoopAlive, Up
    <2>3. Live' = Live /\ Holding' = Holding /\ LoopAlive' = LoopAlive /\ Up'
      BY <2>1 DEF Live, Holding, LoopAlive, Up
    <2> QED
      BY <2>1, <2>2, <2>3 DEF PoolInv, SlotsCounted, WaitGroupCounted, StopOrder,
                              StopQuiesces
  <1>6. CASE Crash
    <2>1. Live' = {} /\ Holding' = {}
      BY <1>6 DEF Crash, Live, Holding
    <2> QED
      BY <1>6, <2>1, FS_EmptySet, ConstantsOK
         DEF Crash, PoolInv, SlotsCounted, WaitGroupCounted, StopOrder, StopQuiesces,
             LoopAlive
  <1> QED
    BY <1>1, <1>2, <1>3, <1>4, <1>5, <1>6 DEF Next

LEMMA InitIInv == Init => IInv
  <1> SUFFICES ASSUME Init PROVE IInv
    OBVIOUS
  <1>1. TypeOK
    BY ConstantsOK DEF Init, TypeOK, LoopPC, WorkerPC
  <1>2. Live = {} /\ Holding = {}
    BY DEF Init, Live, Holding
  <1>3. PoolInv
    BY <1>2, FS_EmptySet, ConstantsOK
       DEF Init, PoolInv, SlotsCounted, WaitGroupCounted, StopOrder, StopQuiesces,
           LoopAlive
  <1> QED  BY <1>1, <1>3 DEF IInv

\* The counters the code keeps agree with the goroutines at every moment.
THEOREM PoolInvariant == Spec => []IInv
  BY InitIInv, TypeStep, PoolStep, PTL DEF Spec, IInv

\* Every variable keeps its type: sem and wg never go negative, in particular
\* (a WaitGroup that does panics).
THEOREM TypeCorrect == Spec => []TypeOK
  BY PoolInvariant, PTL DEF IInv

\* New's promise for workerSem, "limit concurrent workers": never more than
\* MaxConcurrent handlers run.
THEOREM ExecutionBounded == Spec => []BoundedExecution
  <1>1. IInv => BoundedExecution
    <2> SUFFICES ASSUME IInv PROVE BoundedExecution
      OBVIOUS
    <2>1. Executing \subseteq Holding
      BY DEF Executing, Holding
    <2>2. Cardinality(Executing) <= Cardinality(Holding)
      BY <2>1, WorkerSetsFinite, FS_Subset
    <2> QED
      BY <2>2, WorkerSetsFinite, ConstantsOK
         DEF BoundedExecution, IInv, PoolInv, SlotsCounted
  <1> QED  BY <1>1, PoolInvariant, PTL

\* Stop, "Wait for all workers to finish": when it returns nothing is left.
THEOREM StopIsGraceful == Spec => []StopQuiesces
  <1>1. IInv => StopQuiesces
    BY DEF IInv, PoolInv, StopOrder
  <1> QED  BY <1>1, PoolInvariant, PTL

-----------------------------------------------------------------------------
\* The phases of the pool, as the steps below need them.
LEMMA PhaseIs ==
    /\ (loop = "off" => Phase = "down")
    /\ (Up /\ stop = "no" => Phase = "open")
    /\ (Up /\ stop = "returned" => Phase = "closed")
    /\ (Up /\ stop \notin {"no", "returned"} => Phase = "closing")
  BY DEF Phase, Up

\* Every step of the scheduler is a step of the pool or none.
LEMMA PoolRefined == IInv /\ [Next]_vars => [Pool!Next]_(Pool!poolVars)
  <1> SUFFICES ASSUME IInv, [Next]_vars
               PROVE  Pool!Next \/ UNCHANGED <<Holding, Live, Phase>>
    BY DEF Pool!poolVars
  <1>0. ASSUME UNCHANGED <<pc, stop>>, Up' = Up PROVE UNCHANGED <<Holding, Live, Phase>>
    BY <1>0 DEF Holding, Live, Phase, Up
  <1>1. CASE Start
    <2>1. loop = "off" /\ Up' /\ stop = "no" /\ stop' = stop
      BY <1>1 DEF Start, ctlVars, IInv, PoolInv, StopOrder, Up
    <2>2. Phase = "down" /\ Phase' = "open" /\ UNCHANGED <<Holding, Live>>
      BY <1>1, <2>1, PhaseIs DEF Start, Phase, Up, Holding, Live
    <2> QED  BY <2>2 DEF Pool!Next, Pool!Open
  <1>2. CASE LoopStep
    <2>1. CASE \/ Tick \/ LoopExit \/ getNextQueuedCommand \/ NoSlot
               \/ getDueScheduledTasks \/ updateTaskNextRun
               \/ \E t \in Tasks : QueueScheduled(t)
      BY <1>0, <2>1 DEF Tick, LoopExit, getNextQueuedCommand, NoSlot, getDueScheduledTasks,
                        updateTaskNextRun, QueueScheduled, workVars, ctlVars, Up
    <2>2. ASSUME NEW w \in Worker, Spawn(w) PROVE Pool!Next
      <3>1. Up /\ Up' /\ stop # "returned" /\ stop' = stop
        BY <2>2 DEF Spawn, Up, ctlVars, IInv, PoolInv, StopOrder, StopQuiesces
      <3>2. Phase \in {"open", "closing"} /\ Phase' = Phase
        BY <3>1 DEF Phase, Up
      <3>3. w \notin Live /\ Holding' = Holding \cup {w} /\ Live' = Live \cup {w}
        BY <2>2 DEF Spawn, Live, Holding, IInv, TypeOK
      <3>4. Cardinality(Holding) < MaxConcurrent
        BY <2>2 DEF Spawn, IInv, PoolInv, SlotsCounted
      <3>5. Pool!Take(w)
        BY <3>2, <3>3, <3>4 DEF Pool!Take, Pool!Cardinality, Cardinality
      <3> QED  BY <3>5 DEF Pool!Next
    <2> QED  BY <1>2, <2>1, <2>2 DEF LoopStep
  <1>3. ASSUME NEW w \in Worker, WorkerStep(w)
        PROVE  Pool!Next \/ UNCHANGED <<Holding, Live, Phase>>
    <2>0. Phase' = Phase
      BY <1>3 DEF WorkerStep, Track, MarkRunning, HandlerReturns, RecordResult, Untrack,
                  Release, Done, loopVars, ctlVars, Phase
    <2>1. CASE Track(w) \/ MarkRunning(w) \/ HandlerReturns(w) \/ RecordResult(w) \/ Untrack(w)
      <3>1. pc[w] \notin {"idle", "released"}
            /\ \E p \in WorkerPC \ {"idle", "released"} : pc' = [pc EXCEPT ![w] = p]
        BY <2>1 DEF Track, MarkRunning, HandlerReturns, RecordResult, Untrack, WorkerPC
      <3>2. UNCHANGED <<Holding, Live>>
        BY <3>1 DEF Holding, Live, IInv, TypeOK
      <3> QED  BY <2>0, <3>2
    <2>2. CASE Release(w)
      <3>1. w \in Holding /\ Holding' = Holding \ {w} /\ Live' = Live
        BY <2>2 DEF Release, Holding, Live, IInv, TypeOK
      <3>2. Pool!Give(w)
        BY <2>0, <3>1 DEF Pool!Give
      <3> QED  BY <3>2 DEF Pool!Next
    <2>3. CASE Done(w)
      <3>1. w \in Live \ Holding /\ Holding' = Holding /\ Live' = Live \ {w}
        BY <2>3 DEF Done, Holding, Live, IInv, TypeOK
      <3>2. Pool!End(w)
        BY <2>0, <3>1 DEF Pool!End
      <3> QED  BY <3>2 DEF Pool!Next
    <2> QED  BY <1>3, <2>1, <2>2, <2>3 DEF WorkerStep
  <1>4. CASE \/ \E n \in Names : QueueCommand(n)
             \/ \E t \in Tasks : TaskFallsDue(t)
             \/ \E c \in CommandId : CancelContext(c)
             \/ CancelRow
             \/ UNCHANGED vars
    BY <1>0, <1>4 DEF QueueCommand, TaskFallsDue, CancelContext, CancelRow, vars,
                      loopVars, workVars, ctlVars, Up
  <1>5. CASE StopClose
    <2>1. Phase = "open" /\ Phase' = "closing"
      BY <1>5 DEF StopClose, LoopAlive, Phase, loopVars
    <2>2. UNCHANGED <<Holding, Live>>
      BY <1>5 DEF StopClose, workVars, Holding, Live
    <2> QED  BY <2>1, <2>2 DEF Pool!Next, Pool!Close
  <1>6. CASE StopSweep
    <2>1. UNCHANGED <<Holding, Live, Phase>>
      BY <1>6 DEF StopSweep, Holding, Live, Phase, loopVars
    <2> QED  BY <2>1
  <1>7. CASE StopWait
    <2>1. Up /\ UNCHANGED <<Holding, Live>>
      BY <1>7 DEF StopWait, workVars, Holding, Live, IInv, PoolInv, StopOrder
    <2>2. Phase = "closing" /\ Phase' = "closed"
      BY <1>7, <2>1 DEF StopWait, Phase, loopVars, Up
    <2>3. Live = {}
      BY <1>7, WorkerSetsFinite, FS_EmptySet
         DEF StopWait, IInv, PoolInv, WaitGroupCounted
    <2> QED  BY <2>1, <2>2, <2>3 DEF Pool!Next, Pool!Closed
  <1>8. CASE Crash
    <2>1. Phase # "down" /\ Phase' = "down"
      BY <1>8 DEF Crash, Up, Phase
    <2>2. Holding' = {} /\ Live' = {}
      BY <1>8 DEF Crash, Holding, Live
    <2> QED  BY <2>1, <2>2 DEF Pool!Next, Pool!Die
  <1> QED
    BY <1>1, <1>2, <1>3, <1>4, <1>5, <1>6, <1>7, <1>8 DEF Next, StopStep

\* The queue, the semaphore and the WaitGroup implement the pool that the
\* callers of Start and Stop see, for any number of goroutines and slots.
THEOREM SchedulerIsAPool == Spec => ImplementsPool
  <1>1. Init => Pool!Init
    BY DEF Init, Pool!Init, Holding, Live, Phase
  <1>2. Spec => []IInv
    BY PoolInvariant
  <1> QED  BY <1>1, <1>2, PoolRefined, PTL DEF Spec, ImplementsPool, Pool!Spec

-----------------------------------------------------------------------------
\* The goroutines that will still write the row of the command they hold.
Writing(w) == pc[w] \in {"executing", "completing", "failing"}

LEMMA RunningStep == TypeOK /\ RunningHasWorker /\ [Next]_vars => RunningHasWorker'
  <1> SUFFICES ASSUME TypeOK, RunningHasWorker, [Next]_vars, Up', faults' = 0,
                      NEW c \in CommandId, status'[c] = "running"
               PROVE  \E w \in Worker : cmd'[w] = c /\ Writing(w)'
    BY DEF RunningHasWorker, Writing
  <1> USE DEF TypeOK, Writing
  <1>0. faults = 0
    BY DEF Next, LoopStep, WorkerStep, StopStep, Start, Tick, LoopExit,
           getNextQueuedCommand, NoSlot, Spawn, getDueScheduledTasks,
           updateTaskNextRun, QueueScheduled, Track, MarkRunning, HandlerReturns,
           RecordResult, Untrack, Release, Done, QueueCommand, TaskFallsDue,
           CancelContext, CancelRow, StopClose, StopSweep, StopWait, Crash,
           StatementFails, history, vars
  \* The row was running before: its goroutine is still there.
  <1>1. ASSUME Up, status[c] = "running", pc' = pc, cmd' = cmd
        PROVE  \E w \in Worker : cmd'[w] = c /\ Writing(w)'
    BY <1>0, <1>1 DEF RunningHasWorker
  <1>2. ASSUME Up, status[c] = "running", NEW v \in Worker, ~Writing(v),
               NEW q, pc' = [pc EXCEPT ![v] = q], \A w \in Worker \ {v} : cmd'[w] = cmd[w]
        PROVE  \E w \in Worker : cmd'[w] = c /\ Writing(w)'
    BY <1>0, <1>2 DEF RunningHasWorker
  <1>3. CASE Start
    BY <1>0, <1>3 DEF Start, recoverOrphanedCommands, StatementFails
  <1>4. CASE LoopStep
    <2>1. CASE Tick \/ LoopExit \/ getNextQueuedCommand \/ NoSlot \/ getDueScheduledTasks
               \/ updateTaskNextRun
      <3>1. Up /\ UNCHANGED <<pc, cmd, status>>
        BY <2>1 DEF Tick, LoopExit, getNextQueuedCommand, NoSlot, getDueScheduledTasks,
                    updateTaskNextRun, Up, dbVars, workVars
      <3> QED  BY <1>1, <3>1
    <2>2. ASSUME NEW t \in Tasks, QueueScheduled(t)
          PROVE  Up /\ UNCHANGED <<pc, cmd>> /\ status[c] = "running"
      <3>1. Up /\ UNCHANGED <<pc, cmd>>
        BY <2>2 DEF QueueScheduled, Up, workVars
      <3>2. CASE Insert(t, "scheduled")
        BY <3>1, <3>2 DEF Insert
      <3>3. CASE UNCHANGED status
        BY <3>1, <3>3
      <3> QED  BY <2>2, <3>2, <3>3 DEF QueueScheduled
    <2>3. ASSUME NEW v \in Worker, Spawn(v)
          PROVE  \E w \in Worker : cmd'[w] = c /\ Writing(w)'
      <3>1. Up /\ status[c] = "running" /\ ~Writing(v)
        BY <2>3 DEF Spawn, Up, dbVars
      <3>2. pc' = [pc EXCEPT ![v] = "spawned"] /\ \A w \in Worker \ {v} : cmd'[w] = cmd[w]
        BY <2>3 DEF Spawn
      <3> QED  BY <1>2, <3>1, <3>2
    <2> QED  BY <1>1, <1>4, <2>1, <2>2, <2>3 DEF LoopStep
  <1>5. ASSUME NEW v \in Worker, WorkerStep(v)
        PROVE  \E w \in Worker : cmd'[w] = c /\ Writing(w)'
    <2>0. Up
      BY <1>5 DEF WorkerStep, Track, MarkRunning, HandlerReturns, RecordResult, Untrack,
                  Release, Done, Up, loopVars
    <2>1. CASE Track(v) \/ Untrack(v) \/ Release(v) \/ Done(v)
      <3>1. status[c] = "running" /\ ~Writing(v)
        BY <2>1 DEF Track, Untrack, Release, Done, dbVars
      <3>2. /\ \E q \in WorkerPC : pc' = [pc EXCEPT ![v] = q]
            /\ \A w \in Worker \ {v} : cmd'[w] = cmd[w]
        BY <2>1 DEF Track, Untrack, Release, Done, WorkerPC
      <3> QED  BY <1>2, <2>0, <3>1, <3>2
    <2>2. CASE MarkRunning(v)
      <3>1. /\ status' = [status EXCEPT ![cmd[v]] = IF @ = "absent" THEN @ ELSE "running"]
            /\ cmd' = cmd
            /\ pc'[v] \in {"executing", "failing"}
            /\ \A w \in Worker \ {v} : pc'[w] = pc[w]
        BY <1>0, <2>2 DEF MarkRunning, updateCommandStatus, StatementFails
      <3>2. CASE cmd[v] = c
        BY <3>1, <3>2
      <3>3. CASE cmd[v] # c
        <4>1. status[c] = "running" /\ ~Writing(v)
          BY <2>2, <3>1, <3>3 DEF MarkRunning
        <4> QED  BY <1>0, <2>0, <3>1, <4>1 DEF RunningHasWorker
      <3> QED  BY <3>2, <3>3
    <2>3. CASE HandlerReturns(v)
      <3>1. /\ status' = status /\ cmd' = cmd
            /\ \A w \in Worker : Writing(w) => Writing(w)'
        BY <2>3 DEF HandlerReturns, dbVars
      <3> QED  BY <1>0, <2>0, <3>1 DEF RunningHasWorker
    <2>4. CASE RecordResult(v)
      <3>1. /\ \E s \in {"completed", "failed"} :
                  status' = [status EXCEPT ![cmd[v]] = IF @ = "absent" THEN @ ELSE s]
            /\ cmd' = cmd
            /\ \A w \in Worker \ {v} : pc'[w] = pc[w]
        BY <1>0, <2>4 DEF RecordResult, updateCommandStatus, StatementFails
      <3>2. cmd[v] # c /\ status[c] = "running"
        BY <3>1
      <3> QED  BY <1>0, <2>0, <3>1, <3>2 DEF RunningHasWorker
    <2> QED  BY <1>5, <2>1, <2>2, <2>3, <2>4 DEF WorkerStep
  <1>6. ASSUME NEW n \in Names, QueueCommand(n)
        PROVE  Up /\ UNCHANGED <<pc, cmd>> /\ status[c] = "running"
    BY <1>6 DEF QueueCommand, Insert, workVars
  <1>7. CASE CancelRow
    <2>1. status[c] = "running" /\ UNCHANGED <<pc, cmd>> /\ Up
      BY <1>7 DEF CancelRow, updateCommandStatus, workVars, loopVars, Up
    <2> QED  BY <1>1, <2>1
  <1>8. CASE \/ \E t \in Tasks : TaskFallsDue(t)
             \/ \E d \in CommandId : CancelContext(d)
             \/ StopClose \/ StopStep \/ UNCHANGED vars
    <2>1. UNCHANGED <<pc, cmd, status>> /\ Up
      BY <1>8 DEF TaskFallsDue, CancelContext, StopClose, StopStep, StopSweep, StopWait,
                  vars, dbVars, workVars, loopVars, Up
    <2> QED  BY <1>1, <2>1
  <1>9. CASE Crash
    BY <1>9 DEF Crash, Up
  <1> QED
    BY <1>1, <1>3, <1>4, <1>5, <1>6, <1>7, <1>8, <1>9 DEF Next

\* After recoverOrphanedCommands no row is left "running" with nobody to move
\* it on, whatever crashed and however copies of a command interleave.
THEOREM RunningIsAttended == Spec => []RunningHasWorker
  <1>1. Init => RunningHasWorker
    BY DEF Init, RunningHasWorker, Up
  <1>2. TypeOK /\ RunningHasWorker /\ [Next]_vars => RunningHasWorker'
    BY RunningStep
  <1> QED  BY <1>1, <1>2, TypeCorrect, PTL DEF Spec

-----------------------------------------------------------------------------
\* Due times. A task is still owed a row while it is due, except between its
\* INSERT and the UPDATE of next_run_at.
Owed(t) == IF t \in due /\ ~(loop = "reschedule" /\ task = t) THEN 1 ELSE 0
RowCount(t) == Cardinality(RowsOf(t))

DueCounted ==
    \A t \in Tasks : /\ dueCount[t] <= RowCount(t) + Owed(t)
                     /\ RowCount(t) + Owed(t) <= dueCount[t] + crashes + faults

\* What the loop has read and not yet handled is still due.
BatchDue == batch \subseteq due /\ (loop = "reschedule" => task \in due \ batch)

\* Rows to come count for nobody.
FreshRows == \A c \in CommandId : c > inserted => origin[c] = "manual"

DueInv == DueCounted /\ BatchDue /\ FreshRows

LEMMA RowCountNat == \A t \in Tasks : IsFiniteSet(RowsOf(t)) /\ RowCount(t) \in Nat
  <1>1. IsFiniteSet(CommandId)
    BY ConstantsOK, FS_Interval DEF CommandId
  <1> QED
    BY <1>1, FS_Subset, FS_CardinalityType DEF RowsOf, RowCount

\* A scheduled INSERT adds one row of its task, a manual one adds none.
LEMMA InsertCounts ==
    ASSUME TypeOK, FreshRows, NEW n \in Names, NEW o \in {"manual", "scheduled"},
           Insert(n, o), NEW t \in Tasks
    PROVE  RowCount(t)' = RowCount(t) + (IF n = t /\ o = "scheduled" THEN 1 ELSE 0)
  <1>1. inserted' \in CommandId /\ inserted' > inserted
    BY ConstantsOK DEF Insert, TypeOK, CommandId
  <1>2. inserted' \notin RowsOf(t)
    BY <1>1 DEF FreshRows, RowsOf
  <1>3. CASE n = t /\ o = "scheduled"
    <2>1. RowsOf(t)' = RowsOf(t) \cup {inserted'}
      BY <1>1, <1>3 DEF Insert, TypeOK, RowsOf
    <2> QED
      BY <1>2, <1>3, <2>1, RowCountNat, FS_AddElement DEF RowCount
  <1>4. CASE ~(n = t /\ o = "scheduled")
    <2>1. RowsOf(t)' = RowsOf(t)
      BY <1>1, <1>2, <1>4 DEF Insert, TypeOK, RowsOf
    <2> QED
      BY <1>4, <2>1, RowCountNat DEF RowCount
  <1> QED  BY <1>3, <1>4

LEMMA InsertFresh ==
    ASSUME TypeOK, FreshRows, NEW n, NEW o, Insert(n, o)
    PROVE  FreshRows'
  BY ConstantsOK DEF TypeOK, FreshRows, Insert, CommandId

\* A step that inserts nothing and leaves what is owed alone.
LEMMA DueUnchanged ==
    ASSUME TypeOK, TypeOK', DueInv,
           UNCHANGED <<name, origin, inserted, due, batch, task, dueCount>>,
           loop' = "reschedule" <=> loop = "reschedule",
           crashes' + faults' >= crashes + faults
    PROVE  DueInv'
  <1>1. \A t \in Tasks : RowCount(t)' = RowCount(t) /\ Owed(t)' = Owed(t)
    BY DEF RowCount, RowsOf, Owed
  <1>2. DueCounted'
    BY <1>1, RowCountNat DEF DueInv, DueCounted, TypeOK, Owed
  <1> QED
    BY <1>2 DEF DueInv, BatchDue, FreshRows

LEMMA DueStep == TypeOK /\ TypeOK' /\ DueInv /\ [Next]_vars => DueInv'
  <1> SUFFICES ASSUME TypeOK, TypeOK', DueInv, [Next]_vars PROVE DueInv'
    OBVIOUS
  <1>0. /\ {crashes, faults} \subseteq Nat /\ {crashes', faults'} \subseteq Nat
        /\ \A t \in Tasks : dueCount[t] \in Nat /\ RowCount(t) \in Nat
      BY RowCountNat DEF TypeOK
  <1>1. CASE Start
    BY <1>0, <1>1, DueUnchanged DEF Start, StatementFails, history
  <1>2. CASE LoopStep
    <2>1. CASE Tick \/ LoopExit \/ NoSlot \/ \E w \in Worker : Spawn(w)
      BY <1>0, <2>1, DueUnchanged
         DEF Tick, LoopExit, NoSlot, Spawn, dbVars, history
    <2>2. CASE getNextQueuedCommand
      BY <1>0, <2>2, DueUnchanged
         DEF getNextQueuedCommand, StatementFails, dbVars, history
    <2>3. CASE getDueScheduledTasks
      <3>1. \A t \in Tasks : RowCount(t)' = RowCount(t) /\ Owed(t)' = Owed(t)
        BY <2>3 DEF getDueScheduledTasks, RowCount, RowsOf, Owed, dbVars
      <3>2. crashes' + faults' >= crashes + faults /\ dueCount' = dueCount
        BY <1>0, <2>3 DEF getDueScheduledTasks, StatementFails, history
      <3>3. DueCounted'
        BY <1>0, <3>1, <3>2 DEF DueInv, DueCounted, Owed
      <3>4. BatchDue' /\ FreshRows'
        BY <2>3 DEF getDueScheduledTasks, DueInv, BatchDue, FreshRows, dbVars
      <3> QED  BY <3>3, <3>4 DEF DueInv
    <2>4. ASSUME NEW u \in Tasks, QueueScheduled(u) PROVE DueInv'
      <3>1. CASE Insert(u, "scheduled") /\ task' = u /\ loop' = "reschedule"
                 /\ UNCHANGED history
        <4>1. u \in Names /\ u \in due /\ due' = due /\ loop = "tasks"
          BY <2>4, ConstantsOK DEF QueueScheduled, DueInv, BatchDue
        <4>2. \A t \in Tasks : RowCount(t)' + Owed(t)' = RowCount(t) + Owed(t)
          BY <1>0, <3>1, <4>1, InsertCounts DEF DueInv, Owed
        <4>3. DueCounted'
          BY <3>1, <4>2 DEF DueInv, DueCounted, history
        <4>4. BatchDue'
          BY <2>4, <3>1, <4>1 DEF QueueScheduled, DueInv, BatchDue
        <4> QED
          BY <3>1, <4>1, <4>3, <4>4, InsertFresh DEF DueInv
      <3>2. CASE UNCHANGED <<status, name, origin, inserted, task>> /\ StatementFails
                 /\ loop' \in {"select", "tasks"}
        <4>1. \A t \in Tasks : RowCount(t)' = RowCount(t) /\ Owed(t)' = Owed(t)
          BY <2>4, <3>2 DEF QueueScheduled, RowCount, RowsOf, Owed
        <4>2. DueCounted'
          BY <1>0, <3>2, <4>1 DEF DueInv, DueCounted, Owed, StatementFails
        <4>3. BatchDue' /\ FreshRows'
          BY <2>4, <3>2 DEF QueueScheduled, DueInv, BatchDue, FreshRows
        <4> QED  BY <4>2, <4>3 DEF DueInv
      <3> QED
        BY <2>4, <3>1, <3>2 DEF QueueScheduled
    <2>5. CASE updateTaskNextRun
      <3>1. \A t \in Tasks : RowCount(t)' = RowCount(t)
        BY <2>5 DEF updateTaskNextRun, RowCount, RowsOf
      <3>2. BatchDue' /\ FreshRows'
        BY <2>5 DEF updateTaskNextRun, DueInv, BatchDue, FreshRows
      <3>3. CASE due' = due \ {task} /\ UNCHANGED history
        <4>1. \A t \in Tasks : Owed(t)' = Owed(t)
          BY <2>5, <3>3 DEF updateTaskNextRun, Owed
        <4> QED
          BY <3>1, <3>2, <3>3, <4>1 DEF DueInv, DueCounted, history
      <3>4. CASE UNCHANGED due /\ StatementFails
        <4>1. \A t \in Tasks : Owed(t)' \in {Owed(t), Owed(t) + 1}
          BY <2>5, <3>4 DEF updateTaskNextRun, Owed
        <4>2. DueCounted'
          BY <1>0, <3>1, <3>4, <4>1 DEF DueInv, DueCounted, Owed, StatementFails
        <4> QED  BY <3>2, <4>2 DEF DueInv
      <3> QED  BY <2>5, <3>3, <3>4 DEF updateTaskNextRun
    <2> QED
      BY <1>2, <2>1, <2>2, <2>3, <2>4, <2>5 DEF LoopStep
  <1>3. ASSUME NEW w \in Worker, WorkerStep(w) PROVE DueInv'
    BY <1>0, <1>3, DueUnchanged
       DEF WorkerStep, Track, MarkRunning, HandlerReturns, RecordResult, Untrack,
           Release, Done, StatementFails, dbVars, loopVars, history
  <1>4. ASSUME NEW n \in Names, QueueCommand(n) PROVE DueInv'
    <2>1. \A t \in Tasks : RowCount(t)' = RowCount(t) /\ Owed(t)' = Owed(t)
      BY <1>0, <1>4, InsertCounts DEF QueueCommand, DueInv, Owed, loopVars
    <2>2. DueCounted'
      BY <1>4, <2>1 DEF QueueCommand, DueInv, DueCounted
    <2> QED
      BY <1>4, <2>2, InsertFresh DEF QueueCommand, DueInv, BatchDue, loopVars
  <1>5. ASSUME NEW u \in Tasks, TaskFallsDue(u) PROVE DueInv'
    <2>1. \A t \in Tasks : RowCount(t)' = RowCount(t)
      BY <1>5 DEF TaskFallsDue, RowCount, RowsOf
    <2>2. \A t \in Tasks : /\ Owed(t)' = IF t = u THEN 1 ELSE Owed(t)
                           /\ dueCount'[t] = IF t = u THEN dueCount[t] + 1
                                             ELSE dueCount[t]
      BY <1>5 DEF TaskFallsDue, TypeOK, DueInv, BatchDue, Owed, loopVars
    <2>3. Owed(u) = 0
      BY <1>5 DEF TaskFallsDue, Owed
    <2>4. DueCounted'
      BY <1>0, <1>5, <2>1, <2>2, <2>3 DEF TaskFallsDue, DueInv, DueCounted, Owed
    <2> QED
      BY <1>5, <2>4 DEF TaskFallsDue, DueInv, BatchDue, FreshRows, loopVars
  <1>6. ASSUME NEW c \in CommandId, CancelContext(c) PROVE DueInv'
    BY <1>0, <1>6, DueUnchanged DEF CancelContext, dbVars, loopVars
  <1>7. CASE CancelRow
    BY <1>0, <1>7, DueUnchanged DEF CancelRow, StatementFails, loopVars, history
  <1>8. CASE StopClose \/ StopStep
    BY <1>0, <1>8, DueUnchanged
       DEF StopClose, StopStep, StopSweep, StopWait, dbVars, loopVars, history
  <1>9. CASE Crash
    <2>1. \A t \in Tasks : /\ RowCount(t)' = RowCount(t)
                           /\ Owed(t)' \in {Owed(t), Owed(t) + 1}
      BY <1>9 DEF Crash, RowCount, RowsOf, Owed, dbVars
    <2>2. DueCounted'
      BY <1>0, <1>9, <2>1 DEF Crash, DueInv, DueCounted, Owed
    <2> QED
      BY <1>9, <2>2 DEF Crash, DueInv, BatchDue, FreshRows, dbVars
  <1>10. CASE UNCHANGED vars
    BY <1>0, <1>10, DueUnchanged DEF vars, dbVars, loopVars, history
  <1> QED
    BY <1>1, <1>2, <1>3, <1>4, <1>5, <1>6, <1>7, <1>8, <1>9, <1>10 DEF Next

LEMMA InitDue == Init => DueInv
  <1> SUFFICES ASSUME Init PROVE DueInv
    OBVIOUS
  <1>1. \A t \in Tasks : RowsOf(t) = {} /\ Owed(t) = 0 /\ dueCount[t] = 0
    BY DEF Init, RowsOf, Owed
  <1> QED
    BY <1>1, FS_EmptySet DEF Init, DueInv, DueCounted, BatchDue, FreshRows, RowCount

\* Rows and due times agree at every moment, up to one row for each crash or
\* failed statement.
THEOREM DueTimesCounted == Spec => []DueInv
  BY InitDue, DueStep, TypeCorrect, PTL DEF Spec

\* checkScheduledTasks queues a task no more often than it falls due, except
\* once for each crash or failed statement.
THEOREM TasksAreNotRepeated == Spec => []NoSpuriousTaskRun
  <1>1. TypeOK /\ DueInv => NoSpuriousTaskRun
    BY RowCountNat DEF TypeOK, DueInv, DueCounted, Owed, RowCount, NoSpuriousTaskRun
  <1> QED  BY <1>1, DueTimesCounted, TypeCorrect, PTL

\* No due time is lost, whichever statement fails and whenever the process dies.
THEOREM TasksAreNotLost == Spec => []NoLostTaskRun
  <1>1. TypeOK /\ DueInv => NoLostTaskRun
    BY RowCountNat DEF TypeOK, DueInv, DueCounted, Owed, RowCount, NoLostTaskRun
  <1> QED  BY <1>1, DueTimesCounted, TypeCorrect, PTL
=============================================================================
