SPECIFICATION Spec
CONSTANTS
    w1 = w1
    w2 = w2
    w3 = w3
    Names <- MCNames
    Handled <- MCHandled
    Tasks <- MCTasks
    Worker <- MCWorkers3
    MaxConcurrent = 2
    MaxCommands = 4
    MaxManual = 1
    MaxDue = 1
    MaxCancels = 0
    MaxStops = 0
    MaxCrashes = 1
    MaxFaults = 1
SYMMETRY WorkerSymmetry
INVARIANTS TypeOK BoundedExecution RunningHasWorker NoSpuriousTaskRun NoLostTaskRun
