SPECIFICATION FairSpec
CONSTANTS
    w1 = w1
    w2 = w2
    w3 = w3
    Names <- MCNames
    Handled <- MCHandled
    Tasks <- MCTasks
    Worker <- MCWorkers2
    MaxConcurrent = 1
    MaxCommands = 2
    MaxManual = 0
    MaxDue = 1
    MaxCancels = 1
    MaxStops = 1
    MaxCrashes = 1
    MaxFaults = 0
INVARIANT StopQuiesces
PROPERTIES ImplementsPool EveryCommandEnds DueTaskQueued StopReturns
CHECK_DEADLOCK FALSE
