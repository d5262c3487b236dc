----------------------------- MODULE MCScheduler -----------------------------
\* Small instances of Scheduler for TLC.
EXTENDS Scheduler, TLC

CONSTANTS w1, w2, w3

MCNames   == {"DownloadMonitor", "LibraryScan"}
MCHandled == {"DownloadMonitor"}
MCTasks   == {"DownloadMonitor"}
MCWorkers2 == {w1, w2}
MCWorkers3 == {w1, w2, w3}

\* Goroutines are interchangeable; used with safety properties only.
WorkerSymmetry == Permutations(Worker)
=============================================================================
