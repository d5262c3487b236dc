SPECIFICATION Spec
CONSTANTS
    p1 = p1
    p2 = p2
    r1 = r1
    r2 = r2
    Proc = {p1, p2}
    Release = {r1, r2}
    QueueLimit = 1
    HistoryLimit = 1
    Instance <- Instances
    MaxRotations = 1
    MaxCallFaults = 1
    ClientId = {1}
    RowType = {"transmission", "qbittorrent", "sabnzbd", "blackhole", "direct", "nzbget"}
    Root = {1}
    MaxRequests = 2
    MaxChanges = 2
SYMMETRY Alike
INVARIANTS OneClientPerRow LockOrder StaleOnlyByReaders ConflictExplained NoSlotLost
CHECK_DEADLOCK FALSE
