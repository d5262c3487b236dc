SPECIFICATION Spec
CONSTANTS
    m1 = m1
    m2 = m2
    Item <- TwoItems
    Book <- OneBook
    BookOf <- SameBook
    Download <- Downloads4
    Monitor = {m1}
    Indexer = {2}
    InPlace = {}
    Guessed = {1}
    Misfiled = {}
    UI = FALSE
    MaxCrashes = 1
    MaxCopyFaults = 1
    MaxRetries = 0
    MaxRemovals = 0
    MaxReports = 0
    MaxHasty = 0
INVARIANTS CompletedBookIsOnDisk OneDownloadPerItem
PROPERTY ImportsAreWhole
