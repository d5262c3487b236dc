SPECIFICATION FairSpec
CONSTANTS
    m1 = m1
    m2 = m2
    Item <- OneItem
    Book <- OneBook
    BookOf <- SameBook
    Download <- Downloads4
    Monitor = {m1}
    Indexer = {}
    InPlace = {}
    Guessed = {1}
    Misfiled = {}
    UI = TRUE
    MaxCrashes = 1
    MaxCopyFaults = 1
    MaxRetries = 0
    MaxRemovals = 1
    MaxReports = 1
    MaxHasty = 0
PROPERTY DownloadsSettle
