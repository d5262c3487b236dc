SPECIFICATION FairSpec
CONSTANTS
    m1 = m1
    m2 = m2
    Item <- OneItem
    Book <- OneBook
    BookOf <- SameBook
    Download <- Downloads4
    Monitor = {m1}
    Indexer = {}
    InPlace = {1}
    Guessed = {1}
    Misfiled = {}
    UI = FALSE
    MaxCrashes = 1
    MaxCopyFaults = 1
    MaxRetries = 1
    MaxRemovals = 1
    MaxReports = 0
    MaxHasty = 1
 
PROPERTIES DownloadsSettle CompletedIsImported
