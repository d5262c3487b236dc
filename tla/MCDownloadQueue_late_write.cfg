SPECIFICATION FairSpec
CONSTANTS
    m1 = m1
    m2 = m2
    Item <- OneItem
    Book <- OneBook
    BookOf <- SameBook
    Download <- Downloads3
    Monitor = {m1}
    Indexer = {}
    InPlace = {}
    Guessed = {1}
    Misfiled = {}
    UI = TRUE
    MaxCrashes = 0
    MaxCopyFaults = 0
    MaxRetries = 0
    MaxRemovals = 0
    MaxReports = 0
    MaxHasty = 0
PROPERTY BookRegainsFile
