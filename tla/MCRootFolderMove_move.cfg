SPECIFICATION MSpec
CONSTANTS
    s1 = s1
    s2 = s2
    m1 = m1
    Name <- Names
    Unknown = "unknown"
    NoName = ""
    Lower <- LowerCase
    Alike <- CaseApart
    Longer <- CaseApart
    Hidden = {}
    Dashed <- NoDashed
    Folder <- Folders
    Place <- TwoAuthors
    Content <- TwoContents
    Cut = "cut"
    Absent = "absent"
    Size <- Sizes
    Meta <- NoMetas
    Roots <- OneRoot
    Library <- InOldRoot
    Scan = {s1}
    AuthorScans = FALSE
    Mover = {m1}
    Target <- Targets
    Swap <- NoSwap
    MaxScans = 2
    MaxChanges = 0
    MaxMoves = 2
    MaxEdits = 1
    MaxFaults = 1
    MaxCrashes = 1
CHECK_DEADLOCK FALSE
INVARIANTS MoveLosesNothing RowsFollowFiles
