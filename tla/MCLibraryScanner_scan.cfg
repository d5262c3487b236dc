SPECIFICATION Spec
CONSTANTS
    s1 = s1
    s2 = s2
    Name <- Names
    Unknown = "unknown"
    NoName = ""
    Lower <- LowerCase
    Alike <- CaseApart
    Longer <- CaseApart
    Hidden = {".trash"}
    Dashed <- OneDashed
    Folder <- Folders
    Place <- AnnTwice
    Content <- TwoContents
    Cut = "cut"
    Absent = "absent"
    Size <- Sizes
    Meta <- Metas
    Roots <- OneRoot
    Library <- AllOnDisk
    Scan = {s1, s2}
    AuthorScans = FALSE
    MaxScans = 3
    MaxChanges = 1
SYMMETRY Symmetry
CHECK_DEADLOCK FALSE
INVARIANTS TypeOK UndisturbedScansMirror FiledUnderItsFolder
PROPERTY OnlyMissedFilesRemoved
