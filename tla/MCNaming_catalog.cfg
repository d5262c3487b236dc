SPECIFICATION Spec
CONSTANTS
    p1 = p1
    p2 = p2
    Proc = {p1, p2}
    AuthorId = {1, 2, 3}
    BookId = {1, 2, 3}
    Name = {"ann", "bob"}
    Title = {"t", "u"}
    ForeignId = {"f"}
    Shelf <- TwoBooks
    FolderFormat = {"$Author", "books"}
    FileFormat = {"$Title", "$Author - $Title"}
    Defaults <- AuthorTitle
    MaxRequests = 3
    MaxFaults = 1
INVARIANTS
    NoTwins
    RowsPointToFiles
    RenameKeepsContents
    SettingsOfOneRequest
SYMMETRY ProcSymmetry
CHECK_DEADLOCK FALSE
