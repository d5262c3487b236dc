SPECIFICATION Spec
CONSTANTS
    p1 = p1
    p2 = p2
    Proc = {p1, p2}
    IndexerId = {1, 2}
    Answers <- SmallAnswers
    Library = {11}
    MetaProviders = 2
    Key = {"k"}
    MaxRequests = 2
    MaxChanges = 2
    MaxRestarts = 1
    MaxFaults = 1
INVARIANTS
    ClientsFollowRows
    NothingHidden
    SavedIsOneSearch
SYMMETRY ProcSymmetry
CHECK_DEADLOCK FALSE
