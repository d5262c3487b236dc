SPECIFICATION FairSpec
CONSTANTS
    p1 = p1
    p2 = p2
    c1 = c1
    c2 = c2
    None = None
    Cut = Cut
    Proc = {p1, p2}
    Conn = {c1, c2}
    Buffer = 1
    MaxTime = 1
    Budgets <- SomeBudgets
INVARIANTS HubSafe LoginsOutlive BackupsAreWhole OthersKept
PROPERTY LostClientsLeave
CHECK_DEADLOCK FALSE
