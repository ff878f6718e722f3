SPECIFICATION HistorySpec
CONSTANTS
    a = a
    b = b
    Names = {a, b}
    Lists <- FourLists
    Users = {u1, u2}
    Workspaces = {w1, w2}
    Categories = {c1, c2, c3}
    Interviews = {i1, i2}
    Requests = {r1, r2}
    None = None
CHECK_DEADLOCK FALSE
SYMMETRY Interchangeable
INVARIANTS
    ScoresInWorkspace
    LastReplaceKept
    WorkspaceIsFound
    CategoryIsFound
    ReplacesAll
    DeadlocksHitUpdates
PROPERTY
    CancelledStays
