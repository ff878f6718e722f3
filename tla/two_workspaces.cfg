SPECIFICATION HistorySpec
CONSTANTS
    a = a
    b = b
    Names = {a, b}
    Lists <- Singles
    Users = {u1}
    Workspaces = {w1, w2}
    Categories = {c1, c2}
    Interviews = {i1, i2}
    Requests = {r1, r2}
    None = None
CHECK_DEADLOCK FALSE
INVARIANT OneWorkspaceEach
