SPECIFICATION HistorySpec
CONSTANTS
    k1 = k1
    u1 = u1
    Tokens = {k1}
    Users = {u1}
    UserOf <- OneToken
    Requests = {r1, r2}
    Rows = {x1, x2}
    Values = {v1, v2}
    Platforms = {p1}
    Lifetime = 1
    TicksPerSecond = 2
    MaxTime = 4
    None = None
SYMMETRY Interchangeable
INVARIANTS
    LogoutHolds
    PreferencesAreFound
    LastFormsKept
