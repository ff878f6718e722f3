SPECIFICATION HistorySpec
CONSTANTS
    Grants = {g1, g2, g3, g4}
    Requests = {r1, r2}
    States = {s1}
    None = None
SYMMETRY Interchangeable
INVARIANTS
    RenewableUnlessLost
    RefusalIsTransient
    RefreshesStaleOrNew
    HidesSpentOrNew
