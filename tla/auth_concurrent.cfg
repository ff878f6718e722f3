SPECIFICATION BoundedSpec
CONSTANTS
    Users = {u1, u2}
    Tokens = {t1, t2, t3}
    ResetTokens = {p1, p2}
    Requests = {r1, r2}
    Passwords = {w1, w2}
    MaxExpired = 1
    None = None
SYMMETRY Interchangeable
INVARIANTS
    SessionTokenLive
    LiveTokenTracked
    FoundSessionStays
    RotatesOnce
    OneLinkWorks
    NoCircle
PROPERTIES
    ResetRevokesSnapshot
    ResetIsComplete
