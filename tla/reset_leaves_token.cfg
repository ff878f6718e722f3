SPECIFICATION Spec
CONSTANTS
    Users = {u1}
    Tokens = {t1, t2}
    ResetTokens = {p1}
    Requests = {r1, r2}
    Passwords = {w1}
    MaxExpired = 0
    None = None
PROPERTY ResetEndsEverySession
