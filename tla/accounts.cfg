SPECIFICATION HistorySpec
CONSTANTS
    e1 = e1
    e2 = e2
    g1 = g1
    g2 = g2
    Emails = {e1, e2}
    GoogleIds = {g1, g2}
    EmailOf <- OneEmail
    Tokens = {t1, t2, t3}
    Requests = {r1, r2, r3}
    None = None
CHECK_DEADLOCK FALSE
SYMMETRY Interchangeable
INVARIANTS
    SeparateAccounts
    VerifiedByOwnLink
    NeverWithoutLink
    MailedIsStored
    OneActiveLink
