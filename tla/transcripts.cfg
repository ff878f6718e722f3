SPECIFICATION FairSpec
CONSTANTS
    Sessions = {s1, s2}
    Turns = {t1, t2, t3}
    Processes = {p1, p2}
    RepeatableReads = TRUE
    MaxAttempts = 2
    None = None
CHECK_DEADLOCK FALSE
INVARIANTS
    Gapless
    ConflictsAreRivals
PROPERTIES
    AppendsToLog
    EveryTurnEnds
