SPECIFICATION FairHistorySpec
CONSTANTS
    m1 = m1
    m2 = m2
    st1 = st1
    st2 = st2
    Sessions = {s1, s2}
    Meetings = {m1, m2}
    Streams = {st1}
    MeetingOf <- OneMeeting
    Processes = {p1}
    Tasks = {t1, t2}
    Requests = {r1}
    Workers = 1
    MaxCrashes = 1
    None = None
CHECK_DEADLOCK FALSE
INVARIANTS
    HeardInItsMeeting
    StoppedStreamReleased
PROPERTY
    EveryEventSettles
