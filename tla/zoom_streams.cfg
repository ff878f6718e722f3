SPECIFICATION HistorySpec
CONSTANTS
    m1 = m1
    m2 = m2
    st1 = st1
    st2 = st2
    Sessions = {s1, s2}
    Meetings = {m1, m2}
    Streams = {st1, st2}
    MeetingOf <- TwoMeetings
    Processes = {p1, p2}
    Tasks = {t1, t2, t3}
    Requests = {}
    Workers = 2
    MaxCrashes = 1
    None = None
CHECK_DEADLOCK FALSE
SYMMETRY Interchangeable
INVARIANTS
    OneOwner
    LostToSuccessorOrFailure
    StoppedStreamReleased
