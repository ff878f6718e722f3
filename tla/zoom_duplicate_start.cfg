SPECIFICATION Spec
CONSTANTS
    m1 = m1
    m2 = m2
    st1 = st1
    st2 = st2
    Sessions = {s1}
    Meetings = {m1}
    Streams = {st1}
    MeetingOf <- OneMeeting
    Processes = {p1}
    Tasks = {t1, t2}
    Requests = {}
    Workers = 1
    MaxCrashes = 0
    None = None
CHECK_DEADLOCK FALSE
SYMMETRY Interchangeable
INVARIANT OwnsActiveClients
