--------------------------- MODULE StreamHistory ---------------------------
(* ZoomStreams with history variables that tell the stops that came after    *)
(* the start of their stream from those that overtook it or went astray, and *)
(* what such a stop achieves, whatever other stops of the stream, other      *)
(* streams, restarts and failures there are.                                 *)
EXTENDS ZoomStreams

VARIABLES
    starts,     \* tasks that a started event has been delivered to
    inOrder,    \* tasks that a stopped event has been delivered to after a
                \* start of the stream was through in the same process
    rewritten   \* meetings whose status a control request has changed since
                \* the start of a stream of theirs was recorded

historyVars == <<vars, starts, inOrder, rewritten>>

\* The started event of st has been delivered more than once.
Restarted(st) == \E c, d \in starts : c # d /\ stream[c] = st /\ stream[d] = st

\* A start of st has registered its client in p.
Through(st, p) ==
    \E c \in starts : stream[c] = st /\ process[c] = p /\ pc[c] = "done"

\* This step delivers an event to t.
Receives(t) == pc[t] = "idle" /\ pc'[t] # "idle"

\* This step of a control request changes the status of a session of m, of
\* which a stream has started.
Rewrites(m) ==
    /\ \E st \in Streams : MeetingOf[st] = m /\ <<"started", st>> \in recorded
    /\ \E r \in Requests : /\ sess[r] \in SessionsOf(m)
                           /\ pc'[r] # pc[r]
                           /\ status'[sess[r]] # status[sess[r]]

HistoryInit == Init /\ starts = {} /\ inOrder = {} /\ rewritten = {}

HistoryNext ==
    /\ Next
    /\ starts' = starts \cup {t \in Tasks : Receives(t) /\ pc'[t] = "recorded"}
    /\ inOrder' = inOrder \cup
          {t \in Tasks : Receives(t) /\ pc'[t] # "recorded"
                                     /\ Through(stream'[t], process'[t])}
    /\ rewritten' = rewritten \cup {m \in Meetings : Rewrites(m)}

HistorySpec == HistoryInit /\ [][HistoryNext]_historyVars

FairHistorySpec == HistorySpec /\ \A t \in Tasks : WF_vars(Proceed(t))

-----------------------------------------------------------------------------
\* The only stream of its meeting.
Alone(st) == \A o \in Streams \ {st} : MeetingOf[o] # MeetingOf[st]

\* A stop that came to the process of its stream's start after the start was
\* through, and that has itself gone through, leaves no client of the stream
\* joined but one that another stop has taken (stop_from_webhook), and leaves
\* the session ended under the stream's id, unless another stream of the
\* meeting or a control request says otherwise.  Stops that overtook the start,
\* came twice or came to another process do not get in its way.
StoppedStreamReleased ==
    \A t \in inOrder :
        LET st == stream[t] IN
        pc[t] = "done" /\ ~ Restarted(st) =>
            /\ \A c \in active : stream[c] = st => InHand(c) \/ LeaveFailed(c)
            /\ Alone(st) /\ MeetingOf[st] \notin rewritten =>
                  \E s \in SessionsOf(MeetingOf[st]) :
                      status[s] = "ended" /\ provider[s] = st
=============================================================================
