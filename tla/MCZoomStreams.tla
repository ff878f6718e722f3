--------------------------- MODULE MCZoomStreams ---------------------------
(* Bounded instances of ZoomStreams for TLC. *)
EXTENDS ZoomStreams, TLC

CONSTANTS m1, m2, st1, st2

\* Every stream belongs to one meeting.
OneMeeting == [st \in Streams |-> m1]

\* One stream in each of two meetings.
TwoMeetings == (st1 :> m1) @@ (st2 :> m2)

\* Sessions, deliveries and processes are alike.
Interchangeable ==
    Permutations(Tasks) \cup Permutations(Sessions) \cup Permutations(Processes)
=============================================================================
