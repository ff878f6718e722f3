--------------------------- MODULE SessionHistory ---------------------------
(* AuthSessions with a history variable that tells the users whose own      *)
(* requests have overlapped from the others, and what the endpoints promise *)
(* the others, whatever overlaps for somebody else.                         *)
EXTENDS AuthSessions

VARIABLE raced  \* users two of whose requests have been in flight at once

Overlaps(u) == \E q, r \in Requests : q # r /\ usr[q] = u /\ usr[r] = u

HistoryInit == Init /\ raced = {}

HistoryNext == Next /\ raced' = raced \cup {u \in Users : Overlaps(u)'}

HistorySpec == HistoryInit /\ [][HistoryNext]_<<vars, raced>>

-----------------------------------------------------------------------------
\* Rotation replaces each of the user's tokens by at most one
\* (refresh_access_token).
RotatesOnce == \A u \in Users \ raced : OneSuccessor(u)

\* The user has at most one reset link that works
\* (create_password_reset_token).
OneLinkWorks == \A u \in Users \ raced : OneOutstanding(u)

\* A committed reset leaves the user no live refresh token and no session, and
\* its link is spent for the first time (reset_password).
ResetIsComplete ==
    [][\A u \in Users \ raced :
          /\ SpendsAToken(u)
          /\ \A r \in Requests : ResetCommit(r) /\ usr[r] = u => EndsEverySession(u)]_vars
=============================================================================
