-------------------------- MODULE InterviewHistory --------------------------
(* Interviews with a history variable that tells the users and interviews    *)
(* whose own requests have overlapped from the others, and what the service  *)
(* promises the others, whatever overlaps elsewhere.                         *)
EXTENDS Interviews

VARIABLE raced  \* users and interviews with two requests in flight at once

\* The user a request acts for: only the interviewer may update or cancel.
Actor(r) == IF usr[r] # None \/ itv[r] = None THEN usr[r]
                                              ELSE owner[home[itv[r]]]

Overlaps(x) ==
    \E q, r \in Requests : q # r /\ x \in {Actor(q), itv[q]} \cap {Actor(r), itv[r]}

HistoryInit == Init /\ raced = {}

HistoryNext ==
    /\ Next
    /\ raced' = raced \cup {x \in Users \cup Interviews : Overlaps(x)'}

HistorySpec == HistoryInit /\ [][HistoryNext]_<<vars, raced>>

-----------------------------------------------------------------------------
\* The user's requests all resolve one workspace (_get_or_create_workspace).
WorkspaceIsFound == \A u \in Users \ raced : OneWorkspace(u)

\* A name is looked up or made once in the user's workspace
\* (_find_or_create_category).
CategoryIsFound ==
    \A u \in Users \ raced : \A w \in WorkspacesOf(u) : CategoryUnambiguous(w)

\* The interview has the criteria of the last update, and no others
\* (update_interview_criteria).
ReplacesAll == \A i \in Interviews \ raced : ReplaceIsExact(i)

\* The interview is cancelled by one request and its criteria never change from
\* then on (cancel_interview, update_interview_criteria).
CancelledStays == [][\A i \in Interviews \ raced : FrozenOnceCancelled(i)]_vars
=============================================================================
