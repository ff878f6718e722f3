-------------------------- MODULE OnboardingHistory --------------------------
(* Onboarding with a history variable that tells the users whose own handlers *)
(* have overlapped from the others, and what the endpoints promise a user     *)
(* whose own come one after another, whatever overlaps for other users.       *)
EXTENDS Onboarding

VARIABLE raced  \* users with two handlers at work at once

Acting(u) == {r \in Requests : pc[r] = "serving" /\ User(r) = u}

Overlaps(u) == \E q, r \in Acting(u) : q # r

HistoryInit == OInit /\ raced = {}

HistoryNext == ONext /\ raced' = raced \cup {u \in Users : Overlaps(u)'}

HistorySpec == HistoryInit /\ [][HistoryNext]_<<vars, ovars, raced>>

-----------------------------------------------------------------------------
OneRow(table, u) == \A x, y \in RowsOf(table, u) : x = y

\* There is one row of each kind to find, or none (scalar_one_or_none).
PreferencesAreFound ==
    \A u \in Users \ raced : OneRow(meeting, u) /\ OneRow(interview, u)

\* What was answered last is what is stored, in both tables and on the user.
LastFormsKept ==
    \A u \in Users \ raced :
        /\ role[u] = answered[u].role
        /\ \A x \in RowsOf(meeting, u)   : meeting[x].val   = answered[u].prefs
        /\ \A x \in RowsOf(interview, u) : interview[x].val = answered[u].prefs
=============================================================================
