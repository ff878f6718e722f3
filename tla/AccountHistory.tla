--------------------------- MODULE AccountHistory ---------------------------
(* Accounts with a history variable that tells the accounts whose own        *)
(* requests have overlapped from the others, and what verification links     *)
(* promise the others.                                                       *)
EXTENDS Accounts

VARIABLE raced  \* accounts for which two requests have been in flight at once

Overlaps(e) == \E q, r \in Requests : q # r /\ email[q] = e /\ email[r] = e

HistoryInit == Init /\ raced = {}

HistoryNext == Next /\ raced' = raced \cup {e \in Emails : Overlaps(e)'}

HistorySpec == HistoryInit /\ [][HistoryNext]_<<vars, raced>>

-----------------------------------------------------------------------------
\* "Ensuring only one active token exists at a time" holds for an account whose
\* own requests come one after another, whatever overlaps for other accounts
\* (create_verification_token).
OneActiveLink == \A e \in Emails \ raced : OneOutstanding(e)
=============================================================================
