---------------------------- MODULE OAuthHistory ----------------------------
(* ZoomOAuth with a history variable: what has been stored behind the back   *)
(* of each request, and what a refresh does in spite of it.                 *)
EXTENDS ZoomOAuth

VARIABLE since  \* the rows committed since each request began

HistoryInit == Init /\ since = [r \in Requests |-> {}]

HistoryNext ==
    /\ Next
    /\ since' = [r \in Requests |-> IF pc'[r] = "idle" THEN {}
                                   ELSE since[r] \cup (rows' \ rows)]

HistorySpec == HistoryInit /\ [][HistoryNext]_<<vars, since>>

-----------------------------------------------------------------------------
\* A request spends the refresh token of a row whose access token could still
\* be handed out only if that row was stored after the request had looked for
\* one (get_access_token reads twice).
RefreshesStaleOrNew ==
    \A r \in Requests :
        pc[r] = "refreshing" => sent[r] \notin usable \/ sent[r] \in since[r]

\* What the answer of a refresh will hide, once it is the newest row, is spent
\* or was stored after the request began: an answer without a refresh token
\* costs the account no row that could have been renewed, unless a callback or
\* another refresh stored it meanwhile (_store_token).
HidesSpentOrNew ==
    \A r \in Requests :
        sent[r] # None /\ held[r] # None => Newest \subseteq spent \cup since[r]
=============================================================================
