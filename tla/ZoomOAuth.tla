----------------------------- MODULE ZoomOAuth -----------------------------
(***************************************************************************)
(* The Zoom OAuth tokens of the meeting SDK (providers/zoom_rtms/oauth.py):  *)
(* the callback that exchanges a code, and get_access_token, which every     *)
(* start and stop request goes through and which refreshes a token when the  *)
(* newest row of sdk_zoom_oauth_tokens is no longer usable.                  *)
(*                                                                         *)
(* Rows are only ever inserted, and the newest by created_at is the only one  *)
(* that is read.  A grant is one answer of Zoom's token endpoint; it is also  *)
(* the name of the row that stores it.  Zoom takes a refresh token once and   *)
(* gives a new one with the answer, which is what storing a row per refresh   *)
(* is for; a code that Zoom refuses ends like any other failed request.       *)
(*                                                                         *)
(* Each SELECT sees the rows committed when it runs (SQLite, or PostgreSQL    *)
(* under READ COMMITTED).  The fixed ZOOM_ACCESS_TOKEN of temporary testing   *)
(* bypasses all of this and is left out.                                     *)
(***************************************************************************)
EXTENDS Naturals, FiniteSets

CONSTANTS Grants,    \* answers of Zoom's token endpoint, rows once stored
          Requests,  \* requests in flight at once
          States,    \* values of the OAuth state parameter
          None       \* no grant

ASSUME GrantAssumption == None \notin Grants

VARIABLES
    rows,       \* grants committed to sdk_zoom_oauth_tokens
    stamp,      \* created_at of a row, 0 before its flush
    clock,      \* the last created_at given out
    usable,     \* grants whose expires_at is set and has not passed
    renewable,  \* grants that came with a refresh token
    issued,     \* Zoom: grants given out
    spent,      \* Zoom: grants whose refresh token has been taken
    origin,     \* Zoom: the grant whose refresh token gave this one
    lost,       \* history: grants given out that no request will store
    valid,      \* OAuth states created and still within their window
    pc,         \* where each request is
    sent,       \* the row whose refresh token a request sends
    held        \* the grant a request has been answered with

table   == <<rows, stamp, clock, usable>>
zoom    == <<renewable, issued, spent, origin>>
request == <<pc, sent, held>>
vars    == <<table, zoom, lost, valid, request>>

-----------------------------------------------------------------------------
\* Mutant: the rows are sorted by created_at the wrong way round.
Newest_Oldest == {g \in rows : \A h \in rows : stamp[g] <= stamp[h]}

\* The row with the latest created_at, if there is one.
Newest == {g \in rows : \A h \in rows : stamp[h] <= stamp[g]}

Done(r) ==
    /\ pc'   = [pc   EXCEPT ![r] = "idle"]
    /\ sent' = [sent EXCEPT ![r] = None]
    /\ held' = [held EXCEPT ![r] = None]

Init ==
    /\ rows = {}
    /\ stamp = [g \in Grants |-> 0]
    /\ clock = 0
    /\ usable = {}
    /\ renewable = {}
    /\ issued = {}
    /\ spent = {}
    /\ origin = [g \in Grants |-> None]
    /\ lost = {}
    /\ valid = {}
    /\ pc = [r \in Requests |-> "idle"]
    /\ sent = [r \in Requests |-> None]
    /\ held = [r \in Requests |-> None]

-----------------------------------------------------------------------------
(* get_access_token: a usable newest row is handed out and nothing changes;  *)
(* otherwise the newest row is read again for its refresh token.             *)

\* Mutant: a token is refreshed without asking whether it is still usable.
FindNone_Unasked(r) ==
    /\ pc[r] = "idle"
    /\ pc' = [pc EXCEPT ![r] = "stale"]
    /\ UNCHANGED <<table, zoom, lost, valid, sent, held>>

FindNone(r) ==
    /\ pc[r] = "idle"
    /\ Newest \cap usable = {}
    /\ pc' = [pc EXCEPT ![r] = "stale"]
    /\ UNCHANGED <<table, zoom, lost, valid, sent, held>>

\* Mutant: any row with a refresh token will do.
FindLatest_Any(r, g) ==
    /\ pc[r] = "stale"
    /\ g \in rows \cap renewable
    /\ pc'   = [pc   EXCEPT ![r] = "refreshing"]
    /\ sent' = [sent EXCEPT ![r] = g]
    /\ UNCHANGED <<table, zoom, lost, valid, held>>

\* The second SELECT: whatever row is the newest by now.
FindLatest(r, g) ==
    /\ pc[r] = "stale"
    /\ g \in Newest \cap renewable
    /\ pc'   = [pc   EXCEPT ![r] = "refreshing"]
    /\ sent' = [sent EXCEPT ![r] = g]
    /\ UNCHANGED <<table, zoom, lost, valid, held>>

\* "Zoom OAuth token is missing."
Missing(r) ==
    /\ pc[r] = "stale"
    /\ Newest \cap renewable = {}
    /\ Done(r)
    /\ UNCHANGED <<table, zoom, lost, valid>>

-----------------------------------------------------------------------------
(* Zoom's token endpoint.  The answer may lack a refresh token, and may last  *)
(* for no more than the minute that is taken off, or name no time at all.     *)

Grant(r, g, isRenewable, lasts) ==
    /\ g \notin issued
    /\ issued'    = issued \cup {g}
    /\ renewable' = IF isRenewable THEN renewable \cup {g} ELSE renewable
    /\ usable'    = IF lasts THEN usable \cup {g} ELSE usable
    /\ pc'        = [pc   EXCEPT ![r] = "answered"]
    /\ held'      = [held EXCEPT ![r] = g]
    /\ UNCHANGED <<rows, stamp, clock, lost, valid, sent>>

ZoomRefreshes(r, g, isRenewable, lasts) ==
    /\ pc[r] = "refreshing"
    /\ sent[r] \notin spent
    /\ Grant(r, g, isRenewable, lasts)
    /\ spent'  = spent \cup {sent[r]}
    /\ origin' = [origin EXCEPT ![g] = sent[r]]

\* A refresh token that has been taken before.
ZoomRefuses(r) ==
    /\ pc[r] = "refreshing"
    /\ sent[r] \in spent
    /\ Done(r)
    /\ UNCHANGED <<table, zoom, lost, valid>>

ZoomExchanges(r, g, isRenewable, lasts) ==
    /\ pc[r] = "exchanging"
    /\ Grant(r, g, isRenewable, lasts)
    /\ UNCHANGED <<spent, origin>>

-----------------------------------------------------------------------------
(* The callback: a signed state within its window, however often it comes.   *)

CreateState(s) ==
    /\ s \notin valid
    /\ valid' = valid \cup {s}
    /\ UNCHANGED <<table, zoom, lost, request>>

StateExpires(s) ==
    /\ s \in valid
    /\ valid' = valid \ {s}
    /\ UNCHANGED <<table, zoom, lost, request>>

Callback(r, s) ==
    /\ pc[r] = "idle"
    /\ s \in valid
    /\ pc' = [pc EXCEPT ![r] = "exchanging"]
    /\ UNCHANGED <<table, zoom, lost, valid, sent, held>>

-----------------------------------------------------------------------------
(* _store_token: encrypt, flush with created_at of that moment, commit.      *)

\* Mutant: the row is dated back to the row it was refreshed from.
Flush_KeepsDate(r) ==
    /\ pc[r] = "answered"
    /\ clock' = clock + 1
    /\ stamp' = [stamp EXCEPT ![held[r]] = IF sent[r] = None THEN clock + 1
                                                             ELSE stamp[sent[r]]]
    /\ pc'    = [pc EXCEPT ![r] = "flushed"]
    /\ UNCHANGED <<rows, usable, zoom, lost, valid, sent, held>>

Flush(r) ==
    /\ pc[r] = "answered"
    /\ clock' = clock + 1
    /\ stamp' = [stamp EXCEPT ![held[r]] = clock + 1]
    /\ pc'    = [pc EXCEPT ![r] = "flushed"]
    /\ UNCHANGED <<rows, usable, zoom, lost, valid, sent, held>>

\* Mutant: the answer of a refresh is handed out without being stored.
Commit_OnlyCallback(r) ==
    /\ pc[r] = "flushed"
    /\ rows' = IF sent[r] = None THEN rows \cup {held[r]} ELSE rows
    /\ Done(r)
    /\ UNCHANGED <<stamp, clock, usable, zoom, lost, valid>>

Commit(r) ==
    /\ pc[r] = "flushed"
    /\ rows' = rows \cup {held[r]}
    /\ Done(r)
    /\ UNCHANGED <<stamp, clock, usable, zoom, lost, valid>>

\* An error of the database or of the encryption key, a timeout, a refusal by
\* Zoom or a crash: what Zoom has answered by then is lost.
Fail(r) ==
    /\ pc[r] # "idle"
    /\ lost' = lost \cup ({held[r]} \ {None})
    /\ Done(r)
    /\ UNCHANGED <<table, zoom, valid>>

\* expires_at passes.
Expire(g) ==
    /\ g \in usable
    /\ usable' = usable \ {g}
    /\ UNCHANGED <<rows, stamp, clock, zoom, lost, valid, request>>

-----------------------------------------------------------------------------
Next ==
    \/ \E r \in Requests :
         \/ FindNone(r) \/ Missing(r) \/ ZoomRefuses(r)
         \/ Flush(r) \/ Commit(r) \/ Fail(r)
         \/ \E g \in Grants : FindLatest(r, g)
         \/ \E g \in Grants, isRenewable, lasts \in BOOLEAN :
              \/ ZoomRefreshes(r, g, isRenewable, lasts)
              \/ ZoomExchanges(r, g, isRenewable, lasts)
         \/ \E s \in States : Callback(r, s)
    \/ \E s \in States : CreateState(s) \/ StateExpires(s)
    \/ \E g \in Grants : Expire(g)

Spec == Init /\ [][Next]_vars

-----------------------------------------------------------------------------
(* Properties. *)

TypeOK ==
    /\ rows \subseteq Grants
    /\ stamp \in [Grants -> Nat]
    /\ clock \in Nat
    /\ usable \subseteq Grants
    /\ renewable \subseteq Grants
    /\ issued \subseteq Grants
    /\ spent \subseteq Grants
    /\ origin \in [Grants -> Grants \cup {None}]
    /\ lost \subseteq Grants
    /\ valid \subseteq States
    /\ pc \in [Requests -> {"idle", "stale", "refreshing", "exchanging",
                            "answered", "flushed"}]
    /\ sent \in [Requests -> Grants \cup {None}]
    /\ held \in [Requests -> Grants \cup {None}]

\* What a refresh with the token of g gave is still to be stored, or is lost.
Pending(g) == \E h \in Grants :
                /\ origin[h] = g
                /\ h \in lost \/ \E r \in Requests : held[r] = h

\* The newest row, the only one the code ever reads, can be renewed, but for
\* two reasons.  Its successor is on its way to the table or was lost: refreshes
\* and callbacks that overlap never leave a spent row on top, whatever order
\* their rows are dated and committed in.  Or Zoom gave it no refresh token: then
\* the account is lost to get_access_token ("missing"), whatever older rows hold.
RenewableUnlessLost ==
    \A g \in Newest :
        \/ g \in renewable \ spent
        \/ Pending(g)
        \/ g \notin renewable

\* A refresh that Zoom refuses can be tried again: the token it sent was
\* replaced by one in a newer row, or one on its way to the table or lost.
RefusalIsTransient ==
    \A r \in Requests :
        pc[r] = "refreshing" /\ sent[r] \in spent =>
            \/ Pending(sent[r])
            \/ \E h \in rows : origin[h] = sent[r] /\ stamp[h] > stamp[sent[r]]
=============================================================================
