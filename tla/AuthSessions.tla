---------------------------- MODULE AuthSessions ----------------------------
(***************************************************************************)
(* The session store of the API: refresh tokens, active sessions, password *)
(* reset tokens and the password hash of each user, and the five requests  *)
(* that change them (services/auth.py: login + create_refresh_token,       *)
(* refresh_access_token, logout, create_password_reset_token and           *)
(* reset_password).                                                        *)
(*                                                                         *)
(* Every request runs as one PostgreSQL transaction under READ COMMITTED   *)
(* (db/session.py).  Requests interleave at their awaits, so a step is the *)
(* stretch between two statements that another transaction can observe:    *)
(*   - a SELECT sees what has been committed when it runs;                 *)
(*   - an UPDATE or DELETE takes its list of rows from a snapshot, waits   *)
(*     for rows other transactions have written, and keeps the rows it     *)
(*     wrote locked until the transaction ends;                            *)
(*   - what a transaction wrote becomes visible at its COMMIT, all at once. *)
(* Uncommitted writes live in the variables of the request.                *)
(*                                                                         *)
(* A token stands for its SHA-256 hash, and an ActiveSession row for the   *)
(* refresh token hash it carries (unique in the table); its user is the    *)
(* owner of that token.  A request that is answered with 401 or 400 leaves *)
(* nothing behind: the refusals are the guards of the Read actions.        *)
(***************************************************************************)
EXTENDS Naturals, FiniteSets

CONSTANTS Users,        \* rows of the users table
          Tokens,       \* refresh tokens that can ever be issued
          ResetTokens,  \* password reset tokens that can ever be issued
          Requests,     \* requests (or background tasks) in flight at once
          Passwords,    \* passwords
          MaxExpired,   \* bound: tokens whose expiry is let pass
          None          \* no row

ASSUME NoneAssumption ==
    None \notin Users \cup Tokens \cup ResetTokens \cup Passwords

ASSUME TokenAssumption == Tokens \cap ResetTokens = {}

VARIABLES
    password,     \* users.password_hash
    owner,        \* refresh_tokens.user_id, None while the row does not exist
    revoked,      \* tokens whose refresh_tokens.revoked is true
    sessions,     \* active_sessions rows, by refresh_token_hash
    resetOwner,   \* password_reset_tokens.user_id
    used,         \* reset tokens whose used_at is set
    expired,      \* tokens of either kind whose expires_at has passed
    pc,           \* where each request is
    usr,          \* the user it acts for
    tok,          \* the refresh token it was given
    found,        \* it found the ActiveSession row of tok
    rst,          \* the reset token it was given
    newPassword,  \* the password it sets
    seen,         \* rows in the snapshot of its UPDATE
    mine,         \* refresh_tokens rows it has written and keeps locked
    gone,         \* active_sessions rows it has deleted and keeps locked
    rotatedFrom   \* history: the token a token was rotated from

store   == <<password, owner, revoked, sessions, resetOwner, used>>
request == <<pc, usr, tok, found, rst, newPassword, seen, mine, gone>>
vars    == <<store, expired, request, rotatedFrom>>

-----------------------------------------------------------------------------
(* Rows and locks. *)

Issued == {t \in Tokens : owner[t] # None}

Live == Issued \ revoked

Outstanding(u) == {p \in ResetTokens : resetOwner[p] = u /\ p \notin used}

\* Mutant: a written row does not make other transactions wait.
TokenLocked_Never(t) == FALSE

\* The refresh_tokens row of t is written by a transaction still open.
TokenLocked(t) == \E r \in Requests : t \in mine[r]

\* The active_sessions row of t is deleted by a transaction still open.
SessionLocked(t) == \E r \in Requests : t \in gone[r]

\* A reset that has flushed holds the users row and its reset token's row.
Resetting(r) == pc[r] \in {"reset_revoking", "reset_deleted"}

UserLocked(u) == \E r \in Requests : Resetting(r) /\ usr[r] = u

ResetTokenLocked(p) == \E r \in Requests : Resetting(r) /\ rst[r] = p

\* The transactions holding a row that the next statement of r writes.
WaitsFor(r) ==
    {q \in Requests \ {r} :
        \/ pc[r] \in {"refresh_read", "logout_read"} /\ tok[r] \in mine[q]
        \/ /\ pc[r] \in {"refresh_selected", "logout_selected"} /\ found[r]
           /\ tok[r] \in gone[q]
        \/ pc[r] = "forgot_read" /\ Resetting(q) /\ rst[q] \in seen[r]
        \/ pc[r] = "reset_read" /\ Resetting(q) /\ usr[q] = usr[r]
        \/ pc[r] = "reset_revoking" /\ (seen[r] \ revoked) \cap mine[q] # {}}

\* The transaction of r is over, committed or rolled back.
Done(r) ==
    /\ pc'          = [pc          EXCEPT ![r] = "idle"]
    /\ usr'         = [usr         EXCEPT ![r] = None]
    /\ tok'         = [tok         EXCEPT ![r] = None]
    /\ found'       = [found       EXCEPT ![r] = FALSE]
    /\ rst'         = [rst         EXCEPT ![r] = None]
    /\ newPassword' = [newPassword EXCEPT ![r] = None]
    /\ seen'        = [seen        EXCEPT ![r] = {}]
    /\ mine'        = [mine        EXCEPT ![r] = {}]
    /\ gone'        = [gone        EXCEPT ![r] = {}]

Init ==
    /\ password \in [Users -> Passwords]
    /\ owner = [t \in Tokens |-> None]
    /\ revoked = {}
    /\ sessions = {}
    /\ resetOwner = [p \in ResetTokens |-> None]
    /\ used = {}
    /\ expired = {}
    /\ pc = [r \in Requests |-> "idle"]
    /\ usr = [r \in Requests |-> None]
    /\ tok = [r \in Requests |-> None]
    /\ found = [r \in Requests |-> FALSE]
    /\ rst = [r \in Requests |-> None]
    /\ newPassword = [r \in Requests |-> None]
    /\ seen = [r \in Requests |-> {}]
    /\ mine = [r \in Requests |-> {}]
    /\ gone = [r \in Requests |-> {}]
    /\ rotatedFrom = [t \in Tokens |-> None]

-----------------------------------------------------------------------------
(* Login: the password is verified, then the token pair is stored.  Signup *)
(* and the Google callback end in the same create_refresh_token.           *)

LoginCheck(r, u, p) ==
    /\ pc[r] = "idle"
    /\ password[u] = p
    /\ pc' = [pc EXCEPT ![r] = "login_checked"]
    /\ usr' = [usr EXCEPT ![r] = u]
    /\ UNCHANGED <<store, expired, rotatedFrom, tok, found, rst, newPassword,
                   seen, mine, gone>>

LoginCommit(r, t) ==
    /\ pc[r] = "login_checked"
    /\ owner[t] = None
    /\ owner' = [owner EXCEPT ![t] = usr[r]]
    /\ sessions' = sessions \cup {t}
    /\ Done(r)
    /\ UNCHANGED <<password, revoked, resetOwner, used, expired, rotatedFrom>>

-----------------------------------------------------------------------------
(* Refresh: read and check the row; write it (autoflush) and look for its   *)
(* session; commit the rotation.                                            *)

\* Mutant: a revoked token is accepted.
RefreshRead_Revoked(r, t) ==
    /\ pc[r] = "idle"
    /\ t \in Issued \ expired
    /\ pc' = [pc EXCEPT ![r] = "refresh_read"]
    /\ usr' = [usr EXCEPT ![r] = owner[t]]
    /\ tok' = [tok EXCEPT ![r] = t]
    /\ UNCHANGED <<store, expired, rotatedFrom, found, rst, newPassword,
                   seen, mine, gone>>

RefreshRead(r, t) ==
    /\ pc[r] = "idle"
    /\ t \in Live \ expired
    /\ pc' = [pc EXCEPT ![r] = "refresh_read"]
    /\ usr' = [usr EXCEPT ![r] = owner[t]]
    /\ tok' = [tok EXCEPT ![r] = t]
    /\ UNCHANGED <<store, expired, rotatedFrom, found, rst, newPassword,
                   seen, mine, gone>>

\* The UPDATE waits for the row; it does not look at revoked again.
RefreshSelect(r) ==
    /\ pc[r] = "refresh_read"
    /\ ~ TokenLocked(tok[r])
    /\ mine' = [mine EXCEPT ![r] = {tok[r]}]
    /\ found' = [found EXCEPT ![r] = tok[r] \in sessions]
    /\ pc' = [pc EXCEPT ![r] = "refresh_selected"]
    /\ UNCHANGED <<store, expired, rotatedFrom, usr, tok, rst, newPassword,
                   seen, gone>>

\* Mutant: no session is added when none was found.
RefreshCommit_NoElse(r, t) ==
    /\ pc[r] = "refresh_selected"
    /\ found[r] => tok[r] \in sessions /\ ~ SessionLocked(tok[r])
    /\ owner[t] = None
    /\ owner' = [owner EXCEPT ![t] = usr[r]]
    /\ revoked' = revoked \cup {tok[r]}
    /\ sessions' = IF found[r] THEN (sessions \ {tok[r]}) \cup {t} ELSE sessions
    /\ rotatedFrom' = [rotatedFrom EXCEPT ![t] = tok[r]]
    /\ Done(r)
    /\ UNCHANGED <<password, resetOwner, used, expired>>

\* The session moves to the new hash, or a new session is added if none was
\* found.
RefreshCommit(r, t) ==
    /\ pc[r] = "refresh_selected"
    /\ found[r] => tok[r] \in sessions /\ ~ SessionLocked(tok[r])
    /\ owner[t] = None
    /\ owner' = [owner EXCEPT ![t] = usr[r]]
    /\ revoked' = revoked \cup {tok[r]}
    /\ sessions' = (sessions \ {tok[r]}) \cup {t}
    /\ rotatedFrom' = [rotatedFrom EXCEPT ![t] = tok[r]]
    /\ Done(r)
    /\ UNCHANGED <<password, resetOwner, used, expired>>

\* The session row it found has been deleted: the UPDATE matches no row,
\* SQLAlchemy raises StaleDataError and the request ends with a 500.
RefreshStale(r) ==
    /\ pc[r] = "refresh_selected"
    /\ found[r]
    /\ tok[r] \notin sessions
    /\ Done(r)
    /\ UNCHANGED <<store, expired, rotatedFrom>>

-----------------------------------------------------------------------------
(* Logout: an unknown token is refused, an expired or revoked one is not.   *)

LogoutRead(r, t) ==
    /\ pc[r] = "idle"
    /\ t \in Issued
    /\ pc' = [pc EXCEPT ![r] = IF t \in revoked THEN "logout_revoked"
                                                ELSE "logout_read"]
    /\ usr' = [usr EXCEPT ![r] = owner[t]]
    /\ tok' = [tok EXCEPT ![r] = t]
    /\ UNCHANGED <<store, expired, rotatedFrom, found, rst, newPassword,
                   seen, mine, gone>>

\* Setting revoked on a row read as revoked changes nothing, so SQLAlchemy
\* emits no UPDATE and the row is not locked.
LogoutSelect(r) ==
    /\ \/ /\ pc[r] = "logout_read"
          /\ ~ TokenLocked(tok[r])
          /\ mine' = [mine EXCEPT ![r] = {tok[r]}]
       \/ /\ pc[r] = "logout_revoked"
          /\ mine' = mine
    /\ found' = [found EXCEPT ![r] = tok[r] \in sessions]
    /\ pc' = [pc EXCEPT ![r] = "logout_selected"]
    /\ UNCHANGED <<store, expired, rotatedFrom, usr, tok, rst, newPassword,
                   seen, gone>>

\* Mutant: logout revokes the token and leaves its session.
LogoutCommit_KeepsSession(r) ==
    /\ pc[r] = "logout_selected"
    /\ revoked' = revoked \cup mine[r]
    /\ Done(r)
    /\ UNCHANGED <<password, owner, sessions, resetOwner, used, expired,
                   rotatedFrom>>

\* Deleting a session that has vanished since is only a warning.
LogoutCommit(r) ==
    /\ pc[r] = "logout_selected"
    /\ found[r] => ~ SessionLocked(tok[r])
    /\ revoked' = revoked \cup mine[r]
    /\ sessions' = IF found[r] THEN sessions \ {tok[r]} ELSE sessions
    /\ Done(r)
    /\ UNCHANGED <<password, owner, resetOwner, used, expired, rotatedFrom>>

-----------------------------------------------------------------------------
(* Forgot password: a background task with a session of its own retires the *)
(* outstanding reset tokens it read and adds one.                           *)

ForgotRead(r, u) ==
    /\ pc[r] = "idle"
    /\ pc' = [pc EXCEPT ![r] = "forgot_read"]
    /\ usr' = [usr EXCEPT ![r] = u]
    /\ seen' = [seen EXCEPT ![r] = Outstanding(u)]
    /\ UNCHANGED <<store, expired, rotatedFrom, tok, found, rst, newPassword,
                   mine, gone>>

\* Mutant: the outstanding reset tokens are not retired.
ForgotCommit_KeepsOld(r, p) ==
    /\ pc[r] = "forgot_read"
    /\ resetOwner[p] = None
    /\ resetOwner' = [resetOwner EXCEPT ![p] = usr[r]]
    /\ Done(r)
    /\ UNCHANGED <<password, owner, revoked, sessions, used, expired,
                   rotatedFrom>>

ForgotCommit(r, p) ==
    /\ pc[r] = "forgot_read"
    /\ \A q \in seen[r] : ~ ResetTokenLocked(q)
    /\ resetOwner[p] = None
    /\ used' = used \cup seen[r]
    /\ resetOwner' = [resetOwner EXCEPT ![p] = usr[r]]
    /\ Done(r)
    /\ UNCHANGED <<password, owner, revoked, sessions, expired, rotatedFrom>>

-----------------------------------------------------------------------------
(* Reset password: check the reset token; flush the new password hash and   *)
(* used_at; UPDATE refresh_tokens row by row; DELETE active_sessions;       *)
(* commit.                                                                  *)

ResetRead(r, p, new) ==
    /\ pc[r] = "idle"
    /\ resetOwner[p] # None
    /\ p \notin used \cup expired
    /\ pc' = [pc EXCEPT ![r] = "reset_read"]
    /\ usr' = [usr EXCEPT ![r] = resetOwner[p]]
    /\ rst' = [rst EXCEPT ![r] = p]
    /\ newPassword' = [newPassword EXCEPT ![r] = new]
    /\ UNCHANGED <<store, expired, rotatedFrom, tok, found, seen, mine, gone>>

\* Mutant: the sessions are deleted before the tokens are revoked.
ResetFlush_SessionsFirst(r) ==
    /\ pc[r] = "reset_read"
    /\ ~ UserLocked(usr[r])
    /\ pc' = [pc EXCEPT ![r] = "reset_revoking"]
    /\ seen' = [seen EXCEPT ![r] = {t \in Live : owner[t] = usr[r]}]
    /\ gone' = [gone EXCEPT ![r] = {t \in sessions : owner[t] = usr[r]}]
    /\ UNCHANGED <<store, expired, rotatedFrom, usr, tok, found, rst,
                   newPassword, mine>>

\* The autoflush waits for the users row; the UPDATE then takes its snapshot.
ResetFlush(r) ==
    /\ pc[r] = "reset_read"
    /\ ~ UserLocked(usr[r])
    /\ pc' = [pc EXCEPT ![r] = "reset_revoking"]
    /\ seen' = [seen EXCEPT ![r] = {t \in Live : owner[t] = usr[r]}]
    /\ UNCHANGED <<store, expired, rotatedFrom, usr, tok, found, rst,
                   newPassword, mine, gone>>

\* A row revoked meanwhile no longer satisfies the WHERE and is passed over.
ResetRevokeRow(r, t) ==
    /\ pc[r] = "reset_revoking"
    /\ t \in seen[r] \ revoked
    /\ ~ TokenLocked(t)
    /\ mine' = [mine EXCEPT ![r] = @ \cup {t}]
    /\ UNCHANGED <<store, expired, rotatedFrom, pc, usr, tok, found, rst,
                   newPassword, seen, gone>>

\* Mutant: the UPDATE passes over rows other transactions have locked.
ResetDelete_SkipsRows(r) ==
    /\ pc[r] = "reset_revoking"
    /\ gone' = [gone EXCEPT ![r] = {t \in sessions : owner[t] = usr[r]}]
    /\ pc' = [pc EXCEPT ![r] = "reset_deleted"]
    /\ UNCHANGED <<store, expired, rotatedFrom, usr, tok, found, rst,
                   newPassword, seen, mine>>

\* Mutant: the sessions are left alone.
ResetDelete_KeepsSessions(r) ==
    /\ pc[r] = "reset_revoking"
    /\ seen[r] \subseteq revoked \cup mine[r]
    /\ pc' = [pc EXCEPT ![r] = "reset_deleted"]
    /\ UNCHANGED <<store, expired, rotatedFrom, usr, tok, found, rst,
                   newPassword, seen, mine, gone>>

ResetDelete(r) ==
    /\ pc[r] = "reset_revoking"
    /\ seen[r] \subseteq revoked \cup mine[r]
    /\ gone' = [gone EXCEPT ![r] = {t \in sessions : owner[t] = usr[r]}]
    /\ pc' = [pc EXCEPT ![r] = "reset_deleted"]
    /\ UNCHANGED <<store, expired, rotatedFrom, usr, tok, found, rst,
                   newPassword, seen, mine>>

ResetCommit(r) ==
    /\ pc[r] = "reset_deleted"
    /\ password' = [password EXCEPT ![usr[r]] = newPassword[r]]
    /\ used' = used \cup {rst[r]}
    /\ revoked' = revoked \cup mine[r]
    /\ sessions' = sessions \ gone[r]
    /\ Done(r)
    /\ UNCHANGED <<owner, resetOwner, expired, rotatedFrom>>

-----------------------------------------------------------------------------
\* A database error, a cancelled request or a crash of the worker before the
\* COMMIT: the transaction is rolled back and its locks are released.
Fail(r) ==
    /\ pc[r] # "idle"
    /\ Done(r)
    /\ UNCHANGED <<store, expired, rotatedFrom>>

\* expires_at passes.
Expire(t) ==
    /\ t \in Issued \cup {p \in ResetTokens : resetOwner[p] # None}
    /\ t \notin expired
    /\ Cardinality(expired) < MaxExpired
    /\ expired' = expired \cup {t}
    /\ UNCHANGED <<store, request, rotatedFrom>>

-----------------------------------------------------------------------------
\* The steps a request takes by itself once it has been received.
Proceed(r) ==
    \/ \E t \in Tokens : LoginCommit(r, t)
    \/ RefreshSelect(r)
    \/ \E t \in Tokens : RefreshCommit(r, t)
    \/ RefreshStale(r)
    \/ LogoutSelect(r)
    \/ LogoutCommit(r)
    \/ \E p \in ResetTokens : ForgotCommit(r, p)
    \/ ResetFlush(r)
    \/ \E t \in Tokens : ResetRevokeRow(r, t)
    \/ ResetDelete(r)
    \/ ResetCommit(r)

Receive(r) ==
    \/ \E u \in Users, p \in Passwords : LoginCheck(r, u, p)
    \/ \E t \in Tokens : RefreshRead(r, t)
    \/ \E t \in Tokens : LogoutRead(r, t)
    \/ \E u \in Users : ForgotRead(r, u)
    \/ \E p \in ResetTokens, new \in Passwords : ResetRead(r, p, new)

Next ==
    \/ \E r \in Requests : Receive(r) \/ Proceed(r) \/ Fail(r)
    \/ \E t \in Tokens \cup ResetTokens : Expire(t)

Spec == Init /\ [][Next]_vars

-----------------------------------------------------------------------------
(* Properties. *)

Places == {"idle", "login_checked", "refresh_read", "refresh_selected",
           "logout_read", "logout_revoked", "logout_selected", "forgot_read",
           "reset_read", "reset_revoking", "reset_deleted"}

StoreTypeOK ==
    /\ password \in [Users -> Passwords]
    /\ owner \in [Tokens -> Users \cup {None}]
    /\ revoked \subseteq Tokens
    /\ sessions \subseteq Tokens
    /\ resetOwner \in [ResetTokens -> Users \cup {None}]
    /\ used \subseteq ResetTokens
    /\ expired \subseteq Tokens \cup ResetTokens
    /\ rotatedFrom \in [Tokens -> Tokens \cup {None}]

RequestTypeOK ==
    /\ pc \in [Requests -> Places]
    /\ usr \in [Requests -> Users \cup {None}]
    /\ tok \in [Requests -> Tokens \cup {None}]
    /\ found \in [Requests -> BOOLEAN]
    /\ rst \in [Requests -> ResetTokens \cup {None}]
    /\ newPassword \in [Requests -> Passwords \cup {None}]
    /\ seen \in [Requests -> SUBSET (Tokens \cup ResetTokens)]
    /\ mine \in [Requests -> SUBSET Tokens]
    /\ gone \in [Requests -> SUBSET Tokens]

\* Every variable holds a value of its column or of its request.
TypeOK == StoreTypeOK /\ RequestTypeOK

\* No active session is listed for a token that can no longer be refreshed:
\* whatever logins, rotations, logouts and resets overlap, the row leaves the
\* table or moves on no later than its token is revoked.
SessionTokenLive == sessions \subseteq Live

\* A reset that commits has revoked every token that was live when its UPDATE
\* began, whoever else was writing those rows, and none of them keeps a
\* session; it has revoked no token of another user.
ResetRevokesSnapshot ==
    [][\A r \in Requests : ResetCommit(r) =>
         /\ seen[r] \subseteq revoked'
         /\ seen[r] \cap sessions' = {}
         /\ \A t \in revoked' \ revoked : owner[t] = usr[r]]_vars

\* "After a successful password reset, revoke every active session": once the
\* reset commits, u has no live refresh token and no session.
EndsEverySession(u) ==
    \A t \in Tokens : owner'[t] = u => t \in revoked' \ sessions'

ResetEndsEverySession ==
    [][\A r \in Requests : ResetCommit(r) => EndsEverySession(usr[r])]_vars

\* A password changes only by spending a reset token that was unused until
\* then: a reset link works once.
SpendsAToken(u) ==
    password'[u] # password[u] => \E p \in used' \ used : resetOwner[p] = u

\* Asking for a reset link retires the earlier ones.
OneOutstanding(u) == \A p, q \in Outstanding(u) : p = q

\* Rotation replaces a token of u by one new token, not by several.
OneSuccessor(u) ==
    \A t1, t2 \in Issued :
        owner[t1] = u /\ rotatedFrom[t1] # None
                      /\ rotatedFrom[t1] = rotatedFrom[t2] => t1 = t2

\* u has asked for a reset link at some time.
ResetAsked(u) == \E p \in ResetTokens : resetOwner[p] = u

\* A live refresh token is tracked by an active session, so that it can be
\* listed and revoked, unless its user has asked for a reset: logins, rotations
\* and logouts by themselves never separate the two tables.
LiveTokenTracked == \A t \in Live : t \in sessions \/ ResetAsked(owner[t])

\* The session row a refresh found is still there when it is written back, so
\* the rotation does not fail with StaleDataError, unless its user has asked
\* for a reset.
FoundSessionStays ==
    \A r \in Requests :
        pc[r] = "refresh_selected" /\ found[r]
            => tok[r] \in sessions \/ ResetAsked(usr[r])

\* Refreshes, logouts, resets and forgotten passwords write tokens, sessions,
\* users and links in orders of their own, and still never wait for each other
\* in a circle: among any of them there is one that waits for none of the rest.
NoCircle ==
    \A S \in SUBSET Requests :
        S # {} => \E r \in S : WaitsFor(r) \cap S = {}
=============================================================================
