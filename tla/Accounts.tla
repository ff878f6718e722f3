------------------------------ MODULE Accounts ------------------------------
(***************************************************************************)
(* How an account comes to be and is verified: signup (routes/auth.py,      *)
(* services/auth.py, create_user), verification links                       *)
(* (services/verification_service.py) and the Google callback               *)
(* (services/google_oauth.py, find_or_create_user).                         *)
(*                                                                         *)
(* Transactions are those of AuthSessions: READ COMMITTED, a step between   *)
(* two statements that another one can tell apart.  A user is known by the  *)
(* email, which is unique in the table: an INSERT waits for a rival with    *)
(* the same email that has not ended, and fails if that one commits.        *)
(* Nothing else is unique: not a Google id, not an outstanding link.        *)
(*                                                                         *)
(* The mail with a link is a background task: it leaves after the response, *)
(* so after every commit of its request, and not at all when the request    *)
(* fails.  Only the mail carries the token.  Refused requests leave nothing  *)
(* behind and a callback that finds its link changes nothing here; the      *)
(* refresh token that signup and callback end with is in AuthSessions.      *)
(***************************************************************************)
EXTENDS FiniteSets

CONSTANTS Emails,
          GoogleIds,  \* Google accounts
          EmailOf,    \* the email in the profile of each
          Tokens,     \* verification tokens that can ever be issued
          Requests,   \* requests, with their background task, in flight at once
          None        \* no row

ASSUME AccountAssumption ==
    /\ EmailOf \in [GoogleIds -> Emails]
    /\ None \notin Emails \cup GoogleIds \cup Tokens

VARIABLES
    account,   \* users: "none", or how the row was made
    verified,  \* users.is_verified
    links,     \* sso_providers, as <<Google id, email of the user>>
    owner,     \* email_verification_tokens.user_id
    used,      \* tokens whose used_at is set
    expired,   \* tokens whose expires_at has passed
    mailed,    \* tokens that have left in a mail
    pc,        \* where each request is
    email,     \* the account it acts for
    google,    \* the Google id it was given
    tok,       \* the token it was given, or has generated
    seen       \* the outstanding tokens it has read

users   == <<account, verified, links>>
store   == <<users, owner, used>>
request == <<pc, email, google, tok, seen>>
vars    == <<store, expired, mailed, request>>

-----------------------------------------------------------------------------
Outstanding(e) == {t \in Tokens : owner[t] = e /\ t \notin used}

\* An open transaction has inserted a users row for e.
Inserting(e) ==
    \E r \in Requests :
        /\ pc[r] \in {"signup_inserted", "signup_scanned", "google_inserted"}
        /\ email[r] = e

\* The row of t is written by a transaction still open.
TokenLocked(t) == \E r \in Requests : pc[r] = "verify_flushed" /\ tok[r] = t

\* The request is over: answered, its transaction ended, its mail sent or not.
Done(r) ==
    /\ pc'     = [pc     EXCEPT ![r] = "idle"]
    /\ email'  = [email  EXCEPT ![r] = None]
    /\ google' = [google EXCEPT ![r] = None]
    /\ tok'    = [tok    EXCEPT ![r] = None]
    /\ seen'   = [seen   EXCEPT ![r] = {}]

Init ==
    /\ account = [e \in Emails |-> "none"]
    /\ verified = {}
    /\ links = {}
    /\ owner = [t \in Tokens |-> None]
    /\ used = {}
    /\ expired = {}
    /\ mailed = {}
    /\ pc = [r \in Requests |-> "idle"]
    /\ email = [r \in Requests |-> None]
    /\ google = [r \in Requests |-> None]
    /\ tok = [r \in Requests |-> None]
    /\ seen = [r \in Requests |-> {}]

-----------------------------------------------------------------------------
(* Signup: look the email up, insert the user, issue a token and commit     *)
(* both; then store the refresh token in a transaction of its own.          *)

SignupCheck(r, e) ==
    /\ pc[r] = "idle"
    /\ account[e] = "none"
    /\ pc' = [pc EXCEPT ![r] = "signup_checked"]
    /\ email' = [email EXCEPT ![r] = e]
    /\ UNCHANGED <<store, expired, mailed, google, tok, seen>>

SignupInsert(r) ==
    /\ pc[r] = "signup_checked"
    /\ account[email[r]] = "none" /\ ~ Inserting(email[r])
    /\ pc' = [pc EXCEPT ![r] = "signup_inserted"]
    /\ UNCHANGED <<store, expired, mailed, email, google, tok, seen>>

SignupFinish(r) ==
    /\ pc[r] = "signup_committed"
    /\ pc' = [pc EXCEPT ![r] = "mailing"]
    /\ UNCHANGED <<store, expired, mailed, email, google, tok, seen>>

-----------------------------------------------------------------------------
(* create_verification_token, for signup and resend alike.                  *)

ResendRead(r, e) ==
    /\ pc[r] = "idle"
    /\ account[e] # "none" /\ e \notin verified
    /\ pc' = [pc EXCEPT ![r] = "resend_read"]
    /\ email' = [email EXCEPT ![r] = e]
    /\ UNCHANGED <<store, expired, mailed, google, tok, seen>>

\* Mutant: the new token is flushed before the outstanding ones are read.
TokenScan_AfterAdd(r, t) ==
    /\ pc[r] \in {"signup_inserted", "resend_read"}
    /\ owner[t] = None /\ \A q \in Requests : tok[q] # t
    /\ tok' = [tok EXCEPT ![r] = t]
    /\ seen' = [seen EXCEPT ![r] = Outstanding(email[r]) \cup {t}]
    /\ pc' = [pc EXCEPT ![r] = IF @ = "resend_read" THEN "resend_scanned"
                                                    ELSE "signup_scanned"]
    /\ UNCHANGED <<store, expired, mailed, email, google>>

\* Read the outstanding tokens, generate one, leave the mail to the background.
TokenScan(r, t) ==
    /\ pc[r] \in {"signup_inserted", "resend_read"}
    /\ owner[t] = None /\ \A q \in Requests : tok[q] # t
    /\ tok' = [tok EXCEPT ![r] = t]
    /\ seen' = [seen EXCEPT ![r] = Outstanding(email[r])]
    /\ pc' = [pc EXCEPT ![r] = IF @ = "resend_read" THEN "resend_scanned"
                                                    ELSE "signup_scanned"]
    /\ UNCHANGED <<store, expired, mailed, email, google>>

\* Mutant: the outstanding tokens are not retired.
TokenCommit_KeepsOld(r) ==
    /\ pc[r] \in {"signup_scanned", "resend_scanned"}
    /\ owner' = [owner EXCEPT ![tok[r]] = email[r]]
    /\ account' = [account EXCEPT
                     ![email[r]] = IF pc[r] = "signup_scanned" THEN "password" ELSE @]
    /\ pc' = [pc EXCEPT ![r] = IF @ = "signup_scanned" THEN "signup_committed"
                                                       ELSE "mailing"]
    /\ UNCHANGED <<verified, links, used, expired, mailed, email, google, tok,
                   seen>>

\* Retire what was read and commit, for a signup together with its user.
TokenCommit(r) ==
    /\ pc[r] \in {"signup_scanned", "resend_scanned"}
    /\ \A t \in seen[r] : ~ TokenLocked(t)
    /\ used' = used \cup seen[r]
    /\ owner' = [owner EXCEPT ![tok[r]] = email[r]]
    /\ account' = [account EXCEPT
                     ![email[r]] = IF pc[r] = "signup_scanned" THEN "password" ELSE @]
    /\ pc' = [pc EXCEPT ![r] = IF @ = "signup_scanned" THEN "signup_committed"
                                                       ELSE "mailing"]
    /\ UNCHANGED <<verified, links, expired, mailed, email, google, tok, seen>>

\* Mutant: the mail leaves as soon as the token is generated.
Mail_AtOnce(r) ==
    /\ tok[r] # None
    /\ mailed' = mailed \cup {tok[r]}
    /\ UNCHANGED <<store, expired, request>>

\* The background task, after the response.
Mail(r) ==
    /\ pc[r] = "mailing"
    /\ mailed' = mailed \cup {tok[r]}
    /\ Done(r)
    /\ UNCHANGED <<store, expired>>

-----------------------------------------------------------------------------
(* Verify: check the token as read; write used_at (autoflush) and read the  *)
(* user; commit.  The UPDATE waits for the row and does not look at used_at *)
(* again.                                                                   *)

VerifyRead(r, t) ==
    /\ pc[r] = "idle"
    /\ t \in mailed /\ owner[t] # None /\ t \notin used \cup expired
    /\ pc' = [pc EXCEPT ![r] = "verify_read"]
    /\ email' = [email EXCEPT ![r] = owner[t]]
    /\ tok' = [tok EXCEPT ![r] = t]
    /\ UNCHANGED <<store, expired, mailed, google, seen>>

VerifyFlush(r) ==
    /\ pc[r] = "verify_read"
    /\ ~ TokenLocked(tok[r])
    /\ pc' = [pc EXCEPT ![r] = "verify_flushed"]
    /\ UNCHANGED <<store, expired, mailed, email, google, tok, seen>>

VerifyCommit(r) ==
    /\ pc[r] = "verify_flushed"
    /\ used' = used \cup {tok[r]}
    /\ verified' = verified \cup {email[r]}
    /\ Done(r)
    /\ UNCHANGED <<account, links, owner, expired, mailed>>

-----------------------------------------------------------------------------
(* The Google callback that finds no link: look the email up, insert the    *)
(* user, insert the link and commit both.                                   *)

GoogleRead(r, g) ==
    /\ pc[r] = "idle"
    /\ \A e \in Emails : <<g, e>> \notin links
    /\ pc' = [pc EXCEPT ![r] = "google_unlinked"]
    /\ email' = [email EXCEPT ![r] = EmailOf[g]]
    /\ google' = [google EXCEPT ![r] = g]
    /\ UNCHANGED <<store, expired, mailed, tok, seen>>

GoogleCheck(r) ==
    /\ pc[r] = "google_unlinked"
    /\ account[email[r]] = "none"
    /\ pc' = [pc EXCEPT ![r] = "google_checked"]
    /\ UNCHANGED <<store, expired, mailed, email, google, tok, seen>>

\* Mutant: the email column is not unique.
GoogleInsert_NotUnique(r) ==
    /\ pc[r] = "google_checked"
    /\ pc' = [pc EXCEPT ![r] = "google_inserted"]
    /\ UNCHANGED <<store, expired, mailed, email, google, tok, seen>>

GoogleInsert(r) ==
    /\ pc[r] = "google_checked"
    /\ account[email[r]] = "none" /\ ~ Inserting(email[r])
    /\ pc' = [pc EXCEPT ![r] = "google_inserted"]
    /\ UNCHANGED <<store, expired, mailed, email, google, tok, seen>>

GoogleCommit(r) ==
    /\ pc[r] = "google_inserted"
    /\ account' = [account EXCEPT ![email[r]] = "google"]
    /\ verified' = verified \cup {email[r]}
    /\ links' = links \cup {<<google[r], email[r]>>}
    /\ Done(r)
    /\ UNCHANGED <<owner, used, expired, mailed>>

-----------------------------------------------------------------------------
\* Mutant: the account found under the email is linked silently.
Refuse_Links(r) ==
    /\ pc[r] \in {"signup_checked", "google_unlinked", "google_checked"}
    /\ account[email[r]] # "none"
    /\ verified' = IF google[r] = None THEN verified ELSE verified \cup {email[r]}
    /\ Done(r)
    /\ UNCHANGED <<account, links, owner, used, expired, mailed>>

\* The email is taken: 409 from the look-up of the callback, IntegrityError
\* from either INSERT.
Refuse(r) ==
    /\ pc[r] \in {"signup_checked", "google_unlinked", "google_checked"}
    /\ account[email[r]] # "none"
    /\ Done(r)
    /\ UNCHANGED <<store, expired, mailed>>

\* A database error or a crash ends the transaction, and what was committed
\* before it stays; a mail that fails, or is never sent because the signup
\* failed after its first commit, is lost.
Fail(r) ==
    /\ pc[r] # "idle"
    /\ Done(r)
    /\ UNCHANGED <<store, expired, mailed>>

\* expires_at passes.
Expire(t) ==
    /\ owner[t] # None /\ t \notin expired
    /\ expired' = expired \cup {t}
    /\ UNCHANGED <<store, mailed, request>>

-----------------------------------------------------------------------------
Next ==
    \/ \E r \in Requests :
         \/ \E e \in Emails : SignupCheck(r, e) \/ ResendRead(r, e)
         \/ \E t \in Tokens : TokenScan(r, t) \/ VerifyRead(r, t)
         \/ \E g \in GoogleIds : GoogleRead(r, g)
         \/ SignupInsert(r) \/ TokenCommit(r) \/ SignupFinish(r) \/ Mail(r)
         \/ VerifyFlush(r) \/ VerifyCommit(r)
         \/ GoogleCheck(r) \/ GoogleInsert(r) \/ GoogleCommit(r)
         \/ Refuse(r) \/ Fail(r)
    \/ \E t \in Tokens : Expire(t)

Spec == Init /\ [][Next]_vars

-----------------------------------------------------------------------------
(* Properties. *)

Places == {"idle", "signup_checked", "signup_inserted", "signup_scanned",
           "signup_committed", "resend_read", "resend_scanned", "mailing",
           "verify_read", "verify_flushed", "google_unlinked",
           "google_checked", "google_inserted"}

\* Every variable holds a value of its column or of its request.
TypeOK ==
    /\ account \in [Emails -> {"none", "password", "google"}]
    /\ verified \subseteq Emails
    /\ links \subseteq GoogleIds \X Emails
    /\ owner \in [Tokens -> Emails \cup {None}]
    /\ used \subseteq Tokens
    /\ expired \subseteq Tokens
    /\ mailed \subseteq Tokens
    /\ pc \in [Requests -> Places]
    /\ email \in [Requests -> Emails \cup {None}]
    /\ google \in [Requests -> GoogleIds \cup {None}]
    /\ tok \in [Requests -> Tokens \cup {None}]
    /\ seen \in [Requests -> SUBSET Tokens]

\* Signups and callbacks for one email, however they overlap, make one account
\* of one kind: an account made by Google is verified and has one link and no
\* token, and no other account has a link (find_or_create_user: "do NOT silently
\* link").
SeparateAccounts ==
    \A e \in Emails :
        LET linked == {g \in GoogleIds : <<g, e>> \in links} IN
        IF account[e] = "google"
        THEN /\ e \in verified
             /\ \E g \in GoogleIds : linked = {g}
             /\ \A t \in Tokens : owner[t] # e
        ELSE linked = {}

\* An account with a password is verified only by a token of its own that was
\* mailed to it (verify_email).
VerifiedByOwnLink ==
    \A e \in verified :
        account[e] = "google" \/ \E t \in mailed \cap used : owner[t] = e

\* An account that is not verified yet always has a token that is not spent,
\* expiry aside: overlapping resends and verifications never retire the last one
\* (create_verification_token).
NeverWithoutLink ==
    \A e \in Emails : account[e] # "none" /\ e \notin verified => Outstanding(e) # {}

\* A link that has been mailed is known to the database, so that a fast click
\* does not find it unknown (create_verification_token).
MailedIsStored == \A t \in mailed : owner[t] # None

\* At most one link of e is outstanding.
OneOutstanding(e) == \A s, t \in Outstanding(e) : s = t
=============================================================================
