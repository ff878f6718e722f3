--------------------------- MODULE AtomicAccounts ---------------------------
(***************************************************************************)
(* What signup, resend, verification and the Google callback promise        *)
(* (services/auth.py, services/verification_service.py,                     *)
(* services/google_oauth.py), whatever they overlap with: each takes effect *)
(* at one moment, on one account, with all its writes together.  An account *)
(* is made once; with a password it comes with its first link, from Google  *)
(* it comes verified and linked.  A link is spent by its own account: in    *)
(* exchange for another one, or to verify it.                               *)
(***************************************************************************)
CONSTANTS Emails, GoogleIds, EmailOf, Tokens, None

VARIABLES account, verified, links, owner, used

vars == <<account, verified, links, owner, used>>

TokensOf(e) == {t \in Tokens : owner[t] = e}

Init ==
    /\ account = [e \in Emails |-> "none"]
    /\ verified = {}
    /\ links = {}
    /\ owner = [t \in Tokens |-> None]
    /\ used = {}

Issue(e, t) ==
    /\ owner[t] = None
    /\ owner' = [owner EXCEPT ![t] = e]

SignUp(e, t) ==
    /\ account[e] = "none"
    /\ account' = [account EXCEPT ![e] = "password"]
    /\ Issue(e, t)
    /\ UNCHANGED <<verified, links, used>>

Resend(e, t, R) ==
    /\ account[e] = "password"
    /\ R \subseteq TokensOf(e)
    /\ used' = used \cup R
    /\ Issue(e, t)
    /\ UNCHANGED <<account, verified, links>>

Verify(e, t) ==
    /\ account[e] = "password"
    /\ t \in TokensOf(e)
    /\ used' = used \cup {t}
    /\ verified' = verified \cup {e}
    /\ UNCHANGED <<account, links, owner>>

Google(g) ==
    LET e == EmailOf[g] IN
    /\ account[e] = "none"
    /\ account' = [account EXCEPT ![e] = "google"]
    /\ verified' = verified \cup {e}
    /\ links' = links \cup {<<g, e>>}
    /\ UNCHANGED <<owner, used>>

Next ==
    \/ \E e \in Emails, t \in Tokens :
         \/ SignUp(e, t)
         \/ \E R \in SUBSET Tokens : Resend(e, t, R)
         \/ Verify(e, t)
    \/ \E g \in GoogleIds : Google(g)

Spec == Init /\ [][Next]_vars
=============================================================================
