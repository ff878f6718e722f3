--------------------------- MODULE AtomicSessions ---------------------------
(***************************************************************************)
(* What the requests of the session store promise (services/auth.py),       *)
(* whatever they overlap with: each takes effect at one moment, on the rows *)
(* of one user, with all its writes together; a hash is issued once, and    *)
(* what is revoked or used is so for good.                                  *)
(*                                                                         *)
(* It is silent on which earlier tokens a reset or a new link retires, and  *)
(* on whether the token presented was still good: that depends on what      *)
(* overlaps.                                                                *)
(***************************************************************************)
CONSTANTS Users, Tokens, ResetTokens, Passwords, None

VARIABLES password, owner, revoked, sessions, resetOwner, used

vars == <<password, owner, revoked, sessions, resetOwner, used>>

TokensOf(u) == {t \in Tokens : owner[t] = u}

LinksOf(u) == {p \in ResetTokens : resetOwner[p] = u}

Init ==
    /\ password \in [Users -> Passwords]
    /\ owner = [t \in Tokens |-> None]
    /\ revoked = {}
    /\ sessions = {}
    /\ resetOwner = [p \in ResetTokens |-> None]
    /\ used = {}

Login(u, t) ==
    /\ owner[t] = None
    /\ owner' = [owner EXCEPT ![t] = u]
    /\ sessions' = sessions \cup {t}
    /\ UNCHANGED <<password, revoked, resetOwner, used>>

\* The successor takes over the session, and the token is revoked with it.
Refresh(u, old, t) ==
    /\ old \in TokensOf(u) /\ owner[t] = None
    /\ owner' = [owner EXCEPT ![t] = u]
    /\ revoked' = revoked \cup {old}
    /\ sessions' = (sessions \ {old}) \cup {t}
    /\ UNCHANGED <<password, resetOwner, used>>

Logout(u, t) ==
    /\ t \in TokensOf(u)
    /\ revoked' = revoked \cup {t}
    /\ sessions' = sessions \ {t}
    /\ UNCHANGED <<password, owner, resetOwner, used>>

\* The new link comes with the retirement of the earlier ones L.
Forgot(u, p, L) ==
    /\ resetOwner[p] = None
    /\ L \subseteq LinksOf(u)
    /\ resetOwner' = [resetOwner EXCEPT ![p] = u]
    /\ used' = used \cup L
    /\ UNCHANGED <<password, owner, revoked, sessions>>

\* The password comes with the end of the tokens T and of the sessions S, those
\* of T among them.
Reset(u, p, new, T, S) ==
    /\ p \in LinksOf(u)
    /\ T \cup S \subseteq TokensOf(u)
    /\ T \cap sessions \subseteq S
    /\ password' = [password EXCEPT ![u] = new]
    /\ used' = used \cup {p}
    /\ revoked' = revoked \cup T
    /\ sessions' = sessions \ S
    /\ UNCHANGED <<owner, resetOwner>>

Next ==
    \E u \in Users :
        \/ \E t \in Tokens : Login(u, t) \/ Logout(u, t)
        \/ \E old, t \in Tokens : Refresh(u, old, t)
        \/ \E p \in ResetTokens :
              \/ \E L \in SUBSET ResetTokens : Forgot(u, p, L)
              \/ \E new \in Passwords, T, S \in SUBSET Tokens :
                    Reset(u, p, new, T, S)

Spec == Init /\ [][Next]_vars
=============================================================================
