--------------------------- MODULE MCAuthSessions ---------------------------
(* Bounded instances of AuthSessions and SessionHistory for TLC. *)
EXTENDS SessionHistory, TLC

\* Bound: runs in which a token or a link expires have at most three of them.
FewOnceExpired ==
    expired # {} =>
        Cardinality(Issued) + Cardinality({p \in ResetTokens : resetOwner[p] # None}) <= 3

BoundedNext == HistoryNext /\ FewOnceExpired'

BoundedSpec == HistoryInit /\ [][BoundedNext]_<<vars, raced>>

\* Identifiers are fresh random values and requests are alike: any of them can
\* be exchanged.
Interchangeable ==
    Permutations(Users) \cup Permutations(Tokens)
        \cup Permutations(ResetTokens) \cup Permutations(Requests)
        \cup Permutations(Passwords)
=============================================================================
