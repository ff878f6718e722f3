----------------------------- MODULE MCAccounts -----------------------------
(* Bounded instances of Accounts and AccountHistory for TLC. *)
EXTENDS AccountHistory, TLC

CONSTANTS e1, e2, g1, g2

\* Two Google accounts that have had the same email, which may also sign up.
OneEmail == [g \in GoogleIds |-> e1]

\* Tokens, requests and the two Google accounts are alike.
Interchangeable ==
    Permutations(Tokens) \cup Permutations(Requests) \cup Permutations(GoogleIds)
=============================================================================
