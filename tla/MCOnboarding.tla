---------------------------- MODULE MCOnboarding ----------------------------
(* Bounded instances of Onboarding and OnboardingHistory, and with them of    *)
(* AccessTokens, for TLC.                                                     *)
EXTENDS OnboardingHistory, TLC

CONSTANTS k1, u1

OneToken == k1 :> u1

Interchangeable ==
    Permutations(Requests) \cup Permutations(Rows) \cup Permutations(Values)
=============================================================================
