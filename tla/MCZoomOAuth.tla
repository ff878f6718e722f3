---------------------------- MODULE MCZoomOAuth ----------------------------
(* Bounded instances of ZoomOAuth and OAuthHistory for TLC. *)
EXTENDS OAuthHistory, TLC

Interchangeable == Permutations(Grants) \cup Permutations(Requests)
=============================================================================
