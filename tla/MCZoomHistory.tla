---------------------------- MODULE MCZoomHistory ----------------------------
(* Bounded instances of StreamHistory for TLC. *)
EXTENDS MCZoomStreams, StreamHistory
=============================================================================
