------------------------ MODULE MCTranscriptSequence ------------------------
(* Bounded instances of TranscriptSequence for TLC. *)
EXTENDS TranscriptSequence, TLC

\* Turns, sessions and processes are alike.
Interchangeable ==
    Permutations(Turns) \cup Permutations(Sessions) \cup Permutations(Processes)
=============================================================================
