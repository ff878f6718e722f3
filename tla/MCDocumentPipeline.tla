------------------------- MODULE MCDocumentPipeline -------------------------
(* Bounded instances of DocumentPipeline for TLC. *)
EXTENDS DocumentPipeline, TLC

\* Documents are alike.
Interchangeable == Permutations(Documents)
=============================================================================
