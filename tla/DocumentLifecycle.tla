------------------------- MODULE DocumentLifecycle -------------------------
(***************************************************************************)
(* What ingestion promises to the readers of a candidate's documents        *)
(* (models/document.py, DocumentStatus): a document is pending, then        *)
(* processing, then completed or failed for good, and its chunks appear all  *)
(* together with the status completed, each with its own embedding.          *)
(***************************************************************************)
EXTENDS Naturals, Sequences

CONSTANTS Documents, MaxChunks

VARIABLES status,  \* candidate_documents.status, "absent" before the upload
          chunks   \* document_chunks: for each chunk, the text it embeds

Init == /\ status = [d \in Documents |-> "absent"]
        /\ chunks = [d \in Documents |-> << >>]

Move(d, from, to) ==
    /\ status[d] \in from
    /\ status' = [status EXCEPT ![d] = to]

Submit(d) == Move(d, {"absent"}, "pending") /\ UNCHANGED chunks

Start(d) == Move(d, {"pending"}, "processing") /\ UNCHANGED chunks

Fail(d) == Move(d, {"pending", "processing"}, "failed") /\ UNCHANGED chunks

Complete(d, n) ==
    /\ Move(d, {"processing"}, "completed")
    /\ chunks' = [chunks EXCEPT ![d] = [i \in 1..n |-> i]]

Next == \E d \in Documents :
          \/ Submit(d) \/ Start(d) \/ Fail(d)
          \/ \E n \in 1..MaxChunks : Complete(d, n)

Spec == Init /\ [][Next]_<<status, chunks>>
=============================================================================
