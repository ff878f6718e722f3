-------------------------- MODULE DocumentPipeline --------------------------
(***************************************************************************)
(* Ingestion of candidate documents: the upload handler                     *)
(* (routes/candidates.py) and the background task it leaves behind           *)
(* (services/document_service.py, process_document).                         *)
(*                                                                         *)
(* A document's text is its number of chunks, 0 when it holds no readable   *)
(* text; the embedding of chunk i is the number i.  The parser and the      *)
(* embedding service may fail whenever they are called.  A fault is a       *)
(* database statement that raises without having taken effect; a crash ends *)
(* the server process and with it every task, which is kept nowhere else.   *)
(***************************************************************************)
EXTENDS Naturals, Sequences

CONSTANTS Documents,
          BatchSize,    \* EMBEDDING_BATCH_SIZE, 50 in the code
          MaxChunks,    \* bound: chunks of a document
          MaxFaults,    \* bound: database statements that raise
          MaxCrashes    \* bound: crashes of the server

ASSUME PipelineAssumption ==
    BatchSize \in Nat \ {0} /\ MaxChunks \in Nat /\ MaxFaults \in Nat
      /\ MaxCrashes \in Nat

VARIABLES
    status,    \* candidate_documents.status, "absent" before the upload
    chunks,    \* document_chunks rows, by the embedding each carries
    length,    \* chunks in the text of the document
    task,      \* where its upload or background task is
    embedded,  \* embeddings the task has collected
    faults, crashes

vars == <<status, chunks, length, task, embedded, faults, crashes>>

Alive == {"inserted", "queued", "extracting", "embedding", "failing"}

Init ==
    /\ status = [d \in Documents |-> "absent"]
    /\ chunks = [d \in Documents |-> << >>]
    /\ length = [d \in Documents |-> 0]
    /\ task = [d \in Documents |-> "none"]
    /\ embedded = [d \in Documents |-> << >>]
    /\ faults = 0
    /\ crashes = 0

Goto(d, from, to) ==
    /\ task[d] = from
    /\ task' = [task EXCEPT ![d] = to]

SetStatus(d, s) == status' = [status EXCEPT ![d] = s]

Fault == /\ faults < MaxFaults
         /\ faults' = faults + 1

\* The row is committed as pending; a file that is too large is refused first.
Upload(d, n) ==
    /\ Goto(d, "none", "inserted")
    /\ SetStatus(d, "pending")
    /\ length' = [length EXCEPT ![d] = n]
    /\ UNCHANGED <<chunks, embedded, faults, crashes>>

\* The row is read back and the task scheduled.
Schedule(d) ==
    /\ Goto(d, "inserted", "queued")
    /\ UNCHANGED <<status, chunks, length, embedded, faults, crashes>>

\* The refresh raises: the client gets a 500, the row stays and has no task.
ScheduleFault(d) ==
    /\ Goto(d, "inserted", "dead")
    /\ Fault
    /\ UNCHANGED <<status, chunks, length, embedded, crashes>>

Start(d) ==
    /\ Goto(d, "queued", "extracting")
    /\ SetStatus(d, "processing")
    /\ UNCHANGED <<chunks, length, embedded, faults, crashes>>

Extract(d) ==
    /\ \/ /\ length[d] = 0
          /\ Goto(d, "extracting", "done")
          /\ SetStatus(d, "failed")
       \/ /\ length[d] > 0
          /\ Goto(d, "extracting", "embedding")
          /\ status' = status
    /\ UNCHANGED <<chunks, length, embedded, faults, crashes>>

\* The parser raises, the embedding call raises, or it answers with the wrong
\* number of vectors.
ServiceError(d) ==
    /\ \/ Goto(d, "extracting", "failing")
       \/ Goto(d, "embedding", "failing") /\ Len(embedded[d]) < length[d]
    /\ UNCHANGED <<status, chunks, length, embedded, faults, crashes>>

\* Mutant: every batch is cut from the start of the text.
EmbedBatch_FirstAgain(d) ==
    /\ task[d] = "embedding"
    /\ Len(embedded[d]) < length[d]
    /\ LET size == IF length[d] - Len(embedded[d]) < BatchSize
                   THEN length[d] - Len(embedded[d]) ELSE BatchSize
       IN  embedded' = [embedded EXCEPT ![d] = @ \o [i \in 1..size |-> i]]
    /\ UNCHANGED <<status, chunks, length, task, faults, crashes>>

\* Mutant: each batch is committed as it arrives.
EmbedBatch_Commits(d) ==
    /\ task[d] = "embedding"
    /\ Len(embedded[d]) < length[d]
    /\ embedded' = [embedded EXCEPT ![d] = Append(@, Len(@) + 1)]
    /\ chunks' = [chunks EXCEPT ![d] = embedded'[d]]
    /\ UNCHANGED <<status, length, task, faults, crashes>>

\* One batch; the vectors come in the order of its texts.
EmbedBatch(d) ==
    /\ task[d] = "embedding"
    /\ Len(embedded[d]) < length[d]
    /\ LET from == Len(embedded[d])
           size == IF length[d] - from < BatchSize THEN length[d] - from
                                                   ELSE BatchSize
       IN  embedded' = [embedded EXCEPT ![d] = @ \o [i \in 1..size |-> from + i]]
    /\ UNCHANGED <<status, chunks, length, task, faults, crashes>>

\* Chunks and status in one commit.
Store(d) ==
    /\ Goto(d, "embedding", "done")
    /\ Len(embedded[d]) = length[d]
    /\ SetStatus(d, "completed")
    /\ chunks' = [chunks EXCEPT ![d] = embedded[d]]
    /\ UNCHANGED <<length, embedded, faults, crashes>>

\* A statement of the try block raises.
StatementFault(d) ==
    /\ \/ Goto(d, "queued", "failing")
       \/ Goto(d, "extracting", "failing")
       \/ Goto(d, "embedding", "failing") /\ Len(embedded[d]) = length[d]
    /\ Fault
    /\ UNCHANGED <<status, chunks, length, embedded, crashes>>

\* Mutant: the handler only rolls back.
HandleError_KeepsStatus(d) ==
    /\ Goto(d, "failing", "done")
    /\ UNCHANGED <<status, chunks, length, embedded, faults, crashes>>

\* The handler: roll back, then mark the document failed.
HandleError(d) ==
    /\ Goto(d, "failing", "done")
    /\ SetStatus(d, "failed")
    /\ UNCHANGED <<chunks, length, embedded, faults, crashes>>

\* A statement of the handler raises: the task ends, nobody runs it again.
HandlerFault(d) ==
    /\ Goto(d, "failing", "dead")
    /\ Fault
    /\ UNCHANGED <<status, chunks, length, embedded, crashes>>

Crash ==
    /\ crashes < MaxCrashes
    /\ \E d \in Documents : task[d] \in Alive
    /\ crashes' = crashes + 1
    /\ task' = [d \in Documents |-> IF task[d] \in Alive THEN "dead" ELSE task[d]]
    /\ UNCHANGED <<status, chunks, length, embedded, faults>>

Work(d) == Schedule(d) \/ Start(d) \/ Extract(d) \/ EmbedBatch(d) \/ Store(d)
             \/ HandleError(d)

Next ==
    \/ \E d \in Documents :
         \/ \E n \in 0..MaxChunks : Upload(d, n)
         \/ Work(d)
         \/ ScheduleFault(d) \/ ServiceError(d) \/ StatementFault(d)
         \/ HandlerFault(d)
    \/ Crash

Spec == Init /\ [][Next]_vars

\* The event loop runs every task that can go on.
FairSpec == Spec /\ \A d \in Documents : WF_vars(Work(d))

-----------------------------------------------------------------------------
(* Properties. *)

\* Every variable holds a value of its column or of its task.
TypeOK ==
    /\ status \in [Documents -> {"absent", "pending", "processing",
                                 "completed", "failed"}]
    /\ chunks \in [Documents -> Seq(1..MaxChunks)]
    /\ length \in [Documents -> 0..MaxChunks]
    /\ task \in [Documents -> Alive \cup {"none", "done", "dead"}]
    /\ embedded \in [Documents -> Seq(1..MaxChunks)]
    /\ faults \in 0..MaxFaults
    /\ crashes \in 0..MaxCrashes

\* Retrieval reads chunks without looking at the status
\* (interview_context_service.py): whatever failed or crashed, a document has
\* either no chunk, or all the chunks of its text, each once, in order and with
\* its own embedding, and then it is completed.
WholeOrNothing ==
    \A d \in Documents :
        IF status[d] = "completed"
        THEN length[d] > 0 /\ chunks[d] = [i \in 1..length[d] |-> i]
        ELSE chunks[d] = << >>

\* Documents go through the statuses in order, and completed or failed is final.
Lifecycle == INSTANCE DocumentLifecycle
FollowsLifecycle == Lifecycle!Spec

\* A document left pending or processing for ever has lost its task to a crash
\* or to a database fault: as long as a task lives it will settle its document.
EveryTaskSettles ==
    \A d \in Documents :
        task[d] \in Alive ~> \/ status[d] \in {"completed", "failed"}
                             \/ task[d] = "dead" /\ faults + crashes > 0
=============================================================================
