---------------------- MODULE DocumentPipeline_proofs ----------------------
(* Theorems about DocumentPipeline, for any documents, batch size and number *)
(* of chunks, faults and crashes.                                           *)
EXTENDS DocumentPipeline, TLAPS, SequenceTheorems

\* The first n embeddings of a document, in order.
Counted(n) == [i \in 1..n |-> i]

LEMMA CountedSeq ==
    ASSUME NEW n \in Nat, NEW m \in Nat, n <= m
    PROVE  Counted(n) \in Seq(1..m) /\ Len(Counted(n)) = n
<1>1. \A i \in 1..n : i \in 1..m
  OBVIOUS
<1> QED BY <1>1 DEF Counted

\* A batch that starts where the last one ended continues the count.
LEMMA CountedOn ==
    ASSUME NEW n \in Nat, NEW size \in Nat
    PROVE  Counted(n) \o [i \in 1..size |-> n + i] = Counted(n + size)
<1> DEFINE more == [i \in 1..size |-> n + i]
           all == Counted(n) \o more
<1>1. Counted(n) \in Seq(Int) /\ Len(Counted(n)) = n
  BY DEF Counted
<1>2. more \in Seq(Int) /\ Len(more) = size
  OBVIOUS
<1>3. all \in Seq(Int) /\ Len(all) = n + size
  BY <1>1, <1>2, ConcatProperties
<1>4. \A i \in 1..n + size : all[i] = IF i <= n THEN Counted(n)[i] ELSE more[i - n]
  BY <1>1, <1>2, ConcatProperties
<1> HIDE DEF all
<1>5. \A i \in 1..n + size : all[i] = i
  <2>1. \A i \in 1..n : Counted(n)[i] = i
    BY DEF Counted
  <2>2. \A i \in 1..size : more[i] = n + i
    OBVIOUS
  <2> HIDE DEF more
  <2> SUFFICES ASSUME NEW i \in 1..n + size PROVE all[i] = i
    OBVIOUS
  <2>3. i \in 1..n \/ i - n \in 1..size
    OBVIOUS
  <2>4. all[i] = IF i <= n THEN Counted(n)[i] ELSE more[i - n]
    BY <1>4
  <2>5. CASE i <= n
    BY <2>1, <2>3, <2>4, <2>5
  <2>6. CASE i > n
    <3>1. i - n \in 1..size /\ all[i] = more[i - n]
      BY <2>3, <2>4, <2>6
    <3>2. more[i - n] = n + (i - n)
      BY <2>2, <3>1
    <3> QED BY <3>1, <3>2
  <2> QED BY <2>5, <2>6
<1>6. Counted(n + size) \in Seq(Int) /\ Len(Counted(n + size)) = n + size
  BY DEF Counted
<1>7. \A i \in 1..n + size : Counted(n + size)[i] = i
  BY DEF Counted
<1>8. all = Counted(n + size)
  BY <1>3, <1>5, <1>6, <1>7, SeqEqual
<1> QED BY <1>8 DEF all

-----------------------------------------------------------------------------
\* The statuses a document may have while its task is there, dead tasks aside.
Shown(t) ==
    CASE t = "none" -> {"absent"}
      [] t \in {"inserted", "queued"} -> {"pending"}
      [] t \in {"extracting", "embedding"} -> {"processing"}
      [] t = "failing" -> {"pending", "processing"}
      [] t = "done" -> {"completed", "failed"}
      [] OTHER -> {"pending", "processing"}

DocumentInv ==
    \A d \in Documents :
        /\ status[d] \in Shown(task[d])
        /\ task[d] = "none" => length[d] = 0
        /\ task[d] = "embedding" => length[d] > 0
        /\ Len(embedded[d]) <= length[d]
        /\ embedded[d] = Counted(Len(embedded[d]))

PipelineInv == TypeOK /\ DocumentInv /\ WholeOrNothing

LEMMA InitPipeline == Init => PipelineInv
<1> SUFFICES ASSUME Init PROVE PipelineInv
  OBVIOUS
<1>1. << >> \in Seq(1..MaxChunks) /\ << >> = Counted(0) /\ Len(<< >>) = 0
  BY DEF Counted
<1>2. TypeOK
  BY <1>1, PipelineAssumption DEF Init, TypeOK
<1>3. DocumentInv
  <2> SUFFICES ASSUME NEW d \in Documents
               PROVE  /\ status[d] \in Shown(task[d])
                      /\ task[d] = "none" => length[d] = 0
                      /\ task[d] = "embedding" => length[d] > 0
                      /\ Len(embedded[d]) <= length[d]
                      /\ embedded[d] = Counted(Len(embedded[d]))
    BY DEF DocumentInv
  <2>1. status[d] \in Shown(task[d]) /\ task[d] = "none" /\ length[d] = 0
    BY DEF Init, Shown
  <2>2. embedded[d] = << >>
    BY DEF Init
  <2> QED BY <2>1, <2>2, <1>1
<1>4. WholeOrNothing
  BY DEF Init, WholeOrNothing
<1> QED BY <1>2, <1>3, <1>4 DEF PipelineInv

\* A step that leaves rows and embeddings alone and moves one document on to a
\* status its task may show.
LEMMA MovePipeline ==
    ASSUME PipelineInv, NEW d \in Documents,
           NEW to \in Alive \cup {"none", "done", "dead"}, NEW s,
           task' = [task EXCEPT ![d] = to],
           status' = [status EXCEPT ![d] = s],
           s \in Shown(to), s # "completed", status[d] # "completed",
           to # "none", to = "embedding" => length[d] > 0,
           UNCHANGED <<chunks, length, embedded>>,
           faults' \in 0..MaxFaults, crashes' \in 0..MaxCrashes
    PROVE  PipelineInv'
<1>1. s \in {"absent", "pending", "processing", "completed", "failed"}
  BY DEF Shown
<1>2. TypeOK'
  BY <1>1 DEF PipelineInv, TypeOK
<1>3. ASSUME NEW e \in Documents
      PROVE  \/ e = d /\ task'[e] = to /\ status'[e] = s
             \/ e # d /\ task'[e] = task[e] /\ status'[e] = status[e]
  BY DEF PipelineInv, TypeOK
<1>4. DocumentInv'
  BY <1>3 DEF PipelineInv, DocumentInv
<1>5. WholeOrNothing'
  BY <1>3 DEF PipelineInv, WholeOrNothing
<1> QED BY <1>2, <1>4, <1>5 DEF PipelineInv

\* The length of a text is known with its upload, when nothing is embedded yet.
LEMMA UploadPipeline ==
    ASSUME PipelineInv, NEW d \in Documents, NEW n \in 0..MaxChunks, Upload(d, n)
    PROVE  PipelineInv'
<1>1. /\ task[d] = "none" /\ task' = [task EXCEPT ![d] = "inserted"]
      /\ status' = [status EXCEPT ![d] = "pending"]
      /\ length' = [length EXCEPT ![d] = n]
      /\ UNCHANGED <<chunks, embedded, faults, crashes>>
  BY DEF Upload, Goto, SetStatus
<1>2. status[d] = "absent" /\ Len(embedded[d]) <= 0
  BY <1>1 DEF PipelineInv, DocumentInv, Shown
<1>3. TypeOK'
  BY <1>1 DEF PipelineInv, TypeOK, Alive
<1>4. ASSUME NEW e \in Documents
      PROVE  \/ /\ e = d /\ task'[e] = "inserted" /\ status'[e] = "pending"
                /\ length'[e] = n
             \/ /\ e # d /\ task'[e] = task[e] /\ status'[e] = status[e]
                /\ length'[e] = length[e]
  BY <1>1 DEF PipelineInv, TypeOK
<1>5. Len(embedded[d]) \in Nat
  BY DEF PipelineInv, TypeOK
<1>6. DocumentInv'
  <2> SUFFICES ASSUME NEW e \in Documents
               PROVE  /\ status'[e] \in Shown(task'[e])
                      /\ task'[e] = "none" => length'[e] = 0
                      /\ task'[e] = "embedding" => length'[e] > 0
                      /\ Len(embedded[e]) <= length'[e]
                      /\ embedded[e] = Counted(Len(embedded[e]))
    BY <1>1 DEF DocumentInv
  <2>1. CASE e = d
    BY <2>1, <1>2, <1>4, <1>5 DEF PipelineInv, DocumentInv, Shown
  <2>2. CASE e # d
    BY <2>2, <1>4 DEF PipelineInv, DocumentInv
  <2> QED BY <2>1, <2>2
<1>7. WholeOrNothing'
  BY <1>1, <1>2, <1>4 DEF PipelineInv, WholeOrNothing
<1> QED BY <1>3, <1>6, <1>7 DEF PipelineInv

\* Every action that touches neither the chunks nor the embeddings.
LEMMA TaskMoves ==
    ASSUME PipelineInv, NEW d \in Documents,
           \/ Schedule(d) \/ ScheduleFault(d) \/ Start(d) \/ Extract(d)
           \/ ServiceError(d) \/ StatementFault(d) \/ HandleError(d) \/ HandlerFault(d)
    PROVE  PipelineInv'
<1>1. /\ status = [status EXCEPT ![d] = status[d]]
      /\ length[d] \in Nat /\ status[d] \in Shown(task[d])
      /\ faults \in 0..MaxFaults /\ crashes \in 0..MaxCrashes
  BY DEF PipelineInv, TypeOK, DocumentInv
<1>2. Fault => faults' \in 0..MaxFaults
  BY PipelineAssumption, <1>1 DEF Fault
<1>3. CASE Schedule(d)
  BY <1>1, <1>3, MovePipeline DEF Schedule, Goto, Shown, Alive
<1>4. CASE ScheduleFault(d)
  BY <1>1, <1>2, <1>4, MovePipeline DEF ScheduleFault, Goto, Shown, Alive
<1>5. CASE Start(d)
  BY <1>1, <1>5, MovePipeline DEF Start, Goto, SetStatus, Shown, Alive
<1>6. CASE Extract(d)
  <2>1. CASE length[d] = 0
    BY <1>1, <1>6, <2>1, MovePipeline DEF Extract, Goto, SetStatus, Shown, Alive
  <2>2. CASE length[d] > 0
    BY <1>1, <1>6, <2>2, MovePipeline DEF Extract, Goto, Shown, Alive
  <2> QED BY <1>1, <2>1, <2>2
<1>7. CASE ServiceError(d)
  BY <1>1, <1>7, MovePipeline DEF ServiceError, Goto, Shown, Alive
<1>8. CASE StatementFault(d)
  BY <1>1, <1>2, <1>8, MovePipeline DEF StatementFault, Goto, Shown, Alive
<1>9. CASE HandleError(d)
  BY <1>1, <1>9, MovePipeline DEF HandleError, Goto, SetStatus, Shown, Alive
<1>10. CASE HandlerFault(d)
  BY <1>1, <1>2, <1>10, MovePipeline DEF HandlerFault, Goto, Shown, Alive
<1> QED BY <1>3, <1>4, <1>5, <1>6, <1>7, <1>8, <1>9, <1>10

\* The next batch goes on where the count of embeddings stands.
LEMMA EmbedPipeline ==
    ASSUME PipelineInv, NEW d \in Documents, EmbedBatch(d)
    PROVE  PipelineInv'
<1> DEFINE from == Len(embedded[d])
           size == IF length[d] - from < BatchSize THEN length[d] - from ELSE BatchSize
           more == embedded[d] \o [i \in 1..size |-> from + i]
<1>1. /\ from \in Nat /\ length[d] \in Nat /\ from < length[d] /\ length[d] <= MaxChunks
      /\ embedded[d] = Counted(from) /\ MaxChunks \in Nat
  BY PipelineAssumption DEF EmbedBatch, PipelineInv, TypeOK, DocumentInv
<1>2. size \in Nat /\ from + size <= length[d]
  BY <1>1, PipelineAssumption
<1>3. /\ embedded' = [embedded EXCEPT ![d] = more]
      /\ UNCHANGED <<status, chunks, length, task, faults, crashes>>
  BY DEF EmbedBatch
<1> HIDE DEF from, size
<1>4. more = Counted(from + size)
  BY <1>1, <1>2, CountedOn
<1>5. more \in Seq(1..MaxChunks) /\ Len(more) = from + size
  <2>1. from + size \in Nat /\ from + size <= MaxChunks
    BY <1>1, <1>2
  <2> QED BY <2>1, <1>1, <1>4, CountedSeq
<1> HIDE DEF more
<1>6. TypeOK'
  BY <1>3, <1>5 DEF PipelineInv, TypeOK
<1>7. DocumentInv'
  <2>1. embedded'[d] = more /\ \A e \in Documents \ {d} : embedded'[e] = embedded[e]
    BY <1>3 DEF PipelineInv, TypeOK
  <2>2. Len(more) <= length[d] /\ more = Counted(Len(more))
    BY <1>2, <1>4, <1>5
  <2> QED BY <1>3, <2>1, <2>2 DEF PipelineInv, DocumentInv
<1>8. WholeOrNothing'
  BY <1>3 DEF PipelineInv, WholeOrNothing
<1> QED BY <1>6, <1>7, <1>8 DEF PipelineInv

LEMMA StorePipeline ==
    ASSUME PipelineInv, NEW d \in Documents, Store(d)
    PROVE  PipelineInv'
<1>1. /\ task[d] = "embedding" /\ task' = [task EXCEPT ![d] = "done"]
      /\ status' = [status EXCEPT ![d] = "completed"]
      /\ chunks' = [chunks EXCEPT ![d] = embedded[d]]
      /\ Len(embedded[d]) = length[d]
      /\ UNCHANGED <<length, embedded, faults, crashes>>
  BY DEF Store, Goto, SetStatus
<1>2. length[d] > 0 /\ embedded[d] = [i \in 1..length[d] |-> i]
  BY <1>1 DEF PipelineInv, DocumentInv, Counted
<1>3. TypeOK'
  BY <1>1 DEF PipelineInv, TypeOK
<1>4. ASSUME NEW e \in Documents
      PROVE  \/ /\ e = d /\ task'[e] = "done" /\ status'[e] = "completed"
                /\ chunks'[e] = embedded[d]
             \/ /\ e # d /\ task'[e] = task[e] /\ status'[e] = status[e]
                /\ chunks'[e] = chunks[e]
  BY <1>1 DEF PipelineInv, TypeOK
<1>5. DocumentInv'
  BY <1>1, <1>4 DEF PipelineInv, DocumentInv, Shown
<1>6. WholeOrNothing'
  BY <1>1, <1>2, <1>4 DEF PipelineInv, WholeOrNothing
<1> QED BY <1>3, <1>5, <1>6 DEF PipelineInv

LEMMA CrashPipeline ==
    ASSUME PipelineInv, Crash
    PROVE  PipelineInv'
<1>1. /\ \A d \in Documents :
           (task'[d] = task[d]) \/ (task[d] \in Alive /\ task'[d] = "dead")
      /\ UNCHANGED <<status, chunks, length, embedded>>
  BY DEF Crash
<1>2. TypeOK'
  <2>1. crashes' \in 0..MaxCrashes
    BY PipelineAssumption DEF Crash, PipelineInv, TypeOK
  <2>2. task' \in [Documents -> Alive \cup {"none", "done", "dead"}]
    BY DEF Crash, PipelineInv, TypeOK
  <2> QED BY <1>1, <2>1, <2>2 DEF Crash, PipelineInv, TypeOK
<1>3. DocumentInv'
  BY <1>1 DEF PipelineInv, DocumentInv, Shown, Alive
<1>4. WholeOrNothing'
  BY <1>1 DEF PipelineInv, WholeOrNothing
<1> QED BY <1>2, <1>3, <1>4 DEF PipelineInv

LEMMA NextPipeline ==
    ASSUME PipelineInv, [Next]_vars
    PROVE  PipelineInv'
<1>1. ASSUME NEW d \in Documents, NEW n \in 0..MaxChunks, Upload(d, n)
      PROVE  PipelineInv'
  BY <1>1, UploadPipeline
<1>2. ASSUME NEW d \in Documents,
             \/ Schedule(d) \/ ScheduleFault(d) \/ Start(d) \/ Extract(d)
             \/ ServiceError(d) \/ StatementFault(d) \/ HandleError(d) \/ HandlerFault(d)
      PROVE  PipelineInv'
  BY <1>2, TaskMoves
<1>3. ASSUME NEW d \in Documents, EmbedBatch(d) PROVE PipelineInv'
  BY <1>3, EmbedPipeline
<1>4. ASSUME NEW d \in Documents, Store(d) PROVE PipelineInv'
  BY <1>4, StorePipeline
<1>5. CASE Crash
  BY <1>5, CrashPipeline
<1>6. CASE UNCHANGED vars
  BY <1>6 DEF vars, PipelineInv, TypeOK, DocumentInv, WholeOrNothing
<1> QED BY <1>1, <1>2, <1>3, <1>4, <1>5, <1>6 DEF Next, Work

\* The rows, the tasks and the counters keep their types
\* (models/document.py, process_document).
THEOREM TypeCorrect == Spec => []TypeOK
<1>1. PipelineInv => TypeOK
  BY DEF PipelineInv
<1> QED BY InitPipeline, NextPipeline, <1>1, PTL DEF Spec

\* Whatever fails, and whenever the server crashes, a document shows no chunk or
\* all of them, each with its own embedding (process_document).
THEOREM ChunksAreWhole == Spec => []WholeOrNothing
<1>1. PipelineInv => WholeOrNothing
  BY DEF PipelineInv
<1> QED BY InitPipeline, NextPipeline, <1>1, PTL DEF Spec

-----------------------------------------------------------------------------
(* DocumentPipeline implements DocumentLifecycle.                            *)

LEMMA UploadSubmits ==
    ASSUME PipelineInv, NEW d \in Documents, NEW n \in 0..MaxChunks, Upload(d, n)
    PROVE  Lifecycle!Next
<1>1. status[d] = "absent"
  BY DEF Upload, Goto, PipelineInv, DocumentInv, Shown
<1> QED BY <1>1 DEF Upload, SetStatus, Lifecycle!Next, Lifecycle!Submit, Lifecycle!Move

LEMMA StoreCompletes ==
    ASSUME PipelineInv, NEW d \in Documents, Store(d)
    PROVE  Lifecycle!Next
<1>1. /\ status[d] = "processing" /\ length[d] \in 1..MaxChunks
      /\ embedded[d] = [i \in 1..length[d] |-> i]
  <2>1. task[d] = "embedding" /\ Len(embedded[d]) = length[d]
    BY DEF Store, Goto
  <2>2. status[d] = "processing" /\ length[d] > 0 /\ embedded[d] = Counted(length[d])
    BY <2>1 DEF PipelineInv, DocumentInv, Shown
  <2>3. length[d] \in 0..MaxChunks
    BY DEF PipelineInv, TypeOK
  <2> QED BY <2>2, <2>3, PipelineAssumption DEF Counted
<1>2. Lifecycle!Complete(d, length[d])
  BY <1>1 DEF Store, SetStatus, Lifecycle!Complete, Lifecycle!Move
<1> QED BY <1>1, <1>2 DEF Lifecycle!Next

LEMMA StepRefines ==
    ASSUME PipelineInv, [Next]_vars
    PROVE  [Lifecycle!Next]_<<status, chunks>>
<1>1. ASSUME NEW d \in Documents, NEW n \in 0..MaxChunks, Upload(d, n)
      PROVE  Lifecycle!Next
  BY <1>1, UploadSubmits
<1>2. ASSUME NEW d \in Documents, Start(d)
      PROVE  Lifecycle!Next
  <2>1. status[d] = "pending"
    BY <1>2 DEF Start, Goto, PipelineInv, DocumentInv, Shown
  <2> QED BY <1>2, <2>1 DEF Start, SetStatus, Lifecycle!Next, Lifecycle!Start, Lifecycle!Move
<1>3. ASSUME NEW d \in Documents, Extract(d)
      PROVE  Lifecycle!Next \/ UNCHANGED <<status, chunks>>
  <2>1. status[d] = "processing"
    BY <1>3 DEF Extract, Goto, PipelineInv, DocumentInv, Shown
  <2> QED BY <1>3, <2>1 DEF Extract, SetStatus, Lifecycle!Next, Lifecycle!Fail, Lifecycle!Move
<1>4. ASSUME NEW d \in Documents, Store(d)
      PROVE  Lifecycle!Next
  BY <1>4, StoreCompletes
<1>5. ASSUME NEW d \in Documents, HandleError(d)
      PROVE  Lifecycle!Next
  <2>1. status[d] \in {"pending", "processing"}
    BY <1>5 DEF HandleError, Goto, PipelineInv, DocumentInv, Shown
  <2> QED BY <1>5, <2>1
          DEF HandleError, SetStatus, Lifecycle!Next, Lifecycle!Fail, Lifecycle!Move
<1>6. ASSUME NEW d \in Documents,
             \/ Schedule(d) \/ EmbedBatch(d) \/ ScheduleFault(d) \/ ServiceError(d)
             \/ StatementFault(d) \/ HandlerFault(d)
      PROVE  UNCHANGED <<status, chunks>>
  BY <1>6 DEF Schedule, EmbedBatch, ScheduleFault, ServiceError, StatementFault, HandlerFault
<1>7. CASE Crash
  BY <1>7 DEF Crash
<1>8. CASE UNCHANGED vars
  BY <1>8 DEF vars
<1> QED BY <1>1, <1>2, <1>3, <1>4, <1>5, <1>6, <1>7, <1>8 DEF Next, Work

\* Readers of a document's status see it go pending, processing, and then
\* completed or failed for good, with its chunks all at once, whatever the
\* services, the database and the server do (models/document.py).
THEOREM ReadersSeeTheLifecycle == Spec => FollowsLifecycle
<1>1. Init => Lifecycle!Init
  BY DEF Init, Lifecycle!Init
<1> QED BY <1>1, InitPipeline, NextPipeline, StepRefines, PTL
        DEF Spec, FollowsLifecycle, Lifecycle!Spec
=============================================================================
