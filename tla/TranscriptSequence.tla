------------------------- MODULE TranscriptSequence -------------------------
(***************************************************************************)
(* How add_transcript_turn gives a turn its place (sdk/repositories.py):    *)
(* under a lock of its own process for the session, read max + 1, insert,   *)
(* and start again, three times at most, when the unique constraint on      *)
(* (session_id, sequence_no) says another process was first.                *)
(*                                                                         *)
(* A turn is one execution of a callback of a Zoom stream                   *)
(* (providers/zoom_rtms/manager.py, on_transcript and on_audio), run by one *)
(* of the pool threads of one server process.  The database may be          *)
(* PostgreSQL, SQLite or MySQL: where reads repeat (MySQL's default) the    *)
(* first max is read from the snapshot that get_session began, before the   *)
(* lock was taken; a rollback gives the next read a new one.                *)
(***************************************************************************)
EXTENDS Naturals, Sequences, FiniteSets, FiniteSetsExt

CONSTANTS Sessions, Turns, Processes,
          RepeatableReads,   \* the database repeats reads in a transaction
          MaxAttempts,       \* 3 in the code
          None

ASSUME SequenceAssumption ==
    /\ RepeatableReads \in BOOLEAN
    /\ MaxAttempts \in Nat \ {0}
    /\ None \notin Sessions \cup Processes

VARIABLES
    rows,      \* sdk_transcript_turns of each session: sequence_no -> turn
    pc,        \* where each turn is
    session,   \* the session it belongs to
    process,   \* the process it runs in
    seenTop,   \* the highest sequence_no in the snapshot it began with
    number,    \* the sequence_no it is about to insert
    conflicts  \* its inserts that were refused

vars == <<rows, pc, session, process, seenTop, number, conflicts>>

\* Mutant: one number is left out.
Top_SkipsOne(s) == IF DOMAIN rows[s] = {} THEN 0 ELSE Max(DOMAIN rows[s]) + 1

\* coalesce(max(sequence_no), 0)
Top(s) == IF DOMAIN rows[s] = {} THEN 0 ELSE Max(DOMAIN rows[s])

Inside(t) == pc[t] \in {"locked", "numbered"}

\* Mutant: the lock is not shared by the threads of a process.
LockFree_Always(t) == TRUE

\* No thread of the process of t is inside the session's lock.
LockFree(t) ==
    \A q \in Turns :
        session[q] = session[t] /\ process[q] = process[t] => ~ Inside(q)

Init ==
    /\ rows = [s \in Sessions |-> << >>]
    /\ pc = [t \in Turns |-> "new"]
    /\ session = [t \in Turns |-> None]
    /\ process = [t \in Turns |-> None]
    /\ seenTop = [t \in Turns |-> 0]
    /\ number = [t \in Turns |-> 0]
    /\ conflicts = [t \in Turns |-> 0]

\* The callback fires in a thread of process p and fetches its session.
Begin(t, s, p) ==
    /\ pc[t] = "new"
    /\ pc' = [pc EXCEPT ![t] = "begun"]
    /\ session' = [session EXCEPT ![t] = s]
    /\ process' = [process EXCEPT ![t] = p]
    /\ seenTop' = [seenTop EXCEPT ![t] = IF RepeatableReads THEN Top(s) ELSE 0]
    /\ UNCHANGED <<rows, number, conflicts>>

Lock(t) ==
    /\ pc[t] = "begun"
    /\ LockFree(t)
    /\ pc' = [pc EXCEPT ![t] = "locked"]
    /\ UNCHANGED <<rows, session, process, seenTop, number, conflicts>>

NextSequence(t) ==
    /\ pc[t] = "locked"
    /\ number' = [number EXCEPT ![t] =
                    IF RepeatableReads /\ conflicts[t] = 0
                    THEN seenTop[t] + 1
                    ELSE Top(session[t]) + 1]
    /\ pc' = [pc EXCEPT ![t] = "numbered"]
    /\ UNCHANGED <<rows, session, process, seenTop, conflicts>>

\* Mutant: no unique constraint on (session_id, sequence_no).
Insert_Overwrites(t) ==
    /\ pc[t] = "numbered"
    /\ rows' = [rows EXCEPT ![session[t]] =
                  [n \in DOMAIN @ \cup {number[t]} |->
                     IF n = number[t] THEN t ELSE @[n]]]
    /\ pc' = [pc EXCEPT ![t] = "stored"]
    /\ UNCHANGED <<session, process, seenTop, number, conflicts>>

\* The row is committed and the lock released.
Insert(t) ==
    /\ pc[t] = "numbered"
    /\ number[t] \notin DOMAIN rows[session[t]]
    /\ rows' = [rows EXCEPT ![session[t]] =
                  [n \in DOMAIN @ \cup {number[t]} |->
                     IF n = number[t] THEN t ELSE @[n]]]
    /\ pc' = [pc EXCEPT ![t] = "stored"]
    /\ UNCHANGED <<session, process, seenTop, number, conflicts>>

\* Mutant: the number is not read again and the attempt is not counted.
Conflict_SameNumber(t) ==
    /\ pc[t] = "numbered"
    /\ number[t] \in DOMAIN rows[session[t]]
    /\ UNCHANGED vars

\* IntegrityError: roll back, then try again or raise RuntimeError; either way
\* the lock is held no longer than the call.
Conflict(t) ==
    /\ pc[t] = "numbered"
    /\ number[t] \in DOMAIN rows[session[t]]
    /\ conflicts' = [conflicts EXCEPT ![t] = @ + 1]
    /\ pc' = [pc EXCEPT ![t] = IF conflicts[t] + 1 < MaxAttempts
                               THEN "locked" ELSE "gave_up"]
    /\ UNCHANGED <<rows, session, process, seenTop, number>>

\* Any other database error leaves the with statement and ends the callback.
Error(t) ==
    /\ pc[t] = "begun" \/ Inside(t)
    /\ pc' = [pc EXCEPT ![t] = "lost"]
    /\ UNCHANGED <<rows, session, process, seenTop, number, conflicts>>

\* The process dies: its threads and their locks with it, the rows stay.
Crash(p) ==
    /\ \E t \in Turns : process[t] = p /\ (pc[t] = "begun" \/ Inside(t))
    /\ pc' = [t \in Turns |->
                IF process[t] = p /\ (pc[t] = "begun" \/ Inside(t))
                THEN "lost" ELSE pc[t]]
    /\ UNCHANGED <<rows, session, process, seenTop, number, conflicts>>

Proceed(t) == Lock(t) \/ NextSequence(t) \/ Insert(t) \/ Conflict(t)

Next ==
    \/ \E t \in Turns :
         \/ \E s \in Sessions, p \in Processes : Begin(t, s, p)
         \/ Proceed(t)
         \/ Error(t)
    \/ \E p \in Processes : Crash(p)

Spec == Init /\ [][Next]_vars

\* Threads run; a lock that keeps becoming free is not refused for ever.
FairSpec == Spec /\ \A t \in Turns : SF_vars(Proceed(t))

-----------------------------------------------------------------------------
(* Properties. *)

\* Every variable holds a value of its column or of its callback.
TypeOK ==
    /\ rows \in [Sessions -> Seq(Turns)]
    /\ pc \in [Turns -> {"new", "begun", "locked", "numbered", "stored",
                         "gave_up", "lost"}]
    /\ session \in [Turns -> Sessions \cup {None}]
    /\ process \in [Turns -> Processes \cup {None}]
    /\ seenTop \in [Turns -> Nat]
    /\ number \in [Turns -> Nat]
    /\ conflicts \in [Turns -> 0..MaxAttempts]

\* A transcript has no gap: the numbers of a session are 1, 2, ... up to the
\* number of its turns, whichever processes wrote them and whatever was retried.
Gapless == \A s \in Sessions : DOMAIN rows[s] = 1..Cardinality(DOMAIN rows[s])

\* Rows of the session of t written by other processes.
Rivals(t) ==
    {n \in DOMAIN rows[session[t]] : process[rows[session[t]][n]] # process[t]}

\* A thread of the same process has stored the number that the snapshot of t,
\* older than the lock, makes t try first.
StaleByMate(t) ==
    /\ RepeatableReads
    /\ seenTop[t] + 1 \in DOMAIN rows[session[t]] \ Rivals(t)

\* Within a process the lock prevents conflicts: every refused insert is paid
\* for by a row of another process, but the first one where reads repeat.  A
\* turn is given up only to that many rivals.
ConflictsAreRivals ==
    \A t \in Turns : pc[t] # "new" =>
        conflicts[t] <= Cardinality(Rivals(t)) + (IF StaleByMate(t) THEN 1 ELSE 0)

\* add_transcript_turn appends the turn to the session's log in one step, once,
\* or loses it for good.
Log == INSTANCE TranscriptLog WITH
         log  <- rows,
         lost <- {t \in Turns : pc[t] \in {"gave_up", "lost"}}

AppendsToLog == Log!Spec

\* No callback waits for the lock for ever.
EveryTurnEnds ==
    \A t \in Turns : pc[t] = "begun" ~> pc[t] \in {"stored", "gave_up", "lost"}
=============================================================================
