--------------------- MODULE TranscriptSequence_proofs ---------------------
(* The transcript has no gaps and add_transcript_turn implements the abstract *)
(* log, for any number of turns, sessions, processes and attempts.            *)
EXTENDS TranscriptSequence, FiniteSetTheorems, TLAPS

Places == {"new", "begun", "locked", "numbered", "stored", "gave_up", "lost"}

\* The rows of a session are a sequence of turns.
RowsInv ==
    /\ DOMAIN rows = Sessions
    /\ \A s \in Sessions : \E n \in Nat : rows[s] \in [1..n -> Turns]

\* A number about to be inserted is taken or the next one, and rows hold the
\* turns that are stored and no other.
TurnInv ==
    /\ pc \in [Turns -> Places]
    /\ session \in [Turns -> Sessions \cup {None}]
    /\ seenTop \in [Turns -> Nat]
    /\ number \in [Turns -> Nat]
    /\ conflicts \in [Turns -> Nat]
    /\ \A t \in Turns : pc[t] # "new" =>
          /\ session[t] \in Sessions
          /\ seenTop[t] <= Top(session[t])
    /\ \A t \in Turns : pc[t] = "numbered" =>
          number[t] \in 1..(Top(session[t]) + 1)
    /\ \A s \in Sessions : \A i \in DOMAIN rows[s] : pc[rows[s][i]] = "stored"

IInv == RowsInv /\ TurnInv

\* coalesce(max, 0) of the numbers 1..n is n.
LEMMA TopOfRows ==
    ASSUME NEW s, NEW n \in Nat, DOMAIN rows[s] = 1..n
    PROVE  Top(s) = n
<1>1. CASE n = 0
  BY <1>1 DEF Top
<1>2. CASE n # 0
  <2>1. n \in 1..n /\ \A y \in 1..n : n >= y
    BY <1>2
  <2>2. Max(1..n) = n
    BY <2>1 DEF Max
  <2> QED BY <1>2, <2>1, <2>2 DEF Top
<1> QED BY <1>1, <1>2

LEMMA InitIInv == Init => IInv
<1> SUFFICES ASSUME Init PROVE IInv
  OBVIOUS
<1>1. RowsInv
  <2>1. << >> \in [1..0 -> Turns]
    OBVIOUS
  <2> QED BY <2>1 DEF Init, RowsInv
<1> QED BY <1>1 DEF Init, IInv, TurnInv, Places

\* Inserting puts the turn at the end.
LEMMA InsertAppends ==
    ASSUME IInv, NEW t \in Turns, Insert(t), NEW n \in Nat,
           rows[session[t]] \in [1..n -> Turns]
    PROVE  /\ session[t] \in Sessions
           /\ number[t] = n + 1
           /\ rows' = [rows EXCEPT ![session[t]] = Append(@, t)]
           /\ rows'[session[t]] \in [1..(n + 1) -> Turns]
           /\ Top(session[t])' = n + 1
<1> DEFINE s == session[t]
<1>1. s \in Sessions /\ DOMAIN rows = Sessions
  BY DEF IInv, RowsInv, TurnInv, Insert
<1>2. Top(s) = n
  BY TopOfRows
<1>3. number[t] = n + 1
  BY <1>1, <1>2 DEF IInv, TurnInv, Insert
<1>4. Append(rows[s], t)
        = [k \in (1..n) \cup {n + 1} |-> IF k = n + 1 THEN t ELSE rows[s][k]]
  <2>1. rows[s] \in Seq(Turns) /\ Len(rows[s]) = n
    OBVIOUS
  <2>2. 1..(n + 1) = (1..n) \cup {n + 1}
    OBVIOUS
  <2> QED BY <2>1, <2>2
<1>5. rows' = [rows EXCEPT ![s] = Append(@, t)]
  BY <1>3, <1>4 DEF Insert
<1>6. rows'[s] \in [1..(n + 1) -> Turns]
  BY <1>1, <1>4, <1>5
<1>7. Top(s)' = n + 1
  <2>1. DOMAIN rows'[s] = 1..(n + 1)
    BY <1>6
  <2>2. session' = session
    BY DEF Insert
  <2>3. n + 1 \in 1..(n + 1) /\ \A y \in 1..(n + 1) : n + 1 >= y
    OBVIOUS
  <2>4. Max(1..(n + 1)) = n + 1
    BY <2>3 DEF Max
  <2> QED BY <2>1, <2>2, <2>3, <2>4 DEF Top
<1> QED BY <1>1, <1>3, <1>5, <1>6, <1>7

LEMMA RowsTops ==
    ASSUME RowsInv
    PROVE  \A s \in Sessions : Top(s) \in Nat
<1> SUFFICES ASSUME NEW s \in Sessions PROVE Top(s) \in Nat
  OBVIOUS
<1>1. PICK n \in Nat : rows[s] \in [1..n -> Turns]
  BY DEF RowsInv
<1>2. Top(s) = n
  BY <1>1, TopOfRows
<1> QED BY <1>2

\* A step that leaves rows alone leaves their invariant and every Top alone.
LEMMA RowsKept ==
    ASSUME RowsInv, rows' = rows
    PROVE  RowsInv' /\ \A s \in Sessions : Top(s)' = Top(s) /\ Top(s) \in Nat
<1> QED BY RowsTops DEF RowsInv, Top

LEMMA NextIInv == IInv /\ [Next]_vars => IInv'
<1> SUFFICES ASSUME IInv, [Next]_vars PROVE IInv'
  OBVIOUS
<1>0. None \notin Sessions /\ RepeatableReads \in BOOLEAN
  BY SequenceAssumption
<1>1. ASSUME NEW t \in Turns, NEW s \in Sessions, NEW p \in Processes,
             Begin(t, s, p)
      PROVE  IInv'
  <2>1. RowsInv' /\ \A x \in Sessions : Top(x)' = Top(x) /\ Top(x) \in Nat
    BY <1>1, RowsKept DEF IInv, Begin
  <2>2. seenTop'[t] \in Nat /\ seenTop'[t] <= Top(s)
    BY <1>1, <2>1 DEF IInv, TurnInv, Begin
  <2>3. /\ seenTop' \in [Turns -> Nat]
        /\ \A q \in Turns : q # t => seenTop'[q] = seenTop[q]
    BY <1>1, <2>2 DEF IInv, TurnInv, Begin
  <2>4. /\ pc' = [pc EXCEPT ![t] = "begun"]
        /\ session' = [session EXCEPT ![t] = s]
        /\ rows' = rows /\ number' = number /\ conflicts' = conflicts
        /\ pc[t] = "new"
    BY <1>1 DEF Begin
  <2> QED BY <2>1, <2>2, <2>3, <2>4 DEF IInv, TurnInv, Places
<1>2. ASSUME NEW t \in Turns, Lock(t) PROVE IInv'
  <2>1. RowsInv' /\ \A x \in Sessions : Top(x)' = Top(x) /\ Top(x) \in Nat
    BY <1>2, RowsKept DEF IInv, Lock
  <2> QED BY <1>2, <2>1 DEF IInv, TurnInv, Lock, Places
<1>3. ASSUME NEW t \in Turns, NextSequence(t) PROVE IInv'
  <2>1. RowsInv' /\ \A x \in Sessions : Top(x)' = Top(x) /\ Top(x) \in Nat
    BY <1>3, RowsKept DEF IInv, NextSequence
  <2>2. number'[t] \in 1..(Top(session[t]) + 1)
    BY <1>3, <2>1 DEF IInv, TurnInv, NextSequence
  <2>3. /\ number' \in [Turns -> Nat]
        /\ \A q \in Turns : q # t => number'[q] = number[q]
    BY <1>3, <2>1, <2>2 DEF IInv, TurnInv, NextSequence
  <2>4. /\ pc' = [pc EXCEPT ![t] = "numbered"]
        /\ pc[t] = "locked"
        /\ rows' = rows /\ session' = session /\ seenTop' = seenTop
        /\ conflicts' = conflicts
    BY <1>3 DEF NextSequence
  <2> QED BY <2>1, <2>2, <2>3, <2>4 DEF IInv, TurnInv, RowsInv, Places
<1>4. ASSUME NEW t \in Turns, Insert(t) PROVE IInv'
  <2>1. session[t] \in Sessions
    BY <1>4 DEF IInv, TurnInv, Insert
  <2>2. PICK n \in Nat : rows[session[t]] \in [1..n -> Turns]
    BY <2>1 DEF IInv, RowsInv
  <2>3. /\ rows' = [rows EXCEPT ![session[t]] = Append(@, t)]
        /\ rows'[session[t]] \in [1..(n + 1) -> Turns]
        /\ Top(session[t])' = n + 1
        /\ number[t] = n + 1
    BY <1>4, <2>2, InsertAppends
  <2>4. RowsInv'
    BY <2>1, <2>3 DEF IInv, RowsInv
  <2>5. Top(session[t]) = n
    BY <2>2, TopOfRows
  <2>6. \A x \in Sessions : Top(x) \in Nat /\ Top(x)' \in Nat /\ Top(x) <= Top(x)'
    <3> SUFFICES ASSUME NEW x \in Sessions
                 PROVE  Top(x) \in Nat /\ Top(x)' \in Nat /\ Top(x) <= Top(x)'
      OBVIOUS
    <3>1. CASE x = session[t]
      BY <1>4, <2>3, <2>5, <3>1 DEF Top, Insert
    <3>2. CASE x # session[t]
      <4>1. PICK m \in Nat : rows[x] \in [1..m -> Turns]
        BY DEF IInv, RowsInv
      <4>2. Top(x) = m
        BY <4>1, TopOfRows
      <4>3. rows'[x] = rows[x]
        BY <2>1, <2>3, <3>2 DEF IInv, RowsInv
      <4> QED BY <4>2, <4>3 DEF Top
    <3> QED BY <3>1, <3>2
  <2>7. \A q \in Turns : pc'[q] = "numbered"
          => number'[q] \in 1..(Top(session[q])' + 1)
    BY <1>4, <2>6 DEF IInv, TurnInv, Insert
  <2>8. \A q \in Turns : pc'[q] # "new"
          => session'[q] \in Sessions /\ seenTop'[q] <= Top(session[q])'
    BY <1>4, <2>6 DEF IInv, TurnInv, Insert
  <2>9. \A x \in Sessions : \A i \in DOMAIN rows'[x] : pc'[rows'[x][i]] = "stored"
    BY <1>4, <2>1, <2>2, <2>3 DEF IInv, TurnInv, RowsInv, Insert
  <2> QED
    BY <1>4, <2>4, <2>7, <2>8, <2>9 DEF IInv, TurnInv, Insert, Places
<1>5. ASSUME NEW t \in Turns, Conflict(t) PROVE IInv'
  <2>1. RowsInv' /\ \A x \in Sessions : Top(x)' = Top(x) /\ Top(x) \in Nat
    BY <1>5, RowsKept DEF IInv, Conflict
  <2>2. /\ pc'[t] \in {"locked", "gave_up"} /\ pc[t] = "numbered"
        /\ pc' \in [Turns -> Places]
        /\ \A q \in Turns : q # t => pc'[q] = pc[q]
        /\ conflicts' \in [Turns -> Nat]
    BY <1>5 DEF IInv, TurnInv, Conflict, Places
  <2>3. /\ rows' = rows /\ session' = session /\ seenTop' = seenTop
        /\ number' = number
    BY <1>5 DEF Conflict
  <2> QED BY <2>1, <2>2, <2>3 DEF IInv, TurnInv, RowsInv
<1>6. ASSUME NEW t \in Turns, Error(t) PROVE IInv'
  <2>1. RowsInv' /\ \A x \in Sessions : Top(x)' = Top(x) /\ Top(x) \in Nat
    BY <1>6, RowsKept DEF IInv, Error
  <2> QED BY <1>6, <2>1 DEF IInv, TurnInv, Error, Inside, Places
<1>7. ASSUME NEW p \in Processes, Crash(p) PROVE IInv'
  <2>1. RowsInv' /\ \A x \in Sessions : Top(x)' = Top(x) /\ Top(x) \in Nat
    BY <1>7, RowsKept DEF IInv, Crash
  <2>2. /\ rows' = rows /\ session' = session /\ seenTop' = seenTop
        /\ number' = number /\ conflicts' = conflicts
    BY <1>7 DEF Crash
  <2>3. /\ pc' \in [Turns -> Places]
        /\ \A q \in Turns : \/ pc'[q] = pc[q]
                            \/ pc'[q] = "lost" /\ pc[q] \notin {"new", "stored"}
    BY <1>7 DEF IInv, TurnInv, Crash, Inside, Places
  <2>4. \A s \in Sessions : \A i \in DOMAIN rows[s] : rows[s][i] \in Turns
    BY DEF IInv, RowsInv
  <2> QED BY <2>1, <2>2, <2>3, <2>4 DEF IInv, TurnInv
<1>8. CASE UNCHANGED vars
  <2>1. RowsInv' /\ \A x \in Sessions : Top(x)' = Top(x) /\ Top(x) \in Nat
    BY <1>8, RowsKept DEF IInv, vars
  <2> QED BY <1>8, <2>1 DEF IInv, TurnInv, RowsInv, vars, Places
<1> QED
  BY <1>1, <1>2, <1>3, <1>4, <1>5, <1>6, <1>7, <1>8 DEF Next, Proceed

THEOREM InductiveInvariant == Spec => []IInv
BY InitIInv, NextIInv, PTL DEF Spec

\* A turn that is still at work has an attempt left.
AttemptInv ==
    \A t \in Turns : pc[t] \in {"new", "begun", "locked", "numbered"} =>
        conflicts[t] < MaxAttempts

LEMMA NextType == IInv /\ TypeOK /\ AttemptInv /\ [Next]_vars => TypeOK' /\ AttemptInv'
<1> SUFFICES ASSUME IInv, TypeOK, AttemptInv, [Next]_vars
             PROVE  TypeOK' /\ AttemptInv'
  OBVIOUS
<1>0. \A s \in Sessions : Top(s) \in Nat
  BY RowsTops DEF IInv
<1>1. ASSUME NEW t \in Turns, NEW s \in Sessions, NEW p \in Processes, Begin(t, s, p)
      PROVE  TypeOK' /\ AttemptInv'
  <2>1. (IF RepeatableReads THEN Top(s) ELSE 0) \in Nat
    BY <1>0
  <2> QED BY <1>1, <2>1 DEF Begin, TypeOK, AttemptInv
<1>2. ASSUME NEW t \in Turns, Lock(t) \/ Error(t)
      PROVE  TypeOK' /\ AttemptInv'
  BY <1>2 DEF Lock, Error, Inside, TypeOK, AttemptInv
<1>3. ASSUME NEW t \in Turns, NextSequence(t)
      PROVE  TypeOK' /\ AttemptInv'
  <2>1. session[t] \in Sessions
    BY <1>3 DEF NextSequence, IInv, TurnInv
  <2>2. (IF RepeatableReads /\ conflicts[t] = 0 THEN seenTop[t] + 1
         ELSE Top(session[t]) + 1) \in Nat
    BY <1>0, <2>1 DEF TypeOK
  <2> QED BY <1>3, <2>2 DEF NextSequence, TypeOK, AttemptInv
<1>4. ASSUME NEW t \in Turns, Insert(t)
      PROVE  TypeOK' /\ AttemptInv'
  <2>1. session[t] \in Sessions
    BY <1>4 DEF Insert, IInv, TurnInv
  <2>2. PICK n \in Nat : rows[session[t]] \in [1..n -> Turns]
    BY <2>1 DEF IInv, RowsInv
  <2>3. rows' = [rows EXCEPT ![session[t]] = Append(@, t)]
    BY <1>4, <2>2, InsertAppends
  <2>4. rows' \in [Sessions -> Seq(Turns)]
    BY <2>1, <2>3 DEF TypeOK
  <2> QED BY <1>4, <2>4 DEF Insert, TypeOK, AttemptInv
<1>5. ASSUME NEW t \in Turns, Conflict(t)
      PROVE  TypeOK' /\ AttemptInv'
  <2>1. conflicts[t] \in Nat /\ conflicts[t] < MaxAttempts
    BY <1>5 DEF Conflict, TypeOK, AttemptInv
  <2>2. conflicts[t] + 1 \in 0..MaxAttempts
    BY <2>1, SequenceAssumption
  <2> QED BY <1>5, <2>2 DEF Conflict, TypeOK, AttemptInv
<1>6. ASSUME NEW p \in Processes, Crash(p)
      PROVE  TypeOK' /\ AttemptInv'
  BY <1>6 DEF Crash, TypeOK, AttemptInv
<1>7. CASE UNCHANGED vars
  BY <1>7 DEF vars, TypeOK, AttemptInv
<1> QED BY <1>1, <1>2, <1>3, <1>4, <1>5, <1>6, <1>7 DEF Next, Proceed

\* A transcript is a sequence of turns, and no turn is tried more often than
\* add_transcript_turn allows.
THEOREM TypeCorrect == Spec => []TypeOK
<1>1. Init => TypeOK /\ AttemptInv
  BY SequenceAssumption DEF Init, TypeOK, AttemptInv
<1> QED BY <1>1, NextType, InductiveInvariant, PTL DEF Spec

\* The numbers of a transcript are 1, 2, ... up to the number of its turns.
THEOREM TranscriptGapless == Spec => []Gapless
<1>1. IInv => Gapless
  <2> SUFFICES ASSUME IInv, NEW s \in Sessions
               PROVE  DOMAIN rows[s] = 1..Cardinality(DOMAIN rows[s])
    BY DEF Gapless
  <2>1. PICK n \in Nat : rows[s] \in [1..n -> Turns]
    BY DEF IInv, RowsInv
  <2>2. Cardinality(1..n) = n
    BY FS_Interval
  <2> QED BY <2>1, <2>2
<1> QED BY InductiveInvariant, <1>1, PTL

-----------------------------------------------------------------------------
(* Refinement. *)

Lost == {t \in Turns : pc[t] \in {"gave_up", "lost"}}

\* Turns still on their way or lost are not in the log.
LEMMA StoredIsStored ==
    ASSUME IInv, NEW t \in Turns, t \in Log!Stored
    PROVE  pc[t] = "stored"
BY DEF Log!Stored, IInv, TurnInv

\* A step that leaves rows alone can only lose turns that are not in the log.
LEMMA LosingStep ==
    ASSUME IInv, rows' = rows,
           \A t \in Turns : \/ pc'[t] = pc[t]
                            \/ pc[t] # "stored" /\ t \notin Lost
    PROVE  [Log!Next]_<<rows, Lost>>
<1>1. Lost \subseteq Lost'
  BY DEF Lost
<1>2. (Lost' \ Lost) \cap Log!Stored = {}
  BY StoredIsStored DEF Lost
<1>3. PICK T \in SUBSET Turns : T = Lost' \ Lost
  BY DEF Lost
<1>4. Log!LoseTurns(T)
  BY <1>1, <1>2, <1>3 DEF Log!LoseTurns, Lost
<1> QED BY <1>4 DEF Log!Next

LEMMA StepRefines == IInv /\ [Next]_vars => [Log!Next]_<<rows, Lost>>
<1> SUFFICES ASSUME IInv, [Next]_vars PROVE [Log!Next]_<<rows, Lost>>
  OBVIOUS
<1>1. ASSUME NEW t \in Turns, Insert(t) PROVE [Log!Next]_<<rows, Lost>>
  <2>1. session[t] \in Sessions /\ pc[t] = "numbered"
    BY <1>1 DEF IInv, TurnInv, Insert
  <2>2. PICK n \in Nat : rows[session[t]] \in [1..n -> Turns]
    BY <2>1 DEF IInv, RowsInv
  <2>3. rows' = [rows EXCEPT ![session[t]] = Append(@, t)]
    BY <1>1, <2>2, InsertAppends
  <2>4. t \notin Log!Stored \cup Lost
    BY <2>1, StoredIsStored DEF Lost
  <2>5. Lost' = Lost
    BY <1>1 DEF Insert, Lost, IInv, TurnInv
  <2>6. Log!AddTurn(session[t], t)
    BY <2>3, <2>4, <2>5 DEF Log!AddTurn, Lost
  <2> QED BY <2>1, <2>6 DEF Log!Next
<1>2. ASSUME NEW t \in Turns, NEW s \in Sessions, NEW p \in Processes,
             Begin(t, s, p)
      PROVE  [Log!Next]_<<rows, Lost>>
  BY <1>2, LosingStep DEF Begin, Lost, IInv, TurnInv
<1>3. ASSUME NEW t \in Turns,
             Lock(t) \/ NextSequence(t) \/ Conflict(t) \/ Error(t)
      PROVE  [Log!Next]_<<rows, Lost>>
  BY <1>3, LosingStep
     DEF Lock, NextSequence, Conflict, Error, Inside, Lost, IInv, TurnInv
<1>4. ASSUME NEW p \in Processes, Crash(p) PROVE [Log!Next]_<<rows, Lost>>
  BY <1>4, LosingStep DEF Crash, Inside, Lost, IInv, TurnInv
<1>5. CASE UNCHANGED vars
  BY <1>5 DEF vars, Lost
<1> QED BY <1>1, <1>2, <1>3, <1>4, <1>5 DEF Next, Proceed

\* add_transcript_turn appends a turn in one step, at most once, or loses it
\* for good.
THEOREM AppendRefined == Spec => AppendsToLog
<1>1. Init => Log!Init
  BY DEF Init, Log!Init
<1>2. IInv /\ [Next]_vars => [Log!Next]_<<rows, Lost>>
  BY StepRefines
<1> QED
  BY <1>1, <1>2, InductiveInvariant, PTL
     DEF Spec, AppendsToLog, Log!Spec, Lost

-----------------------------------------------------------------------------
(* Conflicts. *)

\* At most one thread of a process is inside the lock of a session.
LockInv ==
    \A t, q \in Turns :
        /\ Inside(t) /\ Inside(q)
        /\ session[t] = session[q] /\ process[t] = process[q]
        => t = q

OneStale(t) == IF StaleByMate(t) THEN 1 ELSE 0

\* The rivals that t has met: those below the number it is about to insert.
Met(t) ==
    IF pc[t] = "numbered" THEN {n \in Rivals(t) : n < number[t]} ELSE Rivals(t)

\* Each conflict is paid for by a rival that t has met, and whoever takes the
\* number t has read, or one above it, is a rival too.
Paid(t) ==
    /\ pc[t] \in {"new", "begun"} => conflicts[t] = 0
    /\ pc[t] # "new" => conflicts[t] <= Cardinality(Met(t)) + OneStale(t)
    /\ pc[t] = "numbered" =>
          \/ RepeatableReads /\ conflicts[t] = 0 /\ number[t] = seenTop[t] + 1
          \/ \A n \in DOMAIN rows[session[t]] : n >= number[t] => n \in Rivals(t)

PaidInv == \A t \in Turns : Paid(t)

\* Rows stay where they are, a turn that has begun stays what it is, and a new
\* row is that of a turn that had its number.
LEMMA StepKeeps ==
    ASSUME IInv, TypeOK, [Next]_vars
    PROVE  /\ \A s \in Sessions : \A n \in DOMAIN rows[s] :
                 n \in DOMAIN rows'[s] /\ rows'[s][n] = rows[s][n]
           /\ \A s \in Sessions : \A n \in DOMAIN rows'[s] \ DOMAIN rows[s] :
                 /\ rows'[s][n] \in Turns
                 /\ session[rows'[s][n]] = s
                 /\ pc[rows'[s][n]] = "numbered"
                 /\ pc'[rows'[s][n]] = "stored"
           /\ \A t \in Turns : pc[t] # "new" =>
                 /\ pc'[t] # "new"
                 /\ session'[t] = session[t]
                 /\ process'[t] = process[t]
                 /\ seenTop'[t] = seenTop[t]
<1> DEFINE Keeps == \A t \in Turns : pc[t] # "new" =>
                 /\ pc'[t] # "new"
                 /\ session'[t] = session[t]
                 /\ process'[t] = process[t]
                 /\ seenTop'[t] = seenTop[t]
<1>1. CASE \E t \in Turns : Insert(t)
  <2>1. PICK t \in Turns : Insert(t)
    BY <1>1
  <2>2. session[t] \in Sessions
    BY <2>1 DEF IInv, TurnInv, Insert
  <2>3. PICK m \in Nat : rows[session[t]] \in [1..m -> Turns]
    BY <2>2 DEF IInv, RowsInv
  <2>4. /\ \A s \in Sessions \ {session[t]} : rows'[s] = rows[s]
        /\ DOMAIN rows'[session[t]] = DOMAIN rows[session[t]] \cup {number[t]}
        /\ rows'[session[t]][number[t]] = t
        /\ number[t] \notin DOMAIN rows[session[t]]
        /\ \A n \in DOMAIN rows[session[t]] :
              rows'[session[t]][n] = rows[session[t]][n]
    BY <2>1, <2>2 DEF TypeOK, Insert
  <2>5. pc[t] = "numbered" /\ pc'[t] = "stored" /\ Keeps
    BY <2>1 DEF TypeOK, Insert
  <2> HIDE DEF Keeps
  <2>6. \A s \in Sessions : \A n \in DOMAIN rows'[s] \ DOMAIN rows[s] :
            s = session[t] /\ rows'[s][n] = t
    BY <2>2, <2>4
  <2> QED BY <2>4, <2>5, <2>6 DEF Keeps
<1>2. CASE ~ \E t \in Turns : Insert(t)
  <2>1. rows' = rows
    BY <1>2 DEF Next, Proceed, Begin, Lock, NextSequence, Conflict, Error,
                Crash, vars
  <2>2. CASE \E t \in Turns, s \in Sessions, p \in Processes : Begin(t, s, p)
    BY <2>1, <2>2 DEF Begin, TypeOK
  <2>3. CASE ~ \E t \in Turns, s \in Sessions, p \in Processes : Begin(t, s, p)
    <3>1. /\ session' = session /\ process' = process /\ seenTop' = seenTop
      BY <1>2, <2>3 DEF Next, Proceed, Lock, NextSequence, Conflict, Error,
                        Crash, vars
    <3>2. \A t \in Turns : pc[t] # "new" => pc'[t] # "new"
      BY <1>2, <2>3 DEF Next, Proceed, Lock, NextSequence, Conflict, Error,
                        Crash, vars, TypeOK
    <3> QED BY <2>1, <3>1, <3>2
  <2> QED BY <2>2, <2>3
<1> QED BY <1>1, <1>2

\* The rows of a session and the rivals of a turn are finitely many.
LEMMA RivalsFinite ==
    ASSUME IInv, NEW t \in Turns, pc[t] # "new"
    PROVE  /\ IsFiniteSet(Rivals(t))
           /\ Rivals(t) \subseteq Nat
           /\ \A n \in DOMAIN rows[session[t]] : n \in Nat /\ n <= Top(session[t])
<1>1. session[t] \in Sessions
  BY DEF IInv, TurnInv
<1>2. PICK m \in Nat : rows[session[t]] \in [1..m -> Turns]
  BY <1>1 DEF IInv, RowsInv
<1>3. Rivals(t) \subseteq 1..m
  BY <1>2 DEF Rivals
<1>4. IsFiniteSet(1..m)
  BY FS_Interval
<1>5. Top(session[t]) = m
  BY <1>2, TopOfRows
<1> QED BY <1>2, <1>3, <1>4, <1>5, FS_Subset

\* Rivals remain rivals, and a stale number stays stale.
LEMMA RivalsStay ==
    ASSUME IInv, TypeOK, [Next]_vars, NEW t \in Turns, pc[t] # "new"
    PROVE  Rivals(t) \subseteq Rivals(t)' /\ OneStale(t) <= OneStale(t)'
<1> DEFINE s == session[t]
<1>1. s \in Sessions
  BY DEF IInv, TurnInv
<1>2. /\ session'[t] = s /\ process'[t] = process[t] /\ seenTop'[t] = seenTop[t]
      /\ \A n \in DOMAIN rows[s] : n \in DOMAIN rows'[s] /\ rows'[s][n] = rows[s][n]
  BY <1>1, StepKeeps
<1>3. \A n \in DOMAIN rows[s] : process'[rows[s][n]] = process[rows[s][n]]
  <2> SUFFICES ASSUME NEW n \in DOMAIN rows[s]
               PROVE  process'[rows[s][n]] = process[rows[s][n]]
    OBVIOUS
  <2>1. rows[s][n] \in Turns /\ pc[rows[s][n]] = "stored"
    BY <1>1 DEF IInv, RowsInv, TurnInv
  <2> QED BY <2>1, StepKeeps
<1>4. Rivals(t) \subseteq Rivals(t)'
  BY <1>2, <1>3 DEF Rivals
<1>5. StaleByMate(t) => StaleByMate(t)'
  BY <1>2, <1>3 DEF Rivals, StaleByMate
<1> QED BY <1>4, <1>5 DEF OneStale

LEMMA NextLock == IInv /\ TypeOK /\ LockInv /\ [Next]_vars => LockInv'
<1> SUFFICES ASSUME IInv, TypeOK, LockInv, [Next]_vars PROVE LockInv'
  OBVIOUS
<1>1. ASSUME NEW t \in Turns, NEW s \in Sessions, NEW p \in Processes, Begin(t, s, p)
      PROVE  LockInv'
  <2>1. \A q \in Turns : Inside(q)' => Inside(q) /\ q # t
    BY <1>1 DEF Begin, Inside, TypeOK
  <2>2. \A q \in Turns \ {t} : session'[q] = session[q] /\ process'[q] = process[q]
    BY <1>1 DEF Begin, TypeOK
  <2> QED BY <2>1, <2>2 DEF LockInv
<1>2. ASSUME NEW t \in Turns, Lock(t) PROVE LockInv'
  <2>1. \A q \in Turns : Inside(q)' => Inside(q) \/ q = t
    BY <1>2 DEF Lock, Inside, TypeOK
  <2>2. /\ session' = session /\ process' = process
        /\ \A q \in Turns : session[q] = session[t] /\ process[q] = process[t]
                              => ~ Inside(q)
    BY <1>2 DEF Lock, LockFree
  <2> QED BY <2>1, <2>2 DEF LockInv
<1>3. ASSUME NEW t \in Turns,
             NextSequence(t) \/ Insert(t) \/ Conflict(t) \/ Error(t)
      PROVE  LockInv'
  <2>1. \A q \in Turns : Inside(q)' => Inside(q)
    BY <1>3 DEF NextSequence, Insert, Conflict, Error, Inside, TypeOK
  <2>2. session' = session /\ process' = process
    BY <1>3 DEF NextSequence, Insert, Conflict, Error
  <2> QED BY <2>1, <2>2 DEF LockInv
<1>4. ASSUME NEW p \in Processes, Crash(p) PROVE LockInv'
  <2>1. \A q \in Turns : Inside(q)' => Inside(q)
    BY <1>4 DEF Crash, Inside
  <2>2. session' = session /\ process' = process
    BY <1>4 DEF Crash
  <2> QED BY <2>1, <2>2 DEF LockInv
<1>5. CASE UNCHANGED vars
  BY <1>5 DEF vars, LockInv, Inside
<1> QED BY <1>1, <1>2, <1>3, <1>4, <1>5 DEF Next, Proceed

LEMMA CardinalityGrows ==
    ASSUME NEW B, NEW A \in SUBSET B, IsFiniteSet(B)
    PROVE  /\ Cardinality(A) \in Nat /\ Cardinality(B) \in Nat
           /\ Cardinality(A) <= Cardinality(B)
BY FS_Subset, FS_CardinalityType

LEMMA RivalsFiniteAfter ==
    ASSUME IInv', NEW t \in Turns, pc'[t] # "new"
    PROVE  IsFiniteSet(Rivals(t)')
<1>1. session'[t] \in Sessions
  BY DEF IInv, TurnInv
<1>2. PICK m \in Nat : rows'[session'[t]] \in [1..m -> Turns]
  BY <1>1 DEF IInv, RowsInv
<1>3. Rivals(t)' \subseteq 1..m
  BY <1>2 DEF Rivals
<1>4. IsFiniteSet(1..m)
  BY FS_Interval
<1> QED BY <1>3, <1>4, FS_Subset

\* What a turn has met grows while its number stays or is dropped.
LEMMA MetGrows ==
    ASSUME IInv, IInv', TypeOK, TypeOK', [Next]_vars, NEW t \in Turns, Paid(t),
           pc[t] # "new", conflicts'[t] = conflicts[t],
           \/ pc'[t] # "numbered"
           \/ pc[t] = "numbered" /\ pc'[t] = "numbered" /\ number'[t] = number[t]
    PROVE  conflicts'[t] <= Cardinality(Met(t)') + OneStale(t)'
<1>1. pc'[t] # "new"
  BY StepKeeps
<1>2. IsFiniteSet(Rivals(t)) /\ IsFiniteSet(Rivals(t)')
  BY <1>1, RivalsFinite, RivalsFiniteAfter
<1>3. Rivals(t) \subseteq Rivals(t)' /\ OneStale(t) <= OneStale(t)'
  BY RivalsStay
<1>4. Met(t) \subseteq Met(t)'
  BY <1>3 DEF Met
<1>5. Met(t)' \subseteq Rivals(t)'
  BY DEF Met
<1>6. IsFiniteSet(Met(t)')
  BY <1>2, <1>5, FS_Subset
<1>7. /\ Cardinality(Met(t)) \in Nat /\ Cardinality(Met(t)') \in Nat
      /\ Cardinality(Met(t)) <= Cardinality(Met(t)')
  BY <1>4, <1>6, CardinalityGrows
<1>8. conflicts[t] <= Cardinality(Met(t)) + OneStale(t)
  BY DEF Paid
<1>9. OneStale(t) \in Nat /\ OneStale(t)' \in Nat /\ conflicts[t] \in Nat
  BY DEF OneStale, TypeOK
<1> QED BY <1>3, <1>7, <1>8, <1>9

\* A turn that does not move goes on having paid: a mate cannot write while it
\* is inside the lock.
LEMMA UnmovedPaid ==
    ASSUME IInv, IInv', TypeOK, TypeOK', LockInv, [Next]_vars,
           NEW t \in Turns, Paid(t),
           pc'[t] = pc[t], conflicts'[t] = conflicts[t], number'[t] = number[t]
    PROVE  Paid(t)'
<1>1. pc'[t] # "new" => conflicts'[t] <= Cardinality(Met(t)') + OneStale(t)'
  BY MetGrows
<1>2. ASSUME pc[t] = "numbered",
             NEW n \in DOMAIN rows'[session'[t]], n >= number[t],
             \A k \in DOMAIN rows[session[t]] : k >= number[t] => k \in Rivals(t)
      PROVE  n \in Rivals(t)'
  <2>1. session[t] \in Sessions /\ session'[t] = session[t]
        /\ process'[t] = process[t]
    BY <1>2, StepKeeps DEF IInv, TurnInv
  <2>2. CASE n \in DOMAIN rows[session[t]]
    BY <1>2, <2>2, RivalsStay
  <2>3. CASE n \notin DOMAIN rows[session[t]]
    <3> DEFINE u == rows'[session[t]][n]
    <3>1. /\ u \in Turns /\ session[u] = session[t] /\ pc[u] = "numbered"
          /\ pc'[u] = "stored"
      BY <1>2, <2>1, <2>3, StepKeeps
    <3>2. process[u] # process[t]
      BY <1>2, <3>1 DEF LockInv, Inside
    <3>3. process'[u] = process[u]
      BY <3>1, StepKeeps
    <3> QED BY <1>2, <2>1, <3>2, <3>3 DEF Rivals
  <2> QED BY <2>2, <2>3
<1>3. pc'[t] = "numbered" =>
        \/ RepeatableReads /\ conflicts'[t] = 0 /\ number'[t] = seenTop'[t] + 1
        \/ \A n \in DOMAIN rows'[session'[t]] :
              n >= number'[t] => n \in Rivals(t)'
  <2>1. pc[t] # "new" => seenTop'[t] = seenTop[t]
    BY StepKeeps
  <2> QED BY <1>2, <2>1 DEF Paid
<1> QED BY <1>1, <1>3 DEF Paid

LEMMA NextPaid ==
    ASSUME IInv, IInv', TypeOK, TypeOK', LockInv, PaidInv, [Next]_vars
    PROVE  PaidInv'
<1> SUFFICES ASSUME NEW t \in Turns PROVE Paid(t)'
  BY DEF PaidInv
<1>0. Paid(t)
  BY DEF PaidInv
<1>1. CASE pc'[t] = pc[t] /\ conflicts'[t] = conflicts[t] /\ number'[t] = number[t]
  BY <1>0, <1>1, UnmovedPaid
<1>2. CASE \E s \in Sessions, p \in Processes : Begin(t, s, p)
  <2>1. pc'[t] = "begun" /\ conflicts'[t] = 0
    BY <1>0, <1>2 DEF Begin, TypeOK, Paid
  <2>2. Cardinality(Met(t)') \in Nat /\ OneStale(t)' \in Nat
    BY <2>1, RivalsFiniteAfter, FS_CardinalityType DEF Met, OneStale
  <2> QED BY <2>1, <2>2 DEF Paid
<1>3. CASE Lock(t)
  <2>1. pc[t] = "begun" /\ pc'[t] = "locked" /\ conflicts'[t] = conflicts[t]
    BY <1>3 DEF Lock, TypeOK
  <2>2. conflicts'[t] <= Cardinality(Met(t)') + OneStale(t)'
    BY <1>0, <2>1, MetGrows
  <2> QED BY <2>1, <2>2 DEF Paid
<1>4. CASE NextSequence(t)
  <2>1. /\ pc[t] = "locked" /\ pc'[t] = "numbered"
        /\ conflicts' = conflicts /\ rows' = rows /\ session' = session
        /\ process' = process /\ seenTop' = seenTop
        /\ number'[t] = IF RepeatableReads /\ conflicts[t] = 0
                        THEN seenTop[t] + 1 ELSE Top(session[t]) + 1
    BY <1>4 DEF NextSequence, TypeOK
  <2>2. IsFiniteSet(Rivals(t)) /\ \A n \in DOMAIN rows[session[t]] :
            n \in Nat /\ n <= Top(session[t])
    BY <2>1, RivalsFinite
  <2>3. Top(session[t]) \in Nat
    BY <2>1, RowsTops DEF IInv, TurnInv
  <2>4. Rivals(t)' = Rivals(t) /\ OneStale(t)' = OneStale(t)
    BY <2>1 DEF Rivals, OneStale, StaleByMate
  <2>5. CASE RepeatableReads /\ conflicts[t] = 0
    <3>1. Met(t)' \subseteq Rivals(t)
      BY <2>4 DEF Met
    <3>2. Cardinality(Met(t)') \in Nat
      BY <2>2, <3>1, CardinalityGrows
    <3>3. OneStale(t)' \in Nat
      BY DEF OneStale
    <3> QED BY <2>1, <2>5, <3>2, <3>3 DEF Paid
  <2>6. CASE ~ (RepeatableReads /\ conflicts[t] = 0)
    <3>1. number'[t] = Top(session[t]) + 1
      BY <2>1, <2>6
    <3>2. \A n \in DOMAIN rows[session[t]] : n < number'[t] /\ ~ (n >= number'[t])
      BY <2>2, <2>3, <3>1
    <3>3. Met(t)' = Rivals(t) /\ Met(t) = Rivals(t)
      BY <2>1, <2>4, <3>2 DEF Met, Rivals
    <3>4. conflicts[t] <= Cardinality(Met(t)) + OneStale(t)
      BY <1>0, <2>1 DEF Paid
    <3> QED BY <2>1, <2>4, <3>2, <3>3, <3>4 DEF Paid
  <2> QED BY <2>5, <2>6
<1>5. CASE Conflict(t)
  <2>1. /\ pc[t] = "numbered" /\ pc'[t] \in {"locked", "gave_up"}
        /\ conflicts'[t] = conflicts[t] + 1
        /\ number[t] \in DOMAIN rows[session[t]]
        /\ rows' = rows /\ session' = session /\ process' = process
        /\ seenTop' = seenTop
    BY <1>5 DEF Conflict, TypeOK
  <2>2. /\ IsFiniteSet(Rivals(t)) /\ Rivals(t) \subseteq Nat
        /\ number[t] \in Nat
    BY <2>1, RivalsFinite
  <2>3. Met(t)' = Rivals(t) /\ OneStale(t)' = OneStale(t)
    BY <2>1 DEF Met, Rivals, OneStale, StaleByMate
  <2>4. Cardinality(Rivals(t)) \in Nat /\ OneStale(t) \in Nat
    BY <2>2, FS_CardinalityType DEF OneStale
  <2>5. CASE number[t] \in Rivals(t)
    <3>1. Met(t) \cup {number[t]} \subseteq Rivals(t) /\ number[t] \notin Met(t)
      BY <2>1, <2>2, <2>5 DEF Met
    <3>2. IsFiniteSet(Met(t))
      BY <2>2, <3>1, FS_Subset
    <3>3. /\ Cardinality(Met(t)) \in Nat
          /\ Cardinality(Met(t) \cup {number[t]}) = Cardinality(Met(t)) + 1
      BY <3>1, <3>2, FS_AddElement, FS_CardinalityType
    <3>4. Cardinality(Met(t)) + 1 <= Cardinality(Rivals(t))
      BY <2>2, <3>1, <3>3, CardinalityGrows
    <3>5. conflicts[t] <= Cardinality(Met(t)) + OneStale(t) /\ conflicts[t] \in Nat
      BY <1>0, <2>1 DEF Paid, TypeOK
    <3>6. conflicts'[t] <= Cardinality(Met(t)') + OneStale(t)'
      BY <2>1, <2>3, <2>4, <3>3, <3>4, <3>5
    <3> QED BY <2>1, <3>6 DEF Paid
  <2>6. CASE number[t] \notin Rivals(t)
    <3>1. RepeatableReads /\ conflicts[t] = 0 /\ number[t] = seenTop[t] + 1
      BY <1>0, <2>1, <2>2, <2>6 DEF Paid
    <3>2. OneStale(t) = 1
      BY <2>1, <2>6, <3>1 DEF OneStale, StaleByMate
    <3>3. conflicts'[t] <= Cardinality(Met(t)') + OneStale(t)'
      BY <2>1, <2>3, <2>4, <3>1, <3>2
    <3> QED BY <2>1, <3>3 DEF Paid
  <2> QED BY <2>5, <2>6
<1>6. CASE pc[t] # "new" /\ pc'[t] \in {"stored", "lost"}
           /\ conflicts'[t] = conflicts[t]
  <2>1. conflicts'[t] <= Cardinality(Met(t)') + OneStale(t)'
    BY <1>0, <1>6, MetGrows
  <2> QED BY <1>6, <2>1 DEF Paid
<1>7. \/ pc'[t] = pc[t] /\ conflicts'[t] = conflicts[t] /\ number'[t] = number[t]
      \/ \E s \in Sessions, p \in Processes : Begin(t, s, p)
      \/ Lock(t) \/ NextSequence(t) \/ Conflict(t)
      \/ pc[t] # "new" /\ pc'[t] \in {"stored", "lost"}
         /\ conflicts'[t] = conflicts[t]
  <2>1. ASSUME NEW q \in Turns, NEW s \in Sessions, NEW p \in Processes,
               Begin(q, s, p)
        PROVE  q = t \/ (pc'[t] = pc[t] /\ conflicts'[t] = conflicts[t]
                         /\ number'[t] = number[t])
    BY <2>1 DEF Begin, TypeOK
  <2>2. ASSUME NEW q \in Turns,
               Lock(q) \/ NextSequence(q) \/ Insert(q) \/ Conflict(q) \/ Error(q)
        PROVE  q = t \/ (pc'[t] = pc[t] /\ conflicts'[t] = conflicts[t]
                         /\ number'[t] = number[t])
    BY <2>2 DEF Lock, NextSequence, Insert, Conflict, Error, TypeOK
  <2>3. ASSUME Insert(t) \/ Error(t)
        PROVE  pc[t] # "new" /\ pc'[t] \in {"stored", "lost"}
               /\ conflicts'[t] = conflicts[t]
    BY <2>3 DEF Insert, Error, Inside, TypeOK
  <2>4. ASSUME NEW p \in Processes, Crash(p)
        PROVE  \/ pc'[t] = pc[t] /\ conflicts'[t] = conflicts[t]
                  /\ number'[t] = number[t]
               \/ pc[t] # "new" /\ pc'[t] \in {"stored", "lost"}
                  /\ conflicts'[t] = conflicts[t]
    BY <2>4 DEF Crash, Inside
  <2> QED BY <2>1, <2>2, <2>3, <2>4 DEF Next, Proceed, vars
<1> QED BY <1>1, <1>2, <1>3, <1>4, <1>5, <1>6, <1>7

\* A turn meets no more conflicts than other processes have written rows in its
\* session, and one more where a mate wrote before it had the lock: within a
\* process the lock of add_transcript_turn prevents conflicts.
THEOREM ConflictsComeFromRivals == Spec => []ConflictsAreRivals
<1>1. Init => LockInv /\ PaidInv
  BY DEF Init, LockInv, PaidInv, Paid, Inside
<1>2. TypeOK /\ IInv /\ PaidInv => ConflictsAreRivals
  <2> SUFFICES ASSUME TypeOK, IInv, PaidInv, NEW t \in Turns, pc[t] # "new"
               PROVE  conflicts[t] <= Cardinality(Rivals(t))
                                      + (IF StaleByMate(t) THEN 1 ELSE 0)
    BY DEF ConflictsAreRivals
  <2>1. conflicts[t] <= Cardinality(Met(t)) + OneStale(t)
    BY DEF PaidInv, Paid
  <2>2. Met(t) \subseteq Rivals(t)
    BY DEF Met
  <2>3. /\ Cardinality(Met(t)) \in Nat /\ Cardinality(Rivals(t)) \in Nat
        /\ Cardinality(Met(t)) <= Cardinality(Rivals(t))
    BY <2>2, RivalsFinite, CardinalityGrows
  <2>4. conflicts[t] \in Nat /\ OneStale(t) \in Nat
    BY DEF TypeOK, OneStale
  <2>5. conflicts[t] <= Cardinality(Rivals(t)) + OneStale(t)
    BY <2>1, <2>3, <2>4
  <2> QED BY <2>5 DEF OneStale
<1>3. TypeOK /\ TypeOK' /\ IInv /\ IInv' /\ LockInv /\ PaidInv /\ [Next]_vars
        => LockInv' /\ PaidInv'
  BY NextLock, NextPaid
<1> QED BY <1>1, <1>2, <1>3, TypeCorrect, InductiveInvariant, PTL DEF Spec

-----------------------------------------------------------------------------
(* Giving up. *)

\* A turn that is given up has used all its attempts, and a turn that has begun
\* runs in a process.
SpentInv ==
    \A t \in Turns :
        /\ pc[t] = "gave_up" => conflicts[t] = MaxAttempts
        /\ pc[t] # "new" => process[t] \in Processes

LEMMA NextSpent == TypeOK /\ TypeOK' /\ SpentInv /\ [Next]_vars => SpentInv'
<1> SUFFICES ASSUME TypeOK, TypeOK', SpentInv, [Next]_vars, NEW t \in Turns
             PROVE  /\ pc'[t] = "gave_up" => conflicts'[t] = MaxAttempts
                    /\ pc'[t] # "new" => process'[t] \in Processes
  BY DEF SpentInv
<1> DEFINE Goal == /\ pc'[t] = "gave_up" => conflicts'[t] = MaxAttempts
                   /\ pc'[t] # "new" => process'[t] \in Processes
<1>1. ASSUME NEW q \in Turns, NEW s \in Sessions, NEW p \in Processes,
             Begin(q, s, p)
      PROVE  Goal
  BY <1>1 DEF Begin, SpentInv, TypeOK
<1>2. ASSUME NEW q \in Turns, Conflict(q)
      PROVE  Goal
  <2>1. CASE q = t
    <3>1. conflicts'[t] \in 0..MaxAttempts
      BY DEF TypeOK
    <3>2. conflicts'[t] = conflicts[t] + 1 /\ conflicts[t] \in Nat
      BY <1>2, <2>1 DEF Conflict, TypeOK
    <3>3. pc'[t] = "gave_up" => ~ (conflicts[t] + 1 < MaxAttempts)
      BY <1>2, <2>1 DEF Conflict, TypeOK
    <3>4. pc'[t] = "gave_up" => conflicts'[t] = MaxAttempts
      BY <3>1, <3>2, <3>3, SequenceAssumption
    <3> QED BY <1>2, <2>1, <3>4 DEF Conflict, SpentInv
  <2>2. CASE q # t
    BY <1>2, <2>2 DEF Conflict, SpentInv, TypeOK
  <2> QED BY <2>1, <2>2
<1>3. ASSUME NEW q \in Turns,
             Lock(q) \/ NextSequence(q) \/ Insert(q) \/ Error(q)
      PROVE  Goal
  BY <1>3 DEF Lock, NextSequence, Insert, Error, Inside, SpentInv, TypeOK
<1>4. ASSUME UNCHANGED vars \/ \E p \in Processes : Crash(p)
      PROVE  Goal
  BY <1>4 DEF vars, Crash, Inside, SpentInv
<1> QED BY <1>1, <1>2, <1>3, <1>4 DEF Next, Proceed

\* A turn is given up only where other processes have written as many rows of
\* its session as it had attempts, or one less where reads repeat.
GivenUpToRivals ==
    \A t \in Turns : pc[t] = "gave_up" =>
        MaxAttempts <= Cardinality(Rivals(t)) + (IF RepeatableReads THEN 1 ELSE 0)

\* RuntimeError("Could not assign transcript sequence number.") takes that many
\* rivals (sdk/repositories.py, add_transcript_turn).
THEOREM TurnsYieldToRivals == Spec => []GivenUpToRivals
<1>1. Init => SpentInv
  BY DEF Init, SpentInv
<1>2. TypeOK /\ IInv /\ SpentInv /\ ConflictsAreRivals => GivenUpToRivals
  <2> SUFFICES ASSUME TypeOK, IInv, SpentInv, ConflictsAreRivals,
                      NEW t \in Turns, pc[t] = "gave_up"
               PROVE  MaxAttempts <= Cardinality(Rivals(t))
                                     + (IF RepeatableReads THEN 1 ELSE 0)
    BY DEF GivenUpToRivals
  <2>1. Cardinality(Rivals(t)) \in Nat
    BY RivalsFinite, FS_CardinalityType
  <2>2. MaxAttempts <= Cardinality(Rivals(t)) + (IF StaleByMate(t) THEN 1 ELSE 0)
    BY DEF SpentInv, ConflictsAreRivals
  <2>3. StaleByMate(t) => RepeatableReads
    BY DEF StaleByMate
  <2> QED BY <2>1, <2>2, <2>3, SequenceAssumption
<1> QED
  BY <1>1, <1>2, NextSpent, TypeCorrect, InductiveInvariant,
     ConflictsComeFromRivals, PTL DEF Spec

\* With a single server process the lock alone is enough: no turn is ever given
\* up, with two attempts where reads repeat and without a retry where they do
\* not (sdk/repositories.py, _sequence_locks).
THEOREM LockIsEnough ==
    ASSUME \A p, q \in Processes : p = q,
           RepeatableReads => MaxAttempts > 1
    PROVE  Spec => [](\A t \in Turns : pc[t] # "gave_up")
<1>1. Init => SpentInv
  BY DEF Init, SpentInv
<1>2. TypeOK /\ IInv /\ SpentInv /\ GivenUpToRivals
        => \A t \in Turns : pc[t] # "gave_up"
  <2> SUFFICES ASSUME TypeOK, IInv, SpentInv, GivenUpToRivals,
                      NEW t \in Turns, pc[t] = "gave_up"
               PROVE  FALSE
    OBVIOUS
  <2>1. session[t] \in Sessions /\ process[t] \in Processes
    BY DEF IInv, TurnInv, SpentInv
  <2>2. ASSUME NEW n \in DOMAIN rows[session[t]]
        PROVE  process[rows[session[t]][n]] = process[t]
    <3>1. PICK m \in Nat : rows[session[t]] \in [1..m -> Turns]
      BY <2>1 DEF IInv, RowsInv
    <3>2. /\ rows[session[t]][n] \in Turns
          /\ pc[rows[session[t]][n]] = "stored"
      BY <2>1, <3>1 DEF IInv, TurnInv
    <3> QED BY <2>1, <3>2 DEF SpentInv
  <2>3. Rivals(t) = {}
    BY <2>2 DEF Rivals
  <2>4. Cardinality(Rivals(t)) = 0
    BY <2>3, FS_EmptySet
  <2>5. MaxAttempts <= 0 + (IF RepeatableReads THEN 1 ELSE 0)
    BY <2>4 DEF GivenUpToRivals
  <2> QED BY <2>5, SequenceAssumption
<1> QED
  BY <1>1, <1>2, NextSpent, TypeCorrect, InductiveInvariant, TurnsYieldToRivals,
     PTL DEF Spec
=============================================================================
