------------------------- MODULE ZoomStreams_proofs -------------------------
(* Theorems about ZoomStreams, for any streams, processes and deliveries.   *)
EXTENDS StreamHistory, TLAPS

-----------------------------------------------------------------------------
(* The inductive invariant: who may name a client, and what a task and a    *)
(* session row know of each other.                                          *)

Known ==
    \A t \in Tasks : pc[t] # "idle" =>
        stream[t] \in Streams /\ process[t] \in Processes

ActivePlaces ==
    /\ \A c \in active : pc[c] \in {"joined", "done"}
    /\ \A t \in Tasks : pc[t] = "joined" => t \in active

RegistryNames ==
    \A p \in Processes, st \in Streams :
        clients[p][st] # None =>
            /\ clients[p][st] \in active
            /\ pc[clients[p][st]] = "done"
            /\ process[clients[p][st]] = p
            /\ stream[clients[p][st]] = st

StopsHold ==
    \A t \in Tasks :
        held[t] # None =>
            /\ pc[t] \in {"leaving", "failed"}
            /\ held[t] \in active
            /\ pc[held[t]] = "done"
            /\ process[held[t]] = process[t]
            /\ ~ Registered(held[t])
            /\ \A u \in Tasks : held[t] = held[u] => t = u

RowsNameStreams ==
    \A s \in Sessions :
        /\ meeting[s] = None => provider[s] = None
        /\ provider[s] # None =>
             /\ MeetingOf[provider[s]] = meeting[s]
             /\ \E kind \in {"started", "stopped"} :
                   <<kind, provider[s]>> \in recorded

ObjectsKnowRows ==
    \A a \in Tasks \cup Requests :
        /\ pc[a] \in {"created", "found", "listening", "joined", "stop_found",
                      "request_read", "request_pended", "request_calling"}
               => sess[a] # None
        /\ a \in active => sess[a] # None
        /\ sess[a] # None => meeting[sess[a]] # None
        /\ loaded[a].provider # None =>
               /\ pc[a] \in {"found", "stop_found", "request_read",
                             "request_pended", "request_calling"}
               /\ provider[sess[a]] # None

TasksKnowMeetings ==
    \A t \in Tasks :
        /\ pc[t] # "idle" => \E kind \in {"started", "stopped"} :
                                <<kind, stream[t]>> \in recorded
        /\ sess[t] # None =>
               pc[t] # "idle" /\ meeting[sess[t]] = MeetingOf[stream[t]]
        /\ pc[t] \in {"listening", "joined"} \/ t \in active =>
               provider[sess[t]] # None

OwnerInv == Known /\ ActivePlaces /\ RegistryNames /\ StopsHold

RowInv == RowsNameStreams /\ ObjectsKnowRows /\ TasksKnowMeetings

Inv == TypeOK /\ OwnerInv /\ RowInv

-----------------------------------------------------------------------------
\* The columns of a row are what an object may hold.
LEMMA RowType ==
    ASSUME TypeOK, NEW s \in Sessions
    PROVE  Row(s) \in [status : Statuses \cup {None},
                       provider : Streams \cup {None}]
  BY DEF Row, TypeOK, TableTypeOK

\* A lookup ends without an object, or with a row of the stream's meeting.
FoundOneOrNone(t, none, one) ==
    /\ UNCHANGED <<table, outside, delivery, queue, registry>>
    /\ \/ /\ Goto(t, none) \/ Goto(t, "refused")
          /\ UNCHANGED object
       \/ \E s \in Sessions :
             /\ meeting[s] = MeetingOf[stream[t]]
             /\ Goto(t, one)
             /\ sess' = [sess EXCEPT ![t] = s]
             /\ loaded' = [loaded EXCEPT ![t] = Row(s)]

LEMMA StartFindOutcomes ==
    ASSUME NEW t \in Tasks, StartFind(t)
    PROVE  pc[t] = "taken" /\ FoundOneOrNone(t, "missing", "found")
  BY DEF StartFind, Find, SessionsOf, FoundOneOrNone

LEMMA StopFindOutcomes ==
    ASSUME NEW t \in Tasks, StopFind(t)
    PROVE  pc[t] = "stopping" /\ FoundOneOrNone(t, "stop_ended", "stop_found")
  BY DEF StopFind, Find, SessionsOf, FoundOneOrNone

\* Every step keeps the types.
LEMMA TypeStep == Inv /\ [Next]_vars => TypeOK'
<1> SUFFICES ASSUME Inv, [Next]_vars PROVE TypeOK'
  OBVIOUS
<1> USE StreamAssumption DEF Inv, OwnerInv, RowInv, TypeOK, TableTypeOK,
      TaskTypeOK, Places, Statuses, Settled, StartPlaces, table, outside, delivery, object,
      registry
<1>1. ASSUME NEW s \in Sessions, NEW m \in Meetings, CreateSession(s, m)
      PROVE  TypeOK'
  BY <1>1 DEF CreateSession, Insert
<1>2. ASSUME NEW r \in Requests, NEW s \in Sessions, RequestRead(r, s)
      PROVE  TypeOK'
  BY <1>2 DEF RequestRead, Goto, Row
<1>3. ASSUME NEW r \in Requests, RequestPend(r) PROVE TypeOK'
  BY <1>3 DEF RequestPend, Goto, Save, ObjectsKnowRows
<1>4. ASSUME NEW r \in Requests, RequestRefresh(r) PROVE TypeOK'
  <2>1. sess[r] \in Sessions
    BY <1>4 DEF RequestRefresh, ObjectsKnowRows
  <2> QED BY <1>4, <2>1, RowType DEF RequestRefresh, Goto
<1>5. ASSUME NEW r \in Requests, RequestFinish(r) PROVE TypeOK'
  <2>1. sess[r] \in Sessions
    BY <1>5 DEF RequestFinish, ObjectsKnowRows
  <2>2. /\ status' \in [Sessions -> Statuses \cup {None}]
        /\ \A s \in Sessions : status[s] = None <=> status'[s] = None
        /\ meeting' = meeting
        /\ provider' = provider
    <3>1. CASE Save(r, "rtms_start_requested", None)
      BY <2>1, <3>1 DEF Save, ObjectsKnowRows
    <3>2. CASE UNCHANGED <<meeting, provider>>
               /\ status' = [status EXCEPT ![sess[r]] = "rtms_start_requested"]
      BY <1>5, <2>1, <3>2 DEF RequestFinish, ObjectsKnowRows
    <3> QED BY <1>5, <3>1, <3>2 DEF RequestFinish
  <2> QED BY <1>5, <2>1, <2>2 DEF RequestFinish, RequestOver, Goto, Unloaded
<1>6. ASSUME NEW r \in Requests, RequestFail(r) PROVE TypeOK'
  BY <1>6 DEF RequestFail, Goto, RequestOver, Unloaded
<1>7. ASSUME NEW st \in Streams, ZoomStart(st) PROVE TypeOK'
  BY <1>7 DEF ZoomStart
<1>8. ASSUME NEW st \in Streams, ZoomStop(st) PROVE TypeOK'
  BY <1>8 DEF ZoomStop
<1>9. ASSUME NEW t \in Tasks, NEW p \in Processes, NEW st \in Streams,
             StartReceive(t, p, st)
      PROVE  TypeOK'
  BY <1>9 DEF StartReceive, Goto, Receive
<1>10. ASSUME NEW t \in Tasks, NEW p \in Processes, NEW st \in Streams,
              StopReceive(t, p, st)
       PROVE  TypeOK'
  BY <1>10 DEF StopReceive, Goto, Receive
<1>11. ASSUME NEW t \in Tasks, StartQueue(t) PROVE TypeOK'
  <2>1. process[t] \in Processes
    BY <1>11 DEF StartQueue, Known
  <2>2. queue[process[t]] \in Seq(Tasks)
    BY <2>1
  <2>3. Append(queue[process[t]], t) \in Seq(Tasks)
    BY <1>11, <2>2 DEF StartQueue
  <2>4. queue' \in [Processes -> Seq(Tasks)]
    BY <1>11, <2>1, <2>3 DEF StartQueue
  <2> QED BY <1>11, <2>4 DEF StartQueue, Goto
<1>12. ASSUME NEW t \in Tasks, StartTake(t) PROVE TypeOK'
  <2>1. process[t] \in Processes
    BY <1>12 DEF StartTake, Known
  <2>2. queue[process[t]] \in Seq(Tasks)
    BY <2>1
  <2>3. Tail(queue[process[t]]) \in Seq(Tasks)
    BY <1>12, <2>2 DEF StartTake
  <2>4. queue' \in [Processes -> Seq(Tasks)]
    BY <1>12, <2>1, <2>3 DEF StartTake
  <2> QED BY <1>12, <2>4 DEF StartTake, Goto
<1>13. ASSUME NEW t \in Tasks, StartFind(t) PROVE TypeOK'
  <2>1. pc[t] = "taken"
    BY <1>13, StartFindOutcomes
  <2>2. FoundOneOrNone(t, "missing", "found")
    BY <1>13, StartFindOutcomes
  <2>3. CASE Goto(t, "missing") /\ UNCHANGED object
    BY <2>1, <2>2, <2>3 DEF Goto, FoundOneOrNone
  <2>4. CASE Goto(t, "refused") /\ UNCHANGED object
    BY <2>1, <2>2, <2>4 DEF Goto, FoundOneOrNone
  <2>5. ASSUME NEW s \in Sessions,
               Goto(t, "found"),
               sess' = [sess EXCEPT ![t] = s],
               loaded' = [loaded EXCEPT ![t] = Row(s)]
        PROVE  TypeOK'
    BY <2>1, <2>2, <2>5, RowType DEF Goto, FoundOneOrNone
  <2> QED BY <2>2, <2>3, <2>4, <2>5 DEF FoundOneOrNone
<1>14. ASSUME NEW t \in Tasks, NEW s \in Sessions, StartCreate(t, s)
       PROVE  TypeOK'
  BY <1>14 DEF StartCreate, Goto, Insert, Known
<1>15. ASSUME NEW t \in Tasks, StartRefresh(t) PROVE TypeOK'
  <2>1. sess[t] \in Sessions
    BY <1>15 DEF StartRefresh, ObjectsKnowRows
  <2> QED BY <1>15, <2>1, RowType DEF StartRefresh, Goto
<1>16. ASSUME NEW t \in Tasks, StartListen(t) PROVE TypeOK'
  BY <1>16 DEF StartListen, Goto, Save, Unloaded, ObjectsKnowRows
<1>17. ASSUME NEW t \in Tasks, StartJoin(t) PROVE TypeOK'
  BY <1>17 DEF StartJoin, Goto
<1>18. ASSUME NEW t \in Tasks, StartRegister(t) PROVE TypeOK'
  BY <1>18 DEF StartRegister, Goto
<1>19. ASSUME NEW t \in Tasks, StopFind(t) PROVE TypeOK'
  <2>1. pc[t] = "stopping"
    BY <1>19, StopFindOutcomes
  <2>2. FoundOneOrNone(t, "stop_ended", "stop_found")
    BY <1>19, StopFindOutcomes
  <2>3. CASE Goto(t, "stop_ended") /\ UNCHANGED object
    BY <2>1, <2>2, <2>3 DEF Goto, FoundOneOrNone
  <2>4. CASE Goto(t, "refused") /\ UNCHANGED object
    BY <2>1, <2>2, <2>4 DEF Goto, FoundOneOrNone
  <2>5. ASSUME NEW s \in Sessions,
               Goto(t, "stop_found"),
               sess' = [sess EXCEPT ![t] = s],
               loaded' = [loaded EXCEPT ![t] = Row(s)]
        PROVE  TypeOK'
    BY <2>1, <2>2, <2>5, RowType DEF Goto, FoundOneOrNone
  <2> QED BY <2>2, <2>3, <2>4, <2>5 DEF FoundOneOrNone
<1>20. ASSUME NEW t \in Tasks, StopEnd(t) PROVE TypeOK'
  BY <1>20 DEF StopEnd, Goto, Save, Unloaded, ObjectsKnowRows
<1>21. ASSUME NEW t \in Tasks, StopPop(t) PROVE TypeOK'
  <2>1. process[t] \in Processes /\ stream[t] \in Streams
    BY <1>21 DEF StopPop, Known
  <2>2. clients[process[t]][stream[t]] \in Tasks \cup {None}
    BY <2>1
  <2> QED BY <1>21, <2>1, <2>2 DEF StopPop, Goto
<1>22. ASSUME NEW t \in Tasks, StopLeave(t) PROVE TypeOK'
  BY <1>22 DEF StopLeave, Goto
<1>23. ASSUME NEW t \in Tasks, TaskFail(t) PROVE TypeOK'
  BY <1>23 DEF TaskFail, Goto, Unloaded
<1>24. ASSUME NEW p \in Processes, Crash(p) PROVE TypeOK'
  BY <1>24 DEF Crash, Settled, Unloaded
<1>25. CASE UNCHANGED vars
  BY <1>25 DEF vars
<1> QED BY <1>1, <1>2, <1>3, <1>4, <1>5, <1>6, <1>7, <1>8, <1>9, <1>10, <1>11,
      <1>12, <1>13, <1>14, <1>15, <1>16, <1>17, <1>18, <1>19, <1>20, <1>21,
      <1>22, <1>23, <1>24, <1>25
  DEF Next, Zoom, Request, Proceed

\* Every step keeps the registry and the stops in agreement.
LEMMA OwnerStep == Inv /\ [Next]_vars => OwnerInv'
<1> SUFFICES ASSUME Inv, [Next]_vars PROVE OwnerInv'
  OBVIOUS
<1> USE StreamAssumption DEF Inv, OwnerInv, RowInv, TypeOK, TableTypeOK,
      TaskTypeOK, Known, ActivePlaces, RegistryNames, StopsHold, Registered, table, outside,
      delivery, object, registry
<1>1. ASSUME NEW s \in Sessions, NEW m \in Meetings, CreateSession(s, m)
      PROVE  OwnerInv'
  BY <1>1 DEF CreateSession, Insert
<1>2. ASSUME NEW r \in Requests, NEW s \in Sessions, RequestRead(r, s)
      PROVE  OwnerInv'
  BY <1>2 DEF RequestRead, Goto, Row
<1>3. ASSUME NEW r \in Requests, RequestPend(r) PROVE OwnerInv'
  BY <1>3 DEF RequestPend, Goto, Save
<1>4. ASSUME NEW r \in Requests, RequestRefresh(r) PROVE OwnerInv'
  BY <1>4 DEF RequestRefresh, Goto, Row
<1>5. ASSUME NEW r \in Requests, RequestFinish(r) PROVE OwnerInv'
  BY <1>5 DEF RequestFinish, Goto, RequestOver, Save, Unloaded
<1>6. ASSUME NEW r \in Requests, RequestFail(r) PROVE OwnerInv'
  BY <1>6 DEF RequestFail, Goto, RequestOver, Unloaded
<1>7. ASSUME NEW st \in Streams, ZoomStart(st) PROVE OwnerInv'
  BY <1>7 DEF ZoomStart
<1>8. ASSUME NEW st \in Streams, ZoomStop(st) PROVE OwnerInv'
  BY <1>8 DEF ZoomStop
<1>9. ASSUME NEW t \in Tasks, NEW p \in Processes, NEW st \in Streams,
             StartReceive(t, p, st)
      PROVE  OwnerInv'
  BY <1>9 DEF StartReceive, Goto, Receive
<1>10. ASSUME NEW t \in Tasks, NEW p \in Processes, NEW st \in Streams,
              StopReceive(t, p, st)
       PROVE  OwnerInv'
  BY <1>10 DEF StopReceive, Goto, Receive
<1>11. ASSUME NEW t \in Tasks, StartQueue(t) PROVE OwnerInv'
  BY <1>11 DEF StartQueue, Goto
<1>12. ASSUME NEW t \in Tasks, StartTake(t) PROVE OwnerInv'
  BY <1>12 DEF StartTake, Goto
<1>13. ASSUME NEW t \in Tasks, StartFind(t) PROVE OwnerInv'
  <2>1. pc[t] = "taken"
    BY <1>13, StartFindOutcomes
  <2>2. FoundOneOrNone(t, "missing", "found")
    BY <1>13, StartFindOutcomes
  <2>3. CASE Goto(t, "missing")
    BY <2>1, <2>2, <2>3 DEF Goto, FoundOneOrNone
  <2>4. CASE Goto(t, "refused")
    BY <2>1, <2>2, <2>4 DEF Goto, FoundOneOrNone
  <2>5. CASE Goto(t, "found")
    BY <2>1, <2>2, <2>5 DEF Goto, FoundOneOrNone
  <2> QED BY <2>2, <2>3, <2>4, <2>5 DEF FoundOneOrNone
<1>14. ASSUME NEW t \in Tasks, NEW s \in Sessions, StartCreate(t, s)
       PROVE  OwnerInv'
  BY <1>14 DEF StartCreate, Goto, Insert
<1>15. ASSUME NEW t \in Tasks, StartRefresh(t) PROVE OwnerInv'
  BY <1>15 DEF StartRefresh, Goto, Row
<1>16. ASSUME NEW t \in Tasks, StartListen(t) PROVE OwnerInv'
  BY <1>16 DEF StartListen, Goto, Save, Unloaded
<1>17. ASSUME NEW t \in Tasks, StartJoin(t) PROVE OwnerInv'
  BY <1>17 DEF StartJoin, Goto
<1>18. ASSUME NEW t \in Tasks, StartRegister(t) PROVE OwnerInv'
  BY <1>18 DEF StartRegister, Goto
<1>19. ASSUME NEW t \in Tasks, StopFind(t) PROVE OwnerInv'
  <2>1. pc[t] = "stopping"
    BY <1>19, StopFindOutcomes
  <2>2. FoundOneOrNone(t, "stop_ended", "stop_found")
    BY <1>19, StopFindOutcomes
  <2>3. CASE Goto(t, "stop_ended")
    BY <2>1, <2>2, <2>3 DEF Goto, FoundOneOrNone
  <2>4. CASE Goto(t, "refused")
    BY <2>1, <2>2, <2>4 DEF Goto, FoundOneOrNone
  <2>5. CASE Goto(t, "stop_found")
    BY <2>1, <2>2, <2>5 DEF Goto, FoundOneOrNone
  <2> QED BY <2>2, <2>3, <2>4, <2>5 DEF FoundOneOrNone
<1>20. ASSUME NEW t \in Tasks, StopEnd(t) PROVE OwnerInv'
  BY <1>20 DEF StopEnd, Goto, Save, Unloaded
<1>21. ASSUME NEW t \in Tasks, StopPop(t) PROVE OwnerInv'
  <2> DEFINE c == clients[process[t]][stream[t]]
  <2>1. /\ process[t] \in Processes /\ stream[t] \in Streams
        /\ pc[t] = "stop_ended"
    BY <1>21 DEF StopPop
  <2>2. /\ held' = [held EXCEPT ![t] = c]
        /\ clients' = [clients EXCEPT ![process[t]][stream[t]] = None]
        /\ UNCHANGED <<table, outside, delivery, object, queue, active>>
    BY <1>21 DEF StopPop
  <2>3. pc' = [pc EXCEPT ![t] = IF c = None THEN "done" ELSE "leaving"]
    BY <1>21, <2>2 DEF StopPop, Goto
  <2>4. c # None => /\ c \in active /\ pc[c] = "done"
                   /\ process[c] = process[t] /\ stream[c] = stream[t]
    BY <2>1
  <2> HIDE DEF c
  <2>5. Known' /\ ActivePlaces' /\ RegistryNames'
    BY <2>1, <2>2, <2>3, <2>4
  <2>6. \A u \in Tasks : held[u] # None => held[u] # c
    BY <2>1, <2>4 DEF c
  <2>7. StopsHold'
    BY <2>1, <2>2, <2>3, <2>4, <2>6
  <2> QED BY <2>5, <2>7
<1>22. ASSUME NEW t \in Tasks, StopLeave(t) PROVE OwnerInv'
  BY <1>22 DEF StopLeave, Goto
<1>23. ASSUME NEW t \in Tasks, TaskFail(t) PROVE OwnerInv'
  BY <1>23 DEF TaskFail, Goto, Unloaded
<1>24. ASSUME NEW p \in Processes, Crash(p) PROVE OwnerInv'
  BY <1>24 DEF Crash, Settled, Unloaded
<1>25. CASE UNCHANGED vars
  BY <1>25 DEF vars
<1> QED BY <1>1, <1>2, <1>3, <1>4, <1>5, <1>6, <1>7, <1>8, <1>9, <1>10, <1>11,
      <1>12, <1>13, <1>14, <1>15, <1>16, <1>17, <1>18, <1>19, <1>20, <1>21,
      <1>22, <1>23, <1>24, <1>25
  DEF Next, Zoom, Request, Proceed

\* Every step keeps what tasks, objects and rows know of each other.
LEMMA RowStep == Inv /\ [Next]_vars => RowInv'
<1> SUFFICES ASSUME Inv, [Next]_vars PROVE RowInv'
  OBVIOUS
<1> USE StreamAssumption DEF Inv, OwnerInv, RowInv, TypeOK, TableTypeOK,
      TaskTypeOK, ActivePlaces, RowsNameStreams, ObjectsKnowRows, TasksKnowMeetings,
      table, outside, delivery, object, registry
<1>1. ASSUME NEW s \in Sessions, NEW m \in Meetings, CreateSession(s, m)
      PROVE  RowInv'
  BY <1>1 DEF CreateSession, Insert
<1>2. ASSUME NEW r \in Requests, NEW s \in Sessions, RequestRead(r, s)
      PROVE  RowInv'
  BY <1>2 DEF RequestRead, Goto, Row
<1>3. ASSUME NEW r \in Requests, RequestPend(r) PROVE RowInv'
  BY <1>3 DEF RequestPend, Goto, Save
<1>4. ASSUME NEW r \in Requests, RequestRefresh(r) PROVE RowInv'
  BY <1>4 DEF RequestRefresh, Goto, Row
<1>5. ASSUME NEW r \in Requests, RequestFinish(r) PROVE RowInv'
  BY <1>5 DEF RequestFinish, Goto, RequestOver, Save, Unloaded
<1>6. ASSUME NEW r \in Requests, RequestFail(r) PROVE RowInv'
  BY <1>6 DEF RequestFail, Goto, RequestOver, Unloaded
<1>7. ASSUME NEW st \in Streams, ZoomStart(st) PROVE RowInv'
  BY <1>7 DEF ZoomStart
<1>8. ASSUME NEW st \in Streams, ZoomStop(st) PROVE RowInv'
  BY <1>8 DEF ZoomStop
<1>9. ASSUME NEW t \in Tasks, NEW p \in Processes, NEW st \in Streams,
             StartReceive(t, p, st)
      PROVE  RowInv'
  BY <1>9 DEF StartReceive, Goto, Receive
<1>10. ASSUME NEW t \in Tasks, NEW p \in Processes, NEW st \in Streams,
              StopReceive(t, p, st)
       PROVE  RowInv'
  BY <1>10 DEF StopReceive, Goto, Receive
<1>11. ASSUME NEW t \in Tasks, StartQueue(t) PROVE RowInv'
  BY <1>11 DEF StartQueue, Goto
<1>12. ASSUME NEW t \in Tasks, StartTake(t) PROVE RowInv'
  BY <1>12 DEF StartTake, Goto
<1>13. ASSUME NEW t \in Tasks, StartFind(t) PROVE RowInv'
  <2>1. pc[t] = "taken"
    BY <1>13, StartFindOutcomes
  <2>2. FoundOneOrNone(t, "missing", "found")
    BY <1>13, StartFindOutcomes
  <2>3. CASE UNCHANGED object
    BY <2>1, <2>2, <2>3 DEF Goto, FoundOneOrNone
  <2>4. ASSUME NEW s \in Sessions,
               meeting[s] = MeetingOf[stream[t]],
               Goto(t, "found"),
               sess' = [sess EXCEPT ![t] = s],
               loaded' = [loaded EXCEPT ![t] = Row(s)]
        PROVE  RowInv'
    <3>1. stream[t] \in Streams /\ t \notin active
      BY <2>1 DEF Known
    <3>2. meeting[s] # None
      BY <3>1, <2>4
    <3> QED BY <2>1, <2>2, <2>4, <3>1, <3>2 DEF Goto, Row, FoundOneOrNone
  <2> QED BY <2>2, <2>3, <2>4 DEF FoundOneOrNone
<1>14. ASSUME NEW t \in Tasks, NEW s \in Sessions, StartCreate(t, s)
       PROVE  RowInv'
  <2>1. pc[t] = "missing" /\ meeting[s] = None
    BY <1>14 DEF StartCreate, Insert
  <2>2. stream[t] \in Streams
    BY <2>1 DEF Known
  <2>3. t \notin active /\ provider[s] = None
    BY <2>1
  <2>4. \A a \in Tasks \cup Requests : sess[a] # s
    BY <2>1
  <2>5. /\ meeting' = [meeting EXCEPT ![s] = MeetingOf[stream[t]]]
        /\ sess' = [sess EXCEPT ![t] = s]
        /\ pc' = [pc EXCEPT ![t] = "created"]
        /\ UNCHANGED <<provider, recorded, stream, loaded, active>>
    BY <1>14 DEF StartCreate, Insert, Goto
  <2>6. MeetingOf[stream[t]] # None
    BY <2>1, <2>2, <2>3, <2>4
  <2>7. RowsNameStreams'
    BY <2>1, <2>2, <2>3, <2>4, <2>5
  <2>8. ObjectsKnowRows'
    BY <2>1, <2>2, <2>3, <2>4, <2>5, <2>6
  <2>9. TasksKnowMeetings'
    BY <2>1, <2>2, <2>3, <2>4, <2>5
  <2> QED BY <2>7, <2>8, <2>9
<1>15. ASSUME NEW t \in Tasks, StartRefresh(t) PROVE RowInv'
  BY <1>15 DEF StartRefresh, Goto, Row
<1>16. ASSUME NEW t \in Tasks, StartListen(t) PROVE RowInv'
  BY <1>16 DEF StartListen, Goto, Save, Unloaded, Known
<1>17. ASSUME NEW t \in Tasks, StartJoin(t) PROVE RowInv'
  BY <1>17 DEF StartJoin, Goto
<1>18. ASSUME NEW t \in Tasks, StartRegister(t) PROVE RowInv'
  BY <1>18 DEF StartRegister, Goto
<1>19. ASSUME NEW t \in Tasks, StopFind(t) PROVE RowInv'
  <2>1. pc[t] = "stopping"
    BY <1>19, StopFindOutcomes
  <2>2. FoundOneOrNone(t, "stop_ended", "stop_found")
    BY <1>19, StopFindOutcomes
  <2>3. CASE UNCHANGED object
    BY <2>1, <2>2, <2>3 DEF Goto, FoundOneOrNone
  <2>4. ASSUME NEW s \in Sessions,
               meeting[s] = MeetingOf[stream[t]],
               Goto(t, "stop_found"),
               sess' = [sess EXCEPT ![t] = s],
               loaded' = [loaded EXCEPT ![t] = Row(s)]
        PROVE  RowInv'
    <3>1. stream[t] \in Streams /\ t \notin active
      BY <2>1 DEF Known
    <3>2. meeting[s] # None
      BY <3>1, <2>4
    <3> QED BY <2>1, <2>2, <2>4, <3>1, <3>2 DEF Goto, Row, FoundOneOrNone
  <2> QED BY <2>2, <2>3, <2>4 DEF FoundOneOrNone
<1>20. ASSUME NEW t \in Tasks, StopEnd(t) PROVE RowInv'
  BY <1>20 DEF StopEnd, Goto, Save, Unloaded, Known
<1>21. ASSUME NEW t \in Tasks, StopPop(t) PROVE RowInv'
  BY <1>21 DEF StopPop, Goto
<1>22. ASSUME NEW t \in Tasks, StopLeave(t) PROVE RowInv'
  BY <1>22 DEF StopLeave, Goto
<1>23. ASSUME NEW t \in Tasks, TaskFail(t) PROVE RowInv'
  BY <1>23 DEF TaskFail, Goto, Unloaded
<1>24. ASSUME NEW p \in Processes, Crash(p) PROVE RowInv'
  BY <1>24 DEF Crash, Settled, Unloaded
<1>25. CASE UNCHANGED vars
  BY <1>25 DEF vars
<1> QED BY <1>1, <1>2, <1>3, <1>4, <1>5, <1>6, <1>7, <1>8, <1>9, <1>10, <1>11,
      <1>12, <1>13, <1>14, <1>15, <1>16, <1>17, <1>18, <1>19, <1>20, <1>21,
      <1>22, <1>23, <1>24, <1>25
  DEF Next, Zoom, Request, Proceed

\* The invariant holds before the first event.
LEMMA InitInv == Init => Inv
<1> SUFFICES ASSUME Init PROVE Inv
  OBVIOUS
<1> USE StreamAssumption DEF Init, Unloaded
<1>1. TypeOK
  BY DEF TypeOK, TableTypeOK, TaskTypeOK, Places, Statuses
<1>2. OwnerInv
  BY DEF OwnerInv, Known, ActivePlaces, RegistryNames, StopsHold
<1>3. RowInv
  BY DEF RowInv, RowsNameStreams, ObjectsKnowRows, TasksKnowMeetings
<1> QED BY <1>1, <1>2, <1>3 DEF Inv

\* The invariant is inductive.
THEOREM InductiveInvariant == Spec => []Inv
<1>1. Inv /\ [Next]_vars => Inv'
  BY TypeStep, OwnerStep, RowStep DEF Inv
<1> QED BY InitInv, <1>1, PTL DEF Spec

-----------------------------------------------------------------------------
\* Every variable keeps its type and a session row has all its columns.
THEOREM TypeCorrect == Spec => []TypeOK
<1>1. Inv => TypeOK
  BY DEF Inv
<1> QED BY InductiveInvariant, <1>1, PTL

\* The registry names joined clients of its process and stream only, and no two
\* stops ever have the same client in hand (manager.py, clients.pop): whatever
\* webhooks are repeated or overlap, no client is told to leave twice.
THEOREM ClientsHaveOneOwner == Spec => []OneOwner
<1>1. Inv => OneOwner
  BY DEF Inv, OwnerInv, OneOwner, RegistryNames, StopsHold, Registered
<1> QED BY InductiveInvariant, <1>1, PTL

\* What a client hears goes to a session of its own meeting, which has named a
\* stream of that meeting from before the join on (repositories.py,
\* update_session_status writes only the columns it changes).
THEOREM TurnsStayInMeeting == Spec => []HeardInItsMeeting
<1>1. Inv => HeardInItsMeeting
  <2> SUFFICES ASSUME Inv, NEW c \in active
               PROVE  /\ meeting[sess[c]] = MeetingOf[stream[c]]
                      /\ provider[sess[c]] # None
                      /\ MeetingOf[provider[sess[c]]] = meeting[sess[c]]
                      /\ \E kind \in {"started", "stopped"} :
                            <<kind, provider[sess[c]]>> \in recorded
    BY DEF HeardInItsMeeting
  <2>1. c \in Tasks /\ sess[c] # None /\ sess[c] \in Sessions
    BY StreamAssumption DEF Inv, RowInv, TypeOK, TaskTypeOK, ObjectsKnowRows
  <2> QED BY <2>1 DEF Inv, RowInv, RowsNameStreams, TasksKnowMeetings
<1> QED BY InductiveInvariant, <1>1, PTL

-----------------------------------------------------------------------------
(* What becomes of a joined client. *)

Kept(c) ==
    \/ pc[c] = "joined"
    \/ Registered(c)
    \/ \E t \in Tasks : held[t] = c
    \/ \E d \in Tasks \ {c} : /\ stream[d] = stream[c]
                              /\ process[d] = process[c]
                              /\ pc[d] = "done"
                              /\ sess[d] # None

NotForgotten == \A c \in active : Kept(c)

\* A stop that holds a client is telling it to leave, or has failed to.
LEMMA KeptOrLost == Inv /\ NotForgotten => LostToSuccessorOrFailure
BY StreamAssumption
DEF Inv, TypeOK, TaskTypeOK, OwnerInv, StopsHold, NotForgotten, Kept,
    LostToSuccessorOrFailure, InHand, LeaveFailed

\* A step that leaves the registry and the starts that have joined alone, and
\* ends no delivery.
Quiet ==
    /\ UNCHANGED registry
    /\ \A t \in Tasks : pc[t] \in {"joined", "done"} =>
          /\ pc'[t] = pc[t]
          /\ sess'[t] = sess[t]
          /\ stream'[t] = stream[t]
          /\ process'[t] = process[t]
    /\ \A t \in Tasks : pc'[t] \in {"leaving", "done"} => pc[t] = pc'[t]

\* A quiet step loses no client.
LEMMA QuietKeeps ==
    ASSUME Inv, NotForgotten, Quiet
    PROVE  NotForgotten'
<1> SUFFICES ASSUME NEW c \in active PROVE Kept(c)'
  BY DEF NotForgotten, Kept, Quiet, registry
<1> USE DEF Inv, OwnerInv, TypeOK, TaskTypeOK, ActivePlaces, Quiet, registry
<1>1. c \in Tasks /\ pc[c] \in {"joined", "done"}
  OBVIOUS
<1>2. CASE pc[c] = "joined"
  BY <1>1, <1>2 DEF Kept
<1>3. CASE Registered(c)
  BY <1>1, <1>3 DEF Kept, Registered
<1>4. CASE \E t \in Tasks : held[t] = c
  <2>1. PICK t \in Tasks : held[t] = c
    BY <1>4
  <2>2. held'[t] = c
    BY <2>1
  <2> QED BY <2>2 DEF Kept
<1>5. ASSUME NEW d \in Tasks \ {c}, stream[d] = stream[c],
             process[d] = process[c], pc[d] = "done", sess[d] # None
      PROVE  Kept(c)'
  BY <1>1, <1>5 DEF Kept
<1> QED BY <1>2, <1>3, <1>4, <1>5 DEF NotForgotten, Kept

\* The other steps are quiet.
LEMMA OtherSteps ==
    Inv /\ [Next]_vars => \/ Quiet
                          \/ \E t \in Tasks : \/ StartJoin(t) \/ StartRegister(t)
                                               \/ StopPop(t) \/ StopLeave(t)
                          \/ \E p \in Processes : Crash(p)
<1> SUFFICES ASSUME Inv, [Next]_vars,
                    \A t \in Tasks : ~ (\/ StartJoin(t) \/ StartRegister(t)
                                        \/ StopPop(t) \/ StopLeave(t)),
                    \A p \in Processes : ~ Crash(p)
             PROVE  Quiet
  OBVIOUS
<1> USE DEF Inv, TypeOK, TaskTypeOK, Quiet, table, outside, delivery, object,
      registry
<1>1. ASSUME NEW s \in Sessions, NEW m \in Meetings, CreateSession(s, m)
      PROVE  Quiet
  BY <1>1 DEF CreateSession, Insert
<1>2. ASSUME NEW r \in Requests, NEW s \in Sessions, RequestRead(r, s)
      PROVE  Quiet
  BY <1>2 DEF RequestRead, Goto, Row
<1>3. ASSUME NEW r \in Requests, RequestPend(r) PROVE Quiet
  BY <1>3 DEF RequestPend, Goto, Save
<1>4. ASSUME NEW r \in Requests, RequestRefresh(r) PROVE Quiet
  BY <1>4 DEF RequestRefresh, Goto, Row
<1>5. ASSUME NEW r \in Requests, RequestFinish(r) PROVE Quiet
  BY <1>5 DEF RequestFinish, Goto, RequestOver, Save, Unloaded
<1>6. ASSUME NEW r \in Requests, RequestFail(r) PROVE Quiet
  BY <1>6, StreamAssumption DEF RequestFail, Goto, RequestOver, Unloaded
<1>7. ASSUME NEW st \in Streams, ZoomStart(st) PROVE Quiet
  BY <1>7 DEF ZoomStart
<1>8. ASSUME NEW st \in Streams, ZoomStop(st) PROVE Quiet
  BY <1>8 DEF ZoomStop
<1>9. ASSUME NEW t \in Tasks, NEW p \in Processes, NEW st \in Streams,
             StartReceive(t, p, st)
      PROVE  Quiet
  BY <1>9 DEF StartReceive, Goto, Receive
<1>10. ASSUME NEW t \in Tasks, NEW p \in Processes, NEW st \in Streams,
              StopReceive(t, p, st)
       PROVE  Quiet
  BY <1>10 DEF StopReceive, Goto, Receive
<1>11. ASSUME NEW t \in Tasks, StartQueue(t) PROVE Quiet
  BY <1>11 DEF StartQueue, Goto
<1>12. ASSUME NEW t \in Tasks, StartTake(t) PROVE Quiet
  BY <1>12 DEF StartTake, Goto
<1>13. ASSUME NEW t \in Tasks, StartFind(t) PROVE Quiet
  BY <1>13 DEF StartFind, Goto, Find, Row, SessionsOf
<1>14. ASSUME NEW t \in Tasks, NEW s \in Sessions, StartCreate(t, s)
       PROVE  Quiet
  BY <1>14 DEF StartCreate, Goto, Insert
<1>15. ASSUME NEW t \in Tasks, StartRefresh(t) PROVE Quiet
  BY <1>15 DEF StartRefresh, Goto, Row
<1>16. ASSUME NEW t \in Tasks, StartListen(t) PROVE Quiet
  BY <1>16 DEF StartListen, Goto, Save, Unloaded
<1>17. ASSUME NEW t \in Tasks, StopFind(t) PROVE Quiet
  BY <1>17 DEF StopFind, Goto, Find, Row, SessionsOf
<1>18. ASSUME NEW t \in Tasks, StopEnd(t) PROVE Quiet
  BY <1>18 DEF StopEnd, Goto, Save, Unloaded
<1>19. ASSUME NEW t \in Tasks, TaskFail(t) PROVE Quiet
  BY <1>19 DEF TaskFail, Goto, Unloaded
<1>20. CASE UNCHANGED vars
  BY <1>20 DEF vars
<1> QED BY <1>1, <1>2, <1>3, <1>4, <1>5, <1>6, <1>7, <1>8, <1>9, <1>10, <1>11,
      <1>12, <1>13, <1>14, <1>15, <1>16, <1>17, <1>18, <1>19, <1>20
  DEF Next, Zoom, Request, Proceed

\* No step loses a client but to a stop or a successor.
LEMMA SuccessorStep ==
    ASSUME Inv, NotForgotten, [Next]_vars
    PROVE  NotForgotten'
<1> USE DEF Inv, OwnerInv, TypeOK, TaskTypeOK, Known, ActivePlaces, Kept,
      Registered, table, outside, delivery, object, registry
<1>1. CASE Quiet
  BY <1>1, QuietKeeps
<1>2. ASSUME NEW t \in Tasks, StartJoin(t), NEW c \in active' PROVE Kept(c)'
  <2>1. CASE c = t
    BY <1>2, <2>1 DEF StartJoin, Goto
  <2>2. CASE c # t
    <3>1. c \in active /\ Kept(c)
      BY <1>2, <2>2 DEF StartJoin, NotForgotten
    <3> QED BY <1>2, <2>2, <3>1 DEF StartJoin, Goto
  <2> QED BY <2>1, <2>2
<1>3. ASSUME NEW t \in Tasks, StartRegister(t), NEW c \in active'
      PROVE  Kept(c)'
  <2>1. c \in active /\ c \in Tasks /\ Kept(c) /\ sess[t] # None
    BY <1>3 DEF StartRegister, NotForgotten, RowInv, ObjectsKnowRows
  <2>2. process[t] \in Processes /\ stream[t] \in Streams
    BY <1>3 DEF StartRegister
  <2>3. CASE c = t
    BY <1>3, <2>1, <2>2, <2>3 DEF StartRegister
  <2>4. CASE c # t /\ Registered(c) /\ process[c] = process[t]
                   /\ stream[c] = stream[t]
    BY <1>3, <2>1, <2>4 DEF StartRegister, Goto
  <2>5. CASE c # t /\ ~ (Registered(c) /\ process[c] = process[t]
                         /\ stream[c] = stream[t])
    BY <1>3, <2>1, <2>2, <2>5 DEF StartRegister, Goto
  <2> QED BY <2>3, <2>4, <2>5
<1>4. ASSUME NEW t \in Tasks, StopPop(t), NEW c \in active' PROVE Kept(c)'
  <2>1. /\ c \in active /\ c \in Tasks /\ Kept(c)
        /\ pc[t] = "stop_ended" /\ held[t] = None
    BY <1>4 DEF StopPop, NotForgotten, StopsHold
  <2>2. process[t] \in Processes /\ stream[t] \in Streams
    BY <2>1
  <2>3. CASE Registered(c) /\ process[c] = process[t] /\ stream[c] = stream[t]
    <3>1. held'[t] = c
      BY <1>4, <2>3 DEF StopPop
    <3> QED BY <3>1
  <2>4. CASE ~ (Registered(c) /\ process[c] = process[t]
                /\ stream[c] = stream[t])
    <3>1. /\ \A u \in Tasks : u # t => held'[u] = held[u] /\ pc'[u] = pc[u]
          /\ UNCHANGED <<stream, process, sess>>
          /\ clients' = [clients EXCEPT ![process[t]][stream[t]] = None]
      BY <1>4 DEF StopPop, Goto
    <3>2. CASE pc[c] = "joined"
      BY <2>1, <3>1, <3>2
    <3>3. CASE Registered(c)
      BY <2>1, <2>2, <2>4, <3>1, <3>3
    <3>4. ASSUME NEW u \in Tasks, held[u] = c
          PROVE  \E v \in Tasks : held'[v] = c
      BY <2>1, <3>1, <3>4, StreamAssumption
    <3>5. ASSUME NEW d \in Tasks \ {c}, stream[d] = stream[c],
                 process[d] = process[c], pc[d] = "done", sess[d] # None
          PROVE  \E e \in Tasks \ {c} :
                    /\ stream'[e] = stream'[c] /\ process'[e] = process'[c]
                    /\ pc'[e] = "done" /\ sess'[e] # None
      BY <2>1, <3>1, <3>5
    <3> QED BY <2>1, <3>2, <3>3, <3>4, <3>5
  <2> QED BY <2>3, <2>4
<1>5. ASSUME NEW t \in Tasks, StopLeave(t), NEW c \in active' PROVE Kept(c)'
  <2>1. c \in active /\ c \in Tasks /\ Kept(c) /\ c # held[t] /\ c # t
    BY <1>5 DEF StopLeave, NotForgotten
  <2> QED BY <1>5, <2>1 DEF StopLeave, Goto
<1>6. ASSUME NEW p \in Processes, Crash(p), NEW c \in active' PROVE Kept(c)'
  <2>1. c \in active /\ c \in Tasks /\ Kept(c) /\ process[c] # p
    BY <1>6 DEF Crash, NotForgotten
  <2>2. \A t \in Tasks : held[t] = c => process[t] = process[c]
    BY <2>1, StreamAssumption DEF StopsHold
  <2> QED BY <1>6, <2>1, <2>2 DEF Crash, Settled
<1> QED BY <1>1, <1>2, <1>3, <1>4, <1>5, <1>6, OtherSteps
     DEF NotForgotten

\* A joined client is lost to the registry only by a stop that fails to make it
\* leave, or to another client of its stream and process (manager.py,
\* clients[stream_id] = client): nothing else, and no restart of another process,
\* makes the manager forget one.
THEOREM ClientsAreNotForgotten == Spec => []LostToSuccessorOrFailure
<1>1. Init => NotForgotten
  BY DEF Init, NotForgotten
<1>2. Inv /\ NotForgotten => LostToSuccessorOrFailure
  BY KeptOrLost
<1> QED BY InductiveInvariant, <1>1, <1>2, SuccessorStep, PTL DEF Spec

-----------------------------------------------------------------------------
(* What a stop finds that comes after the start of its stream is through.   *)

StopPlaces == {"stopping", "stop_found", "stop_ended", "leaving"}

\* A stop keeps its session from the look-up to the update only.
StopsForget ==
    \A t \in Tasks :
        pc[t] \in {"idle", "stopping", "stop_ended", "leaving"} => sess[t] = None

\* A task begins with its event, and stays on its side: starts and stops only
\* settle.
Moves(t) ==
    /\ pc[t] = "idle" => pc'[t] \in {"idle", "recorded", "stopping"}
    /\ pc[t] \in StartPlaces => pc'[t] \in StartPlaces \cup Settled
    /\ pc'[t] \in StartPlaces =>
          pc[t] \in StartPlaces \/ (pc[t] = "idle" /\ pc'[t] = "recorded")
    /\ pc[t] \in StartPlaces /\ pc'[t] = "done" => pc[t] = "joined"
    /\ pc[t] \in StopPlaces => pc'[t] \in StopPlaces \cup Settled
    /\ pc[t] \in Settled => pc'[t] = pc[t]

\* What a task keeps of its event, and whom it becomes.
Keeps(t) ==
    /\ pc[t] # "idle" => stream'[t] = stream[t] /\ process'[t] = process[t]
    /\ pc'[t] = "recorded" =>
          pc[t] = "recorded" \/ <<"started", stream'[t]>> \in recorded'
    /\ t \in active' => t \in active \/ pc[t] = "listening"
    /\ pc'[t] = "done" /\ sess'[t] # None =>
          pc[t] = "joined" \/ (pc[t] = "done" /\ sess[t] # None)

AllMove ==
    /\ \A t \in Tasks : Moves(t) /\ Keeps(t)
    /\ recorded \subseteq recorded'
    /\ \A s \in Sessions : meeting[s] # None => meeting'[s] = meeting[s]

LEMMA StepMoves == Inv /\ StopsForget /\ [Next]_vars => AllMove /\ StopsForget'
<1> SUFFICES ASSUME Inv, StopsForget, [Next]_vars PROVE AllMove /\ StopsForget'
  OBVIOUS
<1> DEFINE Onwards == AllMove /\ StopsForget'
<1> USE StreamAssumption DEF Inv, TypeOK, TaskTypeOK, TableTypeOK, StopsForget,
      AllMove, Moves, Keeps, StartPlaces, StopPlaces, Settled, table, outside, delivery,
      object, registry
<1>1. ASSUME NEW s \in Sessions, NEW m \in Meetings, CreateSession(s, m)
      PROVE  Onwards
  BY <1>1 DEF CreateSession, Insert
<1>2. ASSUME NEW r \in Requests, NEW s \in Sessions, RequestRead(r, s)
      PROVE  Onwards
  BY <1>2 DEF RequestRead, Goto, Row
<1>3. ASSUME NEW r \in Requests, RequestPend(r)
      PROVE  Onwards
  BY <1>3 DEF RequestPend, Goto, Save
<1>4. ASSUME NEW r \in Requests, RequestRefresh(r)
      PROVE  Onwards
  BY <1>4 DEF RequestRefresh, Goto, Row
<1>5. ASSUME NEW r \in Requests, RequestFinish(r)
      PROVE  Onwards
  BY <1>5 DEF RequestFinish, Goto, RequestOver, Save
<1>6. ASSUME NEW r \in Requests, RequestFail(r)
      PROVE  Onwards
  BY <1>6 DEF RequestFail, Goto, RequestOver
<1>7. ASSUME NEW st \in Streams, ZoomStart(st)
      PROVE  Onwards
  BY <1>7 DEF ZoomStart
<1>8. ASSUME NEW st \in Streams, ZoomStop(st)
      PROVE  Onwards
  BY <1>8 DEF ZoomStop
<1>9. ASSUME NEW t \in Tasks, NEW p \in Processes, NEW st \in Streams, StartReceive(t, p, st)
      PROVE  Onwards
  BY <1>9 DEF StartReceive, Receive, Goto
<1>10. ASSUME NEW t \in Tasks, NEW p \in Processes, NEW st \in Streams, StopReceive(t, p, st)
      PROVE  Onwards
  BY <1>10 DEF StopReceive, Receive, Goto
<1>11. ASSUME NEW t \in Tasks, StartQueue(t)
      PROVE  Onwards
  BY <1>11 DEF StartQueue, Goto
<1>12. ASSUME NEW t \in Tasks, StartTake(t)
      PROVE  Onwards
  BY <1>12 DEF StartTake, Goto
<1>13. ASSUME NEW t \in Tasks, StartFind(t)
      PROVE  Onwards
  <2>1. pc[t] = "taken" /\ FoundOneOrNone(t, "missing", "found")
    BY <1>13, StartFindOutcomes
  <2>2. CASE Goto(t, "missing") \/ Goto(t, "refused")
    BY <2>1, <2>2 DEF FoundOneOrNone, Goto
  <2>3. CASE Goto(t, "found")
    BY <2>1, <2>3 DEF FoundOneOrNone, Goto
  <2> QED BY <2>1, <2>2, <2>3 DEF FoundOneOrNone
<1>14. ASSUME NEW t \in Tasks, NEW s \in Sessions, StartCreate(t, s)
      PROVE  Onwards
  BY <1>14 DEF StartCreate, Goto, Insert
<1>15. ASSUME NEW t \in Tasks, StartRefresh(t)
      PROVE  Onwards
  BY <1>15 DEF StartRefresh, Goto
<1>16. ASSUME NEW t \in Tasks, StartListen(t)
      PROVE  Onwards
  BY <1>16 DEF StartListen, Goto, Save
<1>17. ASSUME NEW t \in Tasks, StartJoin(t)
      PROVE  Onwards
  BY <1>17 DEF StartJoin, Goto
<1>18. ASSUME NEW t \in Tasks, StartRegister(t)
      PROVE  Onwards
  BY <1>18 DEF StartRegister, Goto
<1>19. ASSUME NEW t \in Tasks, StopFind(t)
      PROVE  Onwards
  <2>1. pc[t] = "stopping" /\ FoundOneOrNone(t, "stop_ended", "stop_found")
    BY <1>19, StopFindOutcomes
  <2>2. CASE Goto(t, "stop_ended") \/ Goto(t, "refused")
    BY <2>1, <2>2 DEF FoundOneOrNone, Goto
  <2>3. CASE Goto(t, "stop_found")
    BY <2>1, <2>3 DEF FoundOneOrNone, Goto
  <2> QED BY <2>1, <2>2, <2>3 DEF FoundOneOrNone
<1>20. ASSUME NEW t \in Tasks, StopEnd(t)
      PROVE  Onwards
  BY <1>20 DEF StopEnd, Goto, Save
<1>21. ASSUME NEW t \in Tasks, StopPop(t)
      PROVE  Onwards
  BY <1>21 DEF StopPop, Goto
<1>22. ASSUME NEW t \in Tasks, StopLeave(t)
      PROVE  Onwards
  BY <1>22 DEF StopLeave, Goto
<1>23. ASSUME NEW t \in Tasks, TaskFail(t)
      PROVE  Onwards
  BY <1>23 DEF TaskFail, Goto
<1>24. ASSUME NEW p \in Processes, Crash(p)
      PROVE  Onwards
  BY <1>24 DEF Crash
<1>25. CASE UNCHANGED vars
  BY <1>25 DEF vars
<1> HIDE DEF Onwards
<1>26. Onwards => AllMove /\ StopsForget'
  BY DEF Onwards
<1> QED BY <1>1, <1>2, <1>3, <1>4, <1>5, <1>6, <1>7, <1>8, <1>9, <1>10, <1>11, <1>12, <1>13, <1>14, <1>15, <1>16, <1>17, <1>18, <1>19, <1>20, <1>21, <1>22, <1>23, <1>24, <1>25, <1>26
  DEF Next, Zoom, Request, Proceed

\* Whoever starts, has joined or has registered was sent a started event, and
\* a start that is through has a session.
StartsKnown ==
    /\ active \subseteq starts
    /\ \A t \in Tasks : \/ pc[t] \in StartPlaces
                        \/ pc[t] = "done" /\ sess[t] # None
                       => t \in starts
    /\ \A t \in starts : /\ t \in Tasks
                          /\ pc[t] \in StartPlaces \cup Settled
                          /\ <<"started", stream[t]>> \in recorded

\* A stop in order is a stop, and came after a start of its stream.
InOrderKnown ==
    \A t \in inOrder : /\ t \in Tasks \ starts
                       /\ pc[t] \in StopPlaces \cup Settled
                       /\ Through(stream[t], process[t])
                       /\ SessionsOf(MeetingOf[stream[t]]) # {}

\* A start that is through has found or made a session of its meeting.
ThroughHasRow ==
    \A c \in starts : pc[c] = "done" => SessionsOf(MeetingOf[stream[c]]) # {}

OrderInv == StopsForget /\ StartsKnown /\ ThroughHasRow /\ InOrderKnown

\* An event is delivered to a task once, and the histories only grow.
LEMMA HistoryGrows ==
    ASSUME Inv, OrderInv, [HistoryNext]_historyVars
    PROVE  /\ [Next]_vars /\ AllMove /\ StopsForget'
           /\ starts \subseteq starts'
           /\ \A t \in starts' \ starts :
                 t \in Tasks /\ pc[t] = "idle" /\ pc'[t] = "recorded"
           /\ \A t \in Tasks : pc[t] = "idle" /\ pc'[t] = "recorded" => t \in starts'
           /\ inOrder \subseteq inOrder'
           /\ \A t \in inOrder' \ inOrder :
                 /\ t \in Tasks /\ pc[t] = "idle" /\ pc'[t] = "stopping"
                 /\ Through(stream'[t], process'[t])
           /\ rewritten \subseteq rewritten'
<1>1. [Next]_vars
  BY DEF HistoryNext, historyVars
<1>2. AllMove /\ StopsForget'
  BY <1>1, StepMoves DEF OrderInv
<1>3. CASE UNCHANGED historyVars
  BY <1>1, <1>2, <1>3 DEF historyVars, vars
<1>4. CASE HistoryNext
  <2>1. \A t \in inOrder' \ inOrder : pc'[t] = "stopping"
    BY <1>2, <1>4 DEF HistoryNext, Receives, AllMove, Moves, Keeps
  <2> QED BY <1>1, <1>2, <1>4, <2>1 DEF HistoryNext, Receives
<1> QED BY <1>3, <1>4

LEMMA OrderStep ==
    Inv /\ OrderInv /\ Inv' /\ [HistoryNext]_historyVars => OrderInv'
<1> SUFFICES ASSUME Inv, OrderInv, Inv', [HistoryNext]_historyVars PROVE OrderInv'
  OBVIOUS
<1>1. /\ AllMove /\ StopsForget' /\ starts \subseteq starts'
      /\ \A t \in starts' \ starts :
            t \in Tasks /\ pc[t] = "idle" /\ pc'[t] = "recorded"
      /\ \A t \in Tasks : pc[t] = "idle" /\ pc'[t] = "recorded" => t \in starts'
      /\ \A t \in inOrder' \ inOrder :
            /\ t \in Tasks /\ pc[t] = "idle" /\ pc'[t] = "stopping"
            /\ Through(stream'[t], process'[t])
  BY HistoryGrows
<1>2. StartsKnown'
  <2>1. active' \subseteq starts'
    <3> SUFFICES ASSUME NEW c \in active' PROVE c \in starts'
      OBVIOUS
    <3>1. c \in Tasks
      BY DEF Inv, TypeOK, TaskTypeOK
    <3>2. c \in active \/ pc[c] \in StartPlaces
      BY <1>1, <3>1 DEF AllMove, Moves, Keeps, StartPlaces
    <3> QED BY <1>1, <3>1, <3>2 DEF OrderInv, StartsKnown
  <2>2. ASSUME NEW t \in Tasks,
               pc'[t] \in StartPlaces \/ (pc'[t] = "done" /\ sess'[t] # None)
        PROVE  t \in starts'
    <3>1. Moves(t) /\ Keeps(t) /\ pc[t] \in Places
      BY <1>1 DEF AllMove, Inv, TypeOK, TaskTypeOK
    <3>2. CASE pc[t] \in StartPlaces \/ (pc[t] = "done" /\ sess[t] # None)
      BY <1>1, <3>2 DEF OrderInv, StartsKnown
    <3>3. CASE ~ (pc[t] \in StartPlaces \/ (pc[t] = "done" /\ sess[t] # None))
      <4>1. pc[t] = "idle" /\ pc'[t] = "recorded"
        BY <2>2, <3>1, <3>3 DEF AllMove, Moves, Keeps, StartPlaces
      <4> QED BY <1>1, <4>1
    <3> QED BY <3>2, <3>3
  <2>3. ASSUME NEW t \in starts'
        PROVE  /\ t \in Tasks
               /\ pc'[t] \in StartPlaces \cup Settled
               /\ <<"started", stream'[t]>> \in recorded'
    <3>1. CASE t \in starts
      <4>1. /\ t \in Tasks /\ pc[t] \in StartPlaces \cup Settled
            /\ <<"started", stream[t]>> \in recorded
        BY <3>1 DEF OrderInv, StartsKnown
      <4>2. Moves(t) /\ Keeps(t) /\ recorded \subseteq recorded'
        BY <1>1, <4>1 DEF AllMove
      <4> QED BY <4>1, <4>2 DEF Moves, Keeps, StartPlaces, Settled
    <3>2. CASE t \notin starts
      <4>1. t \in Tasks /\ pc[t] = "idle" /\ pc'[t] = "recorded" /\ Moves(t) /\ Keeps(t)
        BY <1>1, <3>2 DEF AllMove
      <4> QED BY <4>1 DEF Moves, Keeps, StartPlaces
    <3> QED BY <3>1, <3>2
  <2> QED BY <2>1, <2>2, <2>3 DEF StartsKnown
<1>3. ASSUME NEW m \in Meetings, SessionsOf(m) # {}
      PROVE  SessionsOf(m)' # {}
  <2>1. PICK s \in Sessions : meeting[s] = m
    BY <1>3 DEF SessionsOf
  <2>2. meeting'[s] = m
    BY <1>1, <2>1, StreamAssumption DEF AllMove
  <2> QED BY <2>2 DEF SessionsOf
<1>4. ASSUME NEW t \in Tasks, pc[t] # "idle"
      PROVE  /\ stream[t] \in Streams /\ MeetingOf[stream[t]] \in Meetings
             /\ stream'[t] = stream[t] /\ process'[t] = process[t]
  BY <1>1, <1>4, StreamAssumption DEF AllMove, Moves, Keeps, Inv, OwnerInv, Known
<1>5. ThroughHasRow'
  <2> SUFFICES ASSUME NEW c \in starts', pc'[c] = "done"
               PROVE  SessionsOf(MeetingOf[stream[c]])' # {}
    BY DEF ThroughHasRow
  <2>1. c \in starts /\ c \in Tasks /\ pc[c] \in StartPlaces \cup Settled
    BY <1>1 DEF OrderInv, StartsKnown
  <2>2. stream[c] \in Streams /\ MeetingOf[stream[c]] \in Meetings
        /\ stream'[c] = stream[c]
    BY <1>4, <2>1 DEF StartPlaces, Settled
  <2>3. CASE pc[c] = "done"
    BY <1>3, <2>1, <2>2, <2>3 DEF OrderInv, ThroughHasRow
  <2>4. CASE pc[c] # "done"
    <3>1. pc[c] = "joined"
      BY <1>1, <2>1, <2>4 DEF AllMove, Moves, Keeps, Settled
    <3>2. sess[c] # None /\ sess[c] \in Sessions
      BY <2>1, <3>1 DEF Inv, TypeOK, TaskTypeOK, RowInv, ObjectsKnowRows
    <3>3. meeting[sess[c]] = MeetingOf[stream[c]]
      BY <2>1, <3>2 DEF Inv, RowInv, TasksKnowMeetings
    <3> QED BY <1>3, <2>2, <3>2, <3>3 DEF SessionsOf
  <2> QED BY <2>3, <2>4
<1>6. InOrderKnown'
  <2> SUFFICES ASSUME NEW t \in inOrder'
               PROVE  /\ t \in Tasks \ starts'
                      /\ pc'[t] \in StopPlaces \cup Settled
                      /\ Through(stream[t], process[t])'
                      /\ (SessionsOf(MeetingOf[stream[t]]) # {})'
    BY DEF InOrderKnown
  <2>1. ASSUME NEW c \in starts, pc[c] = "done"
        PROVE  /\ c \in starts' /\ pc'[c] = "done" /\ stream[c] \in Streams
               /\ stream'[c] = stream[c] /\ process'[c] = process[c]
               /\ SessionsOf(MeetingOf[stream[c]])' # {}
    <3>1. c \in Tasks /\ SessionsOf(MeetingOf[stream[c]]) # {}
      BY <2>1 DEF OrderInv, StartsKnown, ThroughHasRow
    <3>2. pc'[c] = "done"
      BY <1>1, <2>1, <3>1 DEF AllMove, Moves, Keeps, Settled
    <3> QED BY <1>1, <1>3, <1>4, <2>1, <3>1, <3>2
  <2>2. CASE t \in inOrder
    <3>1. /\ t \in Tasks \ starts /\ pc[t] \in StopPlaces \cup Settled
          /\ Through(stream[t], process[t])
      BY <2>2 DEF OrderInv, InOrderKnown
    <3>2. pc[t] # "idle" /\ pc'[t] \in StopPlaces \cup Settled
      BY <1>1, <3>1 DEF AllMove, Moves, Keeps, StopPlaces, Settled
    <3>3. stream'[t] = stream[t] /\ process'[t] = process[t] /\ t \notin starts'
      BY <1>1, <1>4, <3>1, <3>2
    <3>4. PICK c \in starts : stream[c] = stream[t] /\ process[c] = process[t]
                              /\ pc[c] = "done"
      BY <3>1 DEF Through
    <3> QED BY <2>1, <3>1, <3>2, <3>3, <3>4 DEF Through
  <2>3. CASE t \notin inOrder
    <3>1. /\ t \in Tasks /\ pc[t] = "idle" /\ pc'[t] = "stopping"
          /\ Through(stream'[t], process'[t])
      BY <1>1, <2>3
    <3>2. t \notin starts'
      BY <1>1, <3>1 DEF OrderInv, StartsKnown, StartPlaces, Settled
    <3>3. PICK c \in starts : stream[c] = stream'[t] /\ process[c] = process'[t]
                              /\ pc[c] = "done"
      BY <3>1 DEF Through
    <3> QED BY <2>1, <3>1, <3>2, <3>3 DEF Through, StopPlaces
  <2> QED BY <2>2, <2>3
<1> QED BY <1>1, <1>2, <1>5, <1>6 DEF OrderInv

\* What a step does to the rows: it creates one, or a start, a stop or a
\* control request writes the one it has loaded.
RowsWritten ==
    \A s \in Sessions : meeting[s] # None =>
        /\ meeting'[s] = meeting[s]
        /\ \/ status'[s] = status[s] /\ provider'[s] = provider[s]
           \/ \E t \in Tasks : (StartListen(t) \/ StopEnd(t)) /\ sess[t] = s
           \/ /\ provider'[s] = provider[s]
              /\ \E r \in Requests : sess[r] = s /\ pc'[r] # pc[r]

\* What a step does to a stop that goes on.
StopsProceed ==
    \A t \in Tasks : pc'[t] \in {"stop_found", "stop_ended", "leaving", "done"} =>
        \/ pc'[t] = pc[t] /\ sess'[t] = sess[t] /\ loaded'[t] = loaded[t]
        \/ StopFind(t) \/ StopEnd(t) \/ StopPop(t) \/ StopLeave(t)
        \/ pc[t] = "joined"

LEMMA StepWrites ==
    ASSUME Inv, [Next]_vars
    PROVE  (RowsWritten /\ StopsProceed) \/ \E p \in Processes : Crash(p)
<1> DEFINE Written == RowsWritten /\ StopsProceed
<1> USE StreamAssumption DEF Inv, TypeOK, TaskTypeOK, TableTypeOK, table,
      outside, delivery, object, registry
<1>1. ASSUME NEW s \in Sessions, NEW m \in Meetings, CreateSession(s, m) PROVE Written
  BY <1>1 DEF RowsWritten, StopsProceed, CreateSession, Insert
<1>2. ASSUME NEW r \in Requests, NEW s \in Sessions, RequestRead(r, s) PROVE Written
  BY <1>2 DEF RowsWritten, StopsProceed, RequestRead, Goto
<1>3. ASSUME NEW r \in Requests, RequestPend(r) PROVE Written
  <2>1. /\ \A s \in Sessions : s # sess[r] =>
              status'[s] = status[s] /\ provider'[s] = provider[s]
        /\ meeting' = meeting
    BY <1>3 DEF RequestPend, Save
  <2>2. provider' = provider /\ pc'[r] # pc[r]
    BY <1>3 DEF RequestPend, Save, Goto, RequestOver
  <2>3. RowsWritten
    BY <2>1, <2>2 DEF RowsWritten
  <2>4. StopsProceed
    BY <1>3 DEF StopsProceed, RequestPend, Goto, RequestOver
  <2> QED BY <2>3, <2>4
<1>4. ASSUME NEW r \in Requests, RequestRefresh(r) PROVE Written
  BY <1>4 DEF RowsWritten, StopsProceed, RequestRefresh, Goto
<1>5. ASSUME NEW r \in Requests, RequestFinish(r) PROVE Written
  <2>1. /\ \A s \in Sessions : s # sess[r] =>
              status'[s] = status[s] /\ provider'[s] = provider[s]
        /\ meeting' = meeting
    BY <1>5 DEF RequestFinish, Save
  <2>2. provider' = provider /\ pc'[r] # pc[r]
    BY <1>5 DEF RequestFinish, Save, Goto, RequestOver
  <2>3. RowsWritten
    BY <2>1, <2>2 DEF RowsWritten
  <2>4. StopsProceed
    BY <1>5 DEF StopsProceed, RequestFinish, Goto, RequestOver
  <2> QED BY <2>3, <2>4
<1>6. ASSUME NEW r \in Requests, RequestFail(r) PROVE Written
  BY <1>6 DEF RowsWritten, StopsProceed, RequestFail, Goto, RequestOver
<1>7. ASSUME NEW st \in Streams, ZoomStart(st) PROVE Written
  BY <1>7 DEF RowsWritten, StopsProceed, ZoomStart
<1>8. ASSUME NEW st \in Streams, ZoomStop(st) PROVE Written
  BY <1>8 DEF RowsWritten, StopsProceed, ZoomStop
<1>9. ASSUME NEW t \in Tasks, NEW p \in Processes, NEW st \in Streams,
             StartReceive(t, p, st) \/ StopReceive(t, p, st)
      PROVE  Written
  BY <1>9 DEF RowsWritten, StopsProceed, StartReceive, StopReceive, Receive, Goto
<1>10. ASSUME NEW t \in Tasks, StartQueue(t) PROVE Written
  BY <1>10 DEF RowsWritten, StopsProceed, StartQueue, Goto
<1>11. ASSUME NEW t \in Tasks, StartTake(t) PROVE Written
  BY <1>11 DEF RowsWritten, StopsProceed, StartTake, Goto
<1>12. ASSUME NEW t \in Tasks, StartFind(t) PROVE Written
  <2>1. pc[t] = "taken" /\ FoundOneOrNone(t, "missing", "found")
    BY <1>12, StartFindOutcomes
  <2>2. RowsWritten
    BY <2>1 DEF RowsWritten, FoundOneOrNone
  <2>3. \A u \in Tasks \ {t} : /\ pc'[u] = pc[u] /\ sess'[u] = sess[u]
                             /\ loaded'[u] = loaded[u]
    BY <2>1 DEF FoundOneOrNone, Goto
  <2>4. pc'[t] \in {"missing", "found", "refused"}
    BY <2>1 DEF FoundOneOrNone, Goto
  <2>5. StopsProceed
    BY <1>12, <2>3, <2>4 DEF StopsProceed
  <2> QED BY <2>2, <2>5
<1>13. ASSUME NEW t \in Tasks, NEW s \in Sessions, StartCreate(t, s) PROVE Written
  BY <1>13 DEF RowsWritten, StopsProceed, StartCreate, Goto, Insert
<1>14. ASSUME NEW t \in Tasks, StartRefresh(t) PROVE Written
  BY <1>14 DEF RowsWritten, StopsProceed, StartRefresh, Goto
<1>15. ASSUME NEW t \in Tasks, StartListen(t) PROVE Written
  <2>1. /\ \A s \in Sessions : s # sess[t] =>
              status'[s] = status[s] /\ provider'[s] = provider[s]
        /\ meeting' = meeting
    BY <1>15 DEF StartListen, Save
  <2>2. RowsWritten
    BY <1>15, <2>1 DEF RowsWritten
  <2>3. \A u \in Tasks \ {t} : /\ pc'[u] = pc[u] /\ sess'[u] = sess[u]
                             /\ loaded'[u] = loaded[u]
    BY <1>15 DEF StartListen, Goto
  <2>4. pc'[t] = "listening"
    BY <1>15 DEF StartListen, Goto
  <2>5. StopsProceed
    BY <1>15, <2>3, <2>4 DEF StopsProceed
  <2> QED BY <2>2, <2>5
<1>16. ASSUME NEW t \in Tasks, StartJoin(t) PROVE Written
  BY <1>16 DEF RowsWritten, StopsProceed, StartJoin, Goto
<1>17. ASSUME NEW t \in Tasks, StartRegister(t) PROVE Written
  BY <1>17 DEF RowsWritten, StopsProceed, StartRegister, Goto
<1>18. ASSUME NEW t \in Tasks, StopFind(t) PROVE Written
  <2>1. pc[t] = "stopping" /\ FoundOneOrNone(t, "stop_ended", "stop_found")
    BY <1>18, StopFindOutcomes
  <2>2. RowsWritten
    BY <2>1 DEF RowsWritten, FoundOneOrNone
  <2>3. \A u \in Tasks \ {t} : /\ pc'[u] = pc[u] /\ sess'[u] = sess[u]
                             /\ loaded'[u] = loaded[u]
    BY <2>1 DEF FoundOneOrNone, Goto
  <2>4. pc'[t] \in {"stop_ended", "stop_found", "refused"}
    BY <2>1 DEF FoundOneOrNone, Goto
  <2>5. StopsProceed
    BY <1>18, <2>3, <2>4 DEF StopsProceed
  <2> QED BY <2>2, <2>5
<1>19. ASSUME NEW t \in Tasks, StopEnd(t) PROVE Written
  <2>1. /\ \A s \in Sessions : s # sess[t] =>
              status'[s] = status[s] /\ provider'[s] = provider[s]
        /\ meeting' = meeting
    BY <1>19 DEF StopEnd, Save
  <2>2. RowsWritten
    BY <1>19, <2>1 DEF RowsWritten
  <2>3. \A u \in Tasks \ {t} : /\ pc'[u] = pc[u] /\ sess'[u] = sess[u]
                             /\ loaded'[u] = loaded[u]
    BY <1>19 DEF StopEnd, Goto
  <2>4. pc'[t] = "stop_ended"
    BY <1>19 DEF StopEnd, Goto
  <2>5. StopsProceed
    BY <1>19, <2>3, <2>4 DEF StopsProceed
  <2> QED BY <2>2, <2>5
<1>20. ASSUME NEW t \in Tasks, StopPop(t) PROVE Written
  BY <1>20 DEF RowsWritten, StopsProceed, StopPop, Goto
<1>21. ASSUME NEW t \in Tasks, StopLeave(t) PROVE Written
  BY <1>21 DEF RowsWritten, StopsProceed, StopLeave, Goto
<1>22. ASSUME NEW t \in Tasks, TaskFail(t) PROVE Written
  BY <1>22 DEF RowsWritten, StopsProceed, TaskFail, Goto
<1>23. CASE UNCHANGED vars
  BY <1>23 DEF RowsWritten, StopsProceed, vars
<1> QED BY <1>1, <1>2, <1>3, <1>4, <1>5, <1>6, <1>7, <1>8, <1>9, <1>10, <1>11, <1>12, <1>13, <1>14, <1>15, <1>16, <1>17, <1>18, <1>19, <1>20, <1>21, <1>22, <1>23
  DEF Next, Zoom, Request, Proceed

\* A session of st has ended under its id.
Ended(st) ==
    \E s \in SessionsOf(MeetingOf[st]) : status[s] = "ended" /\ provider[s] = st

\* Streams that started once and whose session is nobody else's business.
Mine(st) == ~ Restarted(st) /\ Alone(st) /\ MeetingOf[st] \notin rewritten

\* A stop in order that has been to the registry has left no entry there.
EmptiedInv ==
    \A t \in inOrder :
        pc[t] \in {"leaving", "done"} /\ ~ Restarted(stream[t]) =>
            clients[process[t]][stream[t]] = None

\* What a stop in order has read of the session still holds, and what it has
\* written stays.
EndedInv ==
    \A t \in inOrder :
        Mine(stream[t]) =>
            /\ pc[t] = "stop_found" /\ loaded[t].status = "ended" =>
                  status[sess[t]] = "ended"
            /\ pc[t] \in {"stop_ended", "leaving", "done"} => Ended(stream[t])

\* The only start of a stopped stream is through, in the process of the stop.
LEMMA OneStart ==
    ASSUME OrderInv, NEW t \in inOrder, ~ Restarted(stream[t]),
           NEW c \in starts, stream[c] = stream[t]
    PROVE  pc[c] = "done" /\ process[c] = process[t]
<1>1. PICK d \in starts :
         stream[d] = stream[t] /\ process[d] = process[t] /\ pc[d] = "done"
  BY DEF OrderInv, InOrderKnown, Through
<1>2. c = d
  BY <1>1 DEF Restarted
<1> QED BY <1>1, <1>2

\* A stop in order past its first step was one before, of the same stream.
LEMMA InOrderStep ==
    ASSUME Inv, OrderInv, [HistoryNext]_historyVars,
           NEW t \in inOrder', pc'[t] # "stopping"
    PROVE  /\ t \in inOrder /\ t \in Tasks \ starts
           /\ pc[t] \in StopPlaces \cup Settled
           /\ stream[t] \in Streams /\ process[t] \in Processes
           /\ stream'[t] = stream[t] /\ process'[t] = process[t]
           /\ ~ Restarted(stream[t])' => ~ Restarted(stream[t])
           /\ Mine(stream[t])' => /\ Mine(stream[t])
                                  /\ MeetingOf[stream[t]] \notin rewritten'
<1>1. /\ AllMove
      /\ starts \subseteq starts' /\ rewritten \subseteq rewritten'
      /\ t \in inOrder
  BY HistoryGrows
<1>2. t \in Tasks \ starts /\ pc[t] \in StopPlaces \cup Settled
  BY <1>1 DEF OrderInv, InOrderKnown
<1>3. ASSUME NEW u \in Tasks, pc[u] # "idle"
      PROVE  /\ stream[u] \in Streams /\ process[u] \in Processes
             /\ stream'[u] = stream[u] /\ process'[u] = process[u]
  BY <1>1, <1>3 DEF AllMove, Moves, Keeps, Inv, OwnerInv, Known
<1>4. /\ stream[t] \in Streams /\ process[t] \in Processes
      /\ stream'[t] = stream[t] /\ process'[t] = process[t]
  BY <1>2, <1>3 DEF StopPlaces, Settled
<1>5. ASSUME NEW c \in starts PROVE stream'[c] = stream[c]
  BY <1>3 DEF OrderInv, StartsKnown, StartPlaces, Settled
<1>6. Restarted(stream[t]) => Restarted(stream[t])'
  BY <1>1, <1>4, <1>5 DEF Restarted
<1>7. Mine(stream[t])' => /\ Mine(stream[t])
                          /\ MeetingOf[stream[t]] \notin rewritten'
  BY <1>1, <1>4, <1>6 DEF Mine, Alone
<1> QED BY <1>1, <1>2, <1>4, <1>6, <1>7

\* Nothing of the stream comes back into the registry after such a stop.
LEMMA EmptiedStep ==
    Inv /\ OrderInv /\ EmptiedInv /\ [HistoryNext]_historyVars => EmptiedInv'
<1> SUFFICES ASSUME Inv, OrderInv, EmptiedInv, [HistoryNext]_historyVars,
                    NEW t \in inOrder', pc'[t] \in {"leaving", "done"},
                    ~ Restarted(stream[t])'
             PROVE  clients'[process'[t]][stream'[t]] = None
  BY DEF EmptiedInv
<1>1. /\ t \in inOrder /\ t \in Tasks \ starts
      /\ stream[t] \in Streams /\ process[t] \in Processes
      /\ stream'[t] = stream[t] /\ process'[t] = process[t]
      /\ ~ Restarted(stream[t])
  BY InOrderStep
<1>2. pc[t] \in {"leaving", "done"} => clients[process[t]][stream[t]] = None
  BY <1>1 DEF EmptiedInv
<1>3. [Next]_vars
  BY DEF HistoryNext, historyVars
<1> USE DEF Inv, TypeOK, TaskTypeOK
<1>4. CASE Quiet
  BY <1>1, <1>2, <1>4 DEF Quiet, registry
<1>5. ASSUME NEW u \in Tasks, StartJoin(u) \/ StopLeave(u)
      PROVE  clients'[process'[t]][stream'[t]] = None
  BY <1>1, <1>2, <1>5 DEF StartJoin, StopLeave, Goto
<1>6. ASSUME NEW u \in Tasks, StartRegister(u)
      PROVE  clients'[process'[t]][stream'[t]] = None
  <2>1. /\ pc[u] = "joined" /\ pc' = [pc EXCEPT ![u] = "done"]
        /\ clients' = [clients EXCEPT ![process[u]][stream[u]] = u]
    BY <1>6 DEF StartRegister, Goto
  <2>2. u \in starts
    BY <2>1 DEF OrderInv, StartsKnown, StartPlaces
  <2>3. stream[u] # stream[t]
    BY <1>1, <2>1, <2>2, OneStart
  <2>4. pc'[t] = pc[t]
    BY <1>1, <2>1, <2>2
  <2> QED BY <1>1, <1>2, <2>1, <2>3, <2>4
<1>7. ASSUME NEW u \in Tasks, StopPop(u)
      PROVE  clients'[process'[t]][stream'[t]] = None
  <2>1. clients' = [clients EXCEPT ![process[u]][stream[u]] = None]
    BY <1>7 DEF StopPop
  <2>2. u # t => pc'[t] = pc[t]
    BY <1>1, <1>7 DEF StopPop, Goto
  <2> QED BY <1>1, <1>2, <2>1, <2>2
<1>8. ASSUME NEW p \in Processes, Crash(p)
      PROVE  clients'[process'[t]][stream'[t]] = None
  <2>1. pc'[t] = pc[t]
    BY <1>1, <1>8 DEF Crash
  <2>2. clients' = [clients EXCEPT ![p] = [st \in Streams |-> None]]
    BY <1>8 DEF Crash
  <2> QED BY <1>1, <1>2, <2>1, <2>2
<1> QED BY <1>3, <1>4, <1>5, <1>6, <1>7, <1>8, OtherSteps

\* An ended session of a stream that nobody else meddles with stays ended.
LEMMA EndedRow ==
    ASSUME Inv, OrderInv, RowsWritten, HistoryNext,
           NEW t \in inOrder, Mine(stream[t]),
           MeetingOf[stream[t]] \notin rewritten',
           NEW s \in SessionsOf(MeetingOf[stream[t]])
    PROVE  /\ meeting'[s] = meeting[s]
           /\ status[s] = "ended" => status'[s] = "ended"
           /\ provider[s] = stream[t] => provider'[s] = stream[t]
<1> USE DEF Inv, TypeOK, TaskTypeOK, TableTypeOK
<1>1. t \in Tasks /\ pc[t] # "idle"
  BY DEF OrderInv, InOrderKnown, StopPlaces, Settled
<1>2. /\ s \in Sessions /\ meeting[s] = MeetingOf[stream[t]]
      /\ stream[t] \in Streams /\ MeetingOf[stream[t]] \in Meetings
      /\ meeting[s] # None
  BY <1>1, StreamAssumption DEF SessionsOf, OwnerInv, Known
<1>3. ASSUME NEW v \in Tasks, pc[v] \in {"found", "stop_found"}, sess[v] = s
      PROVE  stream[v] = stream[t]
  <2>1. stream[v] \in Streams /\ MeetingOf[stream[v]] = meeting[s]
    BY <1>2, <1>3, StreamAssumption DEF OwnerInv, Known, RowInv, TasksKnowMeetings
  <2> QED BY <1>2, <2>1 DEF Mine, Alone
<1>4. ASSUME NEW v \in Tasks, StartListen(v), sess[v] = s
      PROVE  FALSE
  <2>1. pc[v] = "found" /\ v \in starts
    BY <1>4 DEF StartListen, OrderInv, StartsKnown, StartPlaces
  <2>2. stream[v] = stream[t]
    BY <1>3, <1>4, <2>1
  <2> QED BY <2>1, <2>2, OneStart DEF Mine
<1>5. ASSUME NEW v \in Tasks, StopEnd(v), sess[v] = s
      PROVE  /\ status[s] = "ended" => status'[s] = "ended"
             /\ provider[s] = stream[t] => provider'[s] = stream[t]
  <2>1. stream[v] = stream[t] /\ Save(v, "ended", stream[v])
    BY <1>3, <1>5 DEF StopEnd
  <2> QED BY <1>2, <1>5, <2>1 DEF Save
<1>6. ASSUME NEW r \in Requests, sess[r] = s, pc'[r] # pc[r], status'[s] # status[s]
      PROVE  FALSE
  <2>1. <<"started", stream[t]>> \in recorded
    BY DEF OrderInv, InOrderKnown, StartsKnown, Through
  <2>2. Rewrites(MeetingOf[stream[t]])
    BY <1>2, <1>6, <2>1 DEF Rewrites
  <2> QED BY <1>2, <2>2 DEF HistoryNext
<1> QED BY <1>2, <1>4, <1>5, <1>6 DEF RowsWritten

LEMMA EndedStays ==
    ASSUME Inv, OrderInv, RowsWritten, HistoryNext,
           NEW t \in inOrder, Mine(stream[t]),
           MeetingOf[stream[t]] \notin rewritten',
           Ended(stream[t]), stream'[t] = stream[t]
    PROVE  Ended(stream[t])'
<1>1. PICK s \in SessionsOf(MeetingOf[stream[t]]) :
         status[s] = "ended" /\ provider[s] = stream[t]
  BY DEF Ended
<1>2. /\ meeting'[s] = meeting[s] /\ status'[s] = "ended"
      /\ provider'[s] = stream[t]
  BY <1>1, EndedRow
<1> QED BY <1>1, <1>2 DEF Ended, SessionsOf

LEMMA EndedStep ==
    Inv /\ OrderInv /\ EndedInv /\ [HistoryNext]_historyVars => EndedInv'
<1> SUFFICES ASSUME Inv, OrderInv, EndedInv, [HistoryNext]_historyVars,
                    NEW t \in inOrder', Mine(stream[t])',
                    pc'[t] \in {"stop_found", "stop_ended", "leaving", "done"}
             PROVE  /\ pc'[t] = "stop_found" /\ loaded'[t].status = "ended" =>
                          status'[sess'[t]] = "ended"
                    /\ pc'[t] \in {"stop_ended", "leaving", "done"} =>
                          Ended(stream[t])'
  BY DEF EndedInv
<1> USE DEF Inv, TypeOK, TaskTypeOK
<1>1. /\ t \in inOrder /\ t \in Tasks /\ pc[t] \in StopPlaces \cup Settled
      /\ stream[t] \in Streams /\ stream'[t] = stream[t]
      /\ Mine(stream[t]) /\ MeetingOf[stream[t]] \notin rewritten'
  BY InOrderStep
<1>2. /\ pc[t] = "stop_found" /\ loaded[t].status = "ended" =>
            status[sess[t]] = "ended"
      /\ pc[t] \in {"stop_ended", "leaving", "done"} => Ended(stream[t])
  BY <1>1 DEF EndedInv
<1>3. CASE UNCHANGED historyVars
  BY <1>2, <1>3 DEF historyVars, vars, table, object, delivery, Ended, SessionsOf
<1>4. ASSUME NEW p \in Processes, Crash(p)
      PROVE  /\ pc'[t] = "stop_found" /\ loaded'[t].status = "ended" =>
                   status'[sess'[t]] = "ended"
             /\ pc'[t] \in {"stop_ended", "leaving", "done"} => Ended(stream[t])'
  <2>1. /\ pc'[t] = pc[t] /\ UNCHANGED table
        /\ pc[t] = "stop_found" => process[t] # p
    BY <1>1, <1>4 DEF Crash, Settled
  <2>2. pc[t] = "stop_found" => sess'[t] = sess[t] /\ loaded'[t] = loaded[t]
    BY <1>1, <1>4, <2>1 DEF Crash
  <2>3. Ended(stream[t]) => Ended(stream[t])'
    BY <1>1, <2>1 DEF table, Ended, SessionsOf
  <2> QED BY <1>2, <2>1, <2>2, <2>3 DEF table
<1>5. ASSUME HistoryNext, RowsWritten, StopsProceed
      PROVE  /\ pc'[t] = "stop_found" /\ loaded'[t].status = "ended" =>
                   status'[sess'[t]] = "ended"
             /\ pc'[t] \in {"stop_ended", "leaving", "done"} => Ended(stream[t])'
  <2>1. Ended(stream[t]) => Ended(stream[t])'
    BY <1>1, <1>5, EndedStays
  <2>2. pc[t] = "stop_found" =>
           /\ sess[t] \in Sessions /\ meeting[sess[t]] = MeetingOf[stream[t]]
           /\ sess[t] \in SessionsOf(MeetingOf[stream[t]])
    BY <1>1 DEF RowInv, ObjectsKnowRows, TasksKnowMeetings, SessionsOf
  <2>3. CASE pc'[t] = pc[t] /\ sess'[t] = sess[t] /\ loaded'[t] = loaded[t]
    <3>1. pc[t] = "stop_found" /\ status[sess[t]] = "ended" =>
             status'[sess[t]] = "ended"
      BY <1>1, <1>5, <2>2, EndedRow
    <3> QED BY <1>2, <2>1, <2>3, <3>1
  <2>4. CASE StopFind(t)
    <3>1. SessionsOf(MeetingOf[stream[t]]) # {}
      BY <1>1 DEF OrderInv, InOrderKnown
    <3>2. UNCHANGED table /\ ~ Goto(t, "refused")
      BY <1>1, <2>4 DEF StopFind, Find, Goto
    <3>3. PICK s \in Sessions : /\ Goto(t, "stop_found")
                                /\ sess' = [sess EXCEPT ![t] = s]
                                /\ loaded' = [loaded EXCEPT ![t] = Row(s)]
      BY <2>4, <3>1, <3>2 DEF StopFind, Find
    <3>4. sess'[t] = s /\ loaded'[t] = Row(s) /\ pc'[t] = "stop_found"
      BY <1>1, <3>3 DEF Goto
    <3>5. loaded'[t].status = status[s]
      BY <3>4 DEF Row
    <3> QED BY <3>2, <3>4, <3>5 DEF table
  <2>5. CASE StopEnd(t)
    <3>1. /\ pc[t] = "stop_found" /\ pc'[t] = "stop_ended"
          /\ Save(t, "ended", stream[t])
      BY <1>1, <2>5 DEF StopEnd, Goto
    <3>2. status'[sess[t]] = "ended"
      BY <1>2, <2>2, <3>1 DEF Save, TableTypeOK
    <3>3. provider'[sess[t]] = stream[t]
      <4>1. stream[t] # None
        BY <1>1, StreamAssumption
      <4>2. CASE loaded[t].provider # stream[t]
        BY <2>2, <3>1, <4>1, <4>2 DEF Save, TableTypeOK
      <4>3. CASE loaded[t].provider = stream[t]
        <5>1. provider[sess[t]] # None
          BY <1>1, <4>1, <4>3 DEF RowInv, ObjectsKnowRows
        <5>2. /\ provider[sess[t]] \in Streams
              /\ MeetingOf[provider[sess[t]]] = MeetingOf[stream[t]]
          BY <2>2, <3>1, <5>1 DEF TableTypeOK, RowInv, RowsNameStreams
        <5>3. provider[sess[t]] = stream[t]
          BY <1>1, <5>2 DEF Mine, Alone
        <5> QED BY <2>2, <3>1, <4>3, <5>3 DEF Save, TableTypeOK
      <4> QED BY <4>2, <4>3
    <3>4. meeting' = meeting
      BY <3>1 DEF Save
    <3>5. Ended(stream[t])'
      BY <1>1, <2>2, <3>1, <3>2, <3>3, <3>4 DEF Ended, SessionsOf
    <3> QED BY <3>1, <3>5
  <2>6. CASE StopPop(t) \/ StopLeave(t)
    <3>1. pc[t] \in {"stop_ended", "leaving"} /\ pc'[t] # "stop_found"
      BY <1>1, <2>6 DEF StopPop, StopLeave, Goto
    <3> QED BY <1>2, <2>1, <3>1
  <2>7. pc[t] # "joined"
    BY <1>1 DEF StopPlaces, Settled
  <2> QED BY <1>1, <1>5, <2>3, <2>4, <2>5, <2>6, <2>7 DEF StopsProceed
<1> QED BY <1>3, <1>4, <1>5, StepWrites DEF HistoryNext, historyVars

\* A stop that came to the process of its stream's start after the start was
\* through leaves no client of the stream joined but one that another stop is
\* telling to leave, or has failed to, and leaves the session ended under the
\* stream's id unless another stream of the meeting or a control request says
\* otherwise (stop_from_webhook), whatever other stops there are.
THEOREM StopsRelease == HistorySpec => []StoppedStreamReleased
<1> DEFINE HInv == NotForgotten /\ OrderInv /\ EmptiedInv /\ EndedInv
<1>1. HistoryInit => Inv /\ HInv
  <2> SUFFICES ASSUME HistoryInit PROVE Inv /\ HInv
    OBVIOUS
  <2>1. /\ Init /\ starts = {} /\ inOrder = {} /\ active = {}
        /\ \A t \in Tasks : pc[t] = "idle" /\ sess[t] = None
    BY DEF HistoryInit, Init
  <2>2. Inv
    BY <2>1, InitInv
  <2>3. OrderInv
    BY <2>1 DEF OrderInv, StopsForget, StartsKnown, ThroughHasRow, InOrderKnown,
                StartPlaces
  <2>4. NotForgotten /\ EmptiedInv /\ EndedInv
    BY <2>1 DEF NotForgotten, EmptiedInv, EndedInv
  <2> QED BY <2>2, <2>3, <2>4
<1>2. Inv /\ HInv /\ [HistoryNext]_historyVars => Inv' /\ HInv'
  <2> SUFFICES ASSUME Inv, HInv, [HistoryNext]_historyVars PROVE Inv' /\ HInv'
    OBVIOUS
  <2>1. [Next]_vars
    BY DEF HistoryNext, historyVars
  <2>2. Inv'
    BY <2>1, TypeStep, OwnerStep, RowStep DEF Inv
  <2>3. NotForgotten'
    BY <2>1, SuccessorStep
  <2> QED BY <2>2, <2>3, OrderStep, EmptiedStep, EndedStep
<1>3. Inv /\ HInv => StoppedStreamReleased
  <2> SUFFICES ASSUME Inv, HInv, NEW t \in inOrder,
                      pc[t] = "done", ~ Restarted(stream[t])
               PROVE  /\ \A c \in active : stream[c] = stream[t] =>
                            InHand(c) \/ LeaveFailed(c)
                      /\ Alone(stream[t]) /\ MeetingOf[stream[t]] \notin rewritten =>
                            Ended(stream[t])
    BY DEF StoppedStreamReleased, Ended
  <2>1. ASSUME NEW c \in active, stream[c] = stream[t]
        PROVE  InHand(c) \/ LeaveFailed(c)
    <3>1. c \in starts
      BY DEF OrderInv, StartsKnown
    <3>2. pc[c] = "done" /\ process[c] = process[t] /\ c \in Tasks
      BY <2>1, <3>1, OneStart DEF OrderInv, StartsKnown
    <3>3. clients[process[t]][stream[t]] = None
      BY DEF EmptiedInv
    <3>4. ~ Registered(c)
      BY <2>1, <3>2, <3>3, StreamAssumption DEF Registered
    <3>5. ASSUME NEW d \in Tasks \ {c}, stream[d] = stream[c], pc[d] = "done",
                 sess[d] # None
          PROVE  FALSE
      <4>1. d \in starts
        BY <3>5 DEF OrderInv, StartsKnown
      <4> QED BY <2>1, <3>1, <3>5, <4>1 DEF Restarted
    <3>6. LostToSuccessorOrFailure
      BY KeptOrLost
    <3> QED BY <3>2, <3>4, <3>5, <3>6 DEF LostToSuccessorOrFailure
  <2>2. Alone(stream[t]) /\ MeetingOf[stream[t]] \notin rewritten =>
           Ended(stream[t])
    BY DEF EndedInv, Mine
  <2> QED BY <2>1, <2>2
<1> HIDE DEF HInv
<1> QED BY <1>1, <1>2, <1>3, PTL DEF HistorySpec
=============================================================================
