---------------------------- MODULE ZoomStreams ----------------------------
(***************************************************************************)
(* From a Zoom webhook to a joined RTMS client and back: the session rows   *)
(* (sdk/repositories.py), the webhook handler (providers/zoom_rtms/         *)
(* webhook.py), the start tasks of the webhook pool and the registry of     *)
(* clients (providers/zoom_rtms/manager.py), and the API request that asks  *)
(* Zoom to start a stream (sdk/sdk.py, start_zoom_rtms).                    *)
(*                                                                         *)
(* A task is one delivery of an event.  A started event becomes a start     *)
(* task in the pool of the process that received it, and a client is named  *)
(* by the start task that made it.  A stopped event is handled inside its   *)
(* request.  Zoom may deliver an event again, and a stopped event before    *)
(* the start of its stream is through.  Every thread has a database session *)
(* of its own; steps are the stretches between two statements or two        *)
(* accesses to the registry.  Every payload names a stream: left out are    *)
(* starts without one, which are refused at once, and stops without one,    *)
(* which end the session and look for no client.  Zoom, the database and    *)
(* the rtms package answer or raise.                                        *)
(***************************************************************************)
EXTENDS Naturals, Sequences, FiniteSets

CONSTANTS Sessions,    \* rows of sdk_sessions that can ever be created
          Meetings,    \* Zoom meeting ids
          Streams,     \* RTMS stream ids
          MeetingOf,   \* the meeting of each stream
          Processes,   \* server processes, each with a manager of its own
          Tasks,       \* deliveries of events
          Requests,    \* rtms/start requests in flight at once
          Workers,     \* max_workers of the webhook pool: 4 in the code
          MaxCrashes,  \* bound: process restarts
          None

Statuses == {"created", "rtms_start_pending", "rtms_start_requested",
             "listening", "ended"}

ASSUME StreamAssumption ==
    /\ MeetingOf \in [Streams -> Meetings]
    /\ Workers \in Nat \ {0}
    /\ MaxCrashes \in Nat
    /\ Tasks \cap Requests = {}
    /\ None \notin UNION {Statuses, Sessions, Meetings, Streams, Processes, Tasks}

VARIABLES
    meeting,   \* sdk_sessions.meeting_id, None while the row does not exist
    status,    \* sdk_sessions.status
    provider,  \* sdk_sessions.provider_session_id
    recorded,  \* sdk_provider_events, as <<kind, stream>>
    zoom,      \* what Zoom has done with each stream
    pc,        \* where each task and each request is
    stream,    \* the stream of a task
    process,   \* the process a task runs in
    sess,      \* the session row a task or request works on
    loaded,    \* the columns of that row as it last read them
    held,      \* the client a stop has taken out of the registry
    queue,     \* start tasks waiting for a pool thread, by process
    clients,   \* ZoomRTMSManager.clients, by process and stream
    active,    \* clients that have joined and were not told to leave
    crashes    \* process restarts so far

table    == <<meeting, status, provider>>
outside  == <<recorded, zoom, crashes>>
delivery == <<stream, process>>
object   == <<sess, loaded>>
registry == <<held, clients, active>>
vars == <<table, outside, pc, delivery, object, queue, registry>>

-----------------------------------------------------------------------------
Row(s) == [status |-> status[s], provider |-> provider[s]]

\* What a session object holds before it is loaded and after it has expired.
Unloaded == [status |-> None, provider |-> None]

SessionsOf(m) == {s \in Sessions : meeting[s] = m}

Settled == {"done", "refused", "failed", "lost"}

StartPlaces == {"recorded", "queued", "taken", "missing", "created", "found",
                "listening", "joined"}

\* Mutant: a task that failed keeps its pool thread.
Busy_KeepsFailed(p) ==
    {t \in Tasks : process[t] = p
                   /\ pc[t] \in (StartPlaces \ {"recorded", "queued"})
                                \cup {"failed", "refused"}}

\* The start tasks that occupy a thread of the pool of p.
Busy(p) == {t \in Tasks : process[t] = p
                          /\ pc[t] \in StartPlaces \ {"recorded", "queued"}}

Goto(a, place) == pc' = [pc EXCEPT ![a] = place]

\* Mutant: the whole row is written back, the column left alone included.
Save_WholeRow(a, new, st) ==
    /\ status' = [status EXCEPT ![sess[a]] = new]
    /\ provider' = [provider EXCEPT ![sess[a]] =
                        IF st = None THEN loaded[a].provider ELSE st]
    /\ UNCHANGED meeting

\* update_session_status: the UPDATE names the columns whose value differs
\* from the one loaded, whatever the row holds by now.
Save(a, new, st) ==
    /\ status' = [status EXCEPT ![sess[a]] =
                      IF loaded[a].status = new THEN @ ELSE new]
    /\ provider' = [provider EXCEPT ![sess[a]] =
                      IF st \in {None, loaded[a].provider} THEN @ ELSE st]
    /\ UNCHANGED meeting

Init ==
    /\ meeting = [s \in Sessions |-> None]
    /\ status = [s \in Sessions |-> None]
    /\ provider = [s \in Sessions |-> None]
    /\ recorded = {}
    /\ zoom = [st \in Streams |-> "idle"]
    /\ pc = [a \in Tasks \cup Requests |-> "idle"]
    /\ stream = [t \in Tasks |-> None]
    /\ process = [t \in Tasks |-> None]
    /\ sess = [a \in Tasks \cup Requests |-> None]
    /\ loaded = [a \in Tasks \cup Requests |-> Unloaded]
    /\ held = [t \in Tasks |-> None]
    /\ queue = [p \in Processes |-> << >>]
    /\ clients = [p \in Processes |-> [st \in Streams |-> None]]
    /\ active = {}
    /\ crashes = 0

-----------------------------------------------------------------------------
(* The API: POST /sessions, and POST /sessions/{id}/rtms/start.             *)

Insert(s, m) ==
    /\ meeting[s] = None
    /\ meeting' = [meeting EXCEPT ![s] = m]
    /\ status' = [status EXCEPT ![s] = "created"]
    /\ UNCHANGED provider

CreateSession(s, m) ==
    /\ Insert(s, m)
    /\ UNCHANGED <<outside, pc, delivery, object, queue, registry>>

RequestRead(r, s) ==
    /\ pc[r] = "idle"
    /\ meeting[s] # None
    /\ Goto(r, "request_read")
    /\ sess' = [sess EXCEPT ![r] = s]
    /\ loaded' = [loaded EXCEPT ![r] = Row(s)]
    /\ UNCHANGED <<table, outside, delivery, queue, registry>>

RequestOver(r) ==
    /\ Goto(r, "idle")
    /\ sess' = [sess EXCEPT ![r] = None]
    /\ loaded' = [loaded EXCEPT ![r] = Unloaded]
    /\ UNCHANGED <<outside, delivery, queue, registry>>

RequestPend(r) ==
    /\ pc[r] = "request_read"
    /\ Save(r, "rtms_start_pending", None)
    /\ Goto(r, "request_pended")
    /\ UNCHANGED <<outside, delivery, object, queue, registry>>

RequestRefresh(r) ==
    /\ pc[r] = "request_pended"
    /\ loaded' = [loaded EXCEPT ![r] = Row(sess[r])]
    /\ Goto(r, "request_calling")
    /\ UNCHANGED <<table, outside, delivery, sess, queue, registry>>

\* Zoom took the call.  A refresh of the OAuth token on the way commits, which
\* expires the row: then the status is written whatever was loaded.
RequestFinish(r) ==
    /\ pc[r] = "request_calling"
    /\ \/ Save(r, "rtms_start_requested", None)
       \/ /\ status' = [status EXCEPT ![sess[r]] = "rtms_start_requested"]
          /\ UNCHANGED <<meeting, provider>>
    /\ RequestOver(r)

\* The token, the call or the database failed, or the process went away.
RequestFail(r) ==
    /\ pc[r] # "idle"
    /\ UNCHANGED table
    /\ RequestOver(r)

-----------------------------------------------------------------------------
(* Zoom starts and stops a stream. *)

ZoomStart(st) ==
    /\ zoom[st] = "idle"
    /\ zoom' = [zoom EXCEPT ![st] = "started"]
    /\ UNCHANGED <<table, recorded, crashes, pc, delivery, object, queue,
                   registry>>

ZoomStop(st) ==
    /\ zoom[st] = "started"
    /\ zoom' = [zoom EXCEPT ![st] = "stopped"]
    /\ UNCHANGED <<table, recorded, crashes, pc, delivery, object, queue,
                   registry>>

-----------------------------------------------------------------------------
(* A started event: record it, queue the start, find or create the session, *)
(* mark it, join, register the client.                                      *)

Receive(t, p, st, place) ==
    /\ pc[t] = "idle"
    /\ Goto(t, place)
    /\ stream' = [stream EXCEPT ![t] = st]
    /\ process' = [process EXCEPT ![t] = p]
    /\ UNCHANGED <<table, zoom, crashes, object, queue, registry>>

\* The event row is committed, or was there already: both go on alike.
StartReceive(t, p, st) ==
    /\ zoom[st] # "idle"
    /\ recorded' = recorded \cup {<<"started", st>>}
    /\ Receive(t, p, st, "recorded")

StartQueue(t) ==
    /\ pc[t] = "recorded"
    /\ queue' = [queue EXCEPT ![process[t]] = Append(@, t)]
    /\ Goto(t, "queued")
    /\ UNCHANGED <<table, outside, delivery, object, registry>>

StartTake(t) ==
    LET p == process[t] IN
    /\ pc[t] = "queued"
    /\ queue[p] # << >> /\ t = Head(queue[p])
    /\ Cardinality(Busy(p)) < Workers
    /\ queue' = [queue EXCEPT ![p] = Tail(@)]
    /\ Goto(t, "taken")
    /\ UNCHANGED <<table, outside, delivery, object, registry>>

\* find_zoom_session: no row, one row, or MultipleResultsFound.
Find(t, none, one) ==
    LET rows == SessionsOf(MeetingOf[stream[t]]) IN
    /\ \/ /\ rows = {}
          /\ Goto(t, none)
          /\ UNCHANGED object
       \/ \E s \in Sessions :
             /\ rows = {s}
             /\ Goto(t, one)
             /\ sess' = [sess EXCEPT ![t] = s]
             /\ loaded' = [loaded EXCEPT ![t] = Row(s)]
       \/ /\ Cardinality(rows) > 1
          /\ Goto(t, "refused")
          /\ UNCHANGED object
    /\ UNCHANGED <<table, outside, delivery, queue, registry>>

StartFind(t) == pc[t] = "taken" /\ Find(t, "missing", "found")

StartCreate(t, s) ==
    /\ pc[t] = "missing"
    /\ Insert(s, MeetingOf[stream[t]])
    /\ sess' = [sess EXCEPT ![t] = s]
    /\ Goto(t, "created")
    /\ UNCHANGED <<outside, delivery, loaded, queue, registry>>

StartRefresh(t) ==
    /\ pc[t] = "created"
    /\ loaded' = [loaded EXCEPT ![t] = Row(sess[t])]
    /\ Goto(t, "found")
    /\ UNCHANGED <<table, outside, delivery, sess, queue, registry>>

StartListen(t) ==
    /\ pc[t] = "found"
    /\ Save(t, "listening", stream[t])
    /\ Goto(t, "listening")
    /\ loaded' = [loaded EXCEPT ![t] = Unloaded]
    /\ UNCHANGED <<outside, delivery, sess, queue, registry>>

StartJoin(t) ==
    /\ pc[t] = "listening"
    /\ active' = active \cup {t}
    /\ Goto(t, "joined")
    /\ UNCHANGED <<table, outside, delivery, object, queue, held, clients>>

StartRegister(t) ==
    /\ pc[t] = "joined"
    /\ clients' = [clients EXCEPT ![process[t]][stream[t]] = t]
    /\ Goto(t, "done")
    /\ UNCHANGED <<table, outside, delivery, object, queue, held, active>>

-----------------------------------------------------------------------------
(* A stopped event: record it, end the session, take the client out of the  *)
(* registry, tell it to leave.                                              *)

\* Mutant: a stopped event that is on record already is not handled again.
StopReceive_Once(t, p, st) ==
    /\ zoom[st] = "stopped"
    /\ recorded' = recorded \cup {<<"stopped", st>>}
    /\ Receive(t, p, st, IF <<"stopped", st>> \in recorded THEN "done" ELSE "stopping")

StopReceive(t, p, st) ==
    /\ zoom[st] = "stopped"
    /\ recorded' = recorded \cup {<<"stopped", st>>}
    /\ Receive(t, p, st, "stopping")

StopFind(t) == pc[t] = "stopping" /\ Find(t, "stop_ended", "stop_found")

StopEnd(t) ==
    /\ pc[t] = "stop_found"
    /\ Save(t, "ended", stream[t])
    /\ Goto(t, "stop_ended")
    /\ sess' = [sess EXCEPT ![t] = None]
    /\ loaded' = [loaded EXCEPT ![t] = Unloaded]
    /\ UNCHANGED <<outside, delivery, queue, registry>>

\* Mutant: the client is looked up, and removed only after it has left.
StopPop_Get(t) ==
    /\ pc[t] = "stop_ended"
    /\ held' = [held EXCEPT ![t] = clients[process[t]][stream[t]]]
    /\ Goto(t, IF held'[t] = None THEN "done" ELSE "leaving")
    /\ UNCHANGED <<table, outside, delivery, object, queue, clients, active>>

\* Mutant: the client is dropped without being told to leave.
StopPop_Drop(t) ==
    /\ pc[t] = "stop_ended"
    /\ clients' = [clients EXCEPT ![process[t]][stream[t]] = None]
    /\ Goto(t, "done")
    /\ UNCHANGED <<table, outside, delivery, object, queue, held, active>>

StopPop(t) ==
    /\ pc[t] = "stop_ended"
    /\ held' = [held EXCEPT ![t] = clients[process[t]][stream[t]]]
    /\ clients' = [clients EXCEPT ![process[t]][stream[t]] = None]
    /\ Goto(t, IF held'[t] = None THEN "done" ELSE "leaving")
    /\ UNCHANGED <<table, outside, delivery, object, queue, active>>

StopLeave(t) ==
    /\ pc[t] = "leaving"
    /\ active' = active \ {held[t]}
    /\ held' = [held EXCEPT ![t] = None]
    /\ Goto(t, "done")
    /\ UNCHANGED <<table, outside, delivery, object, queue, clients>>

-----------------------------------------------------------------------------
(* Failures. *)

\* The database, join() (the rtms package is missing, or refuses) or leave()
\* raises: logged by the pool, or answered with a 500.  What was committed
\* stays; a stop that fails in leave() has already taken the client out.
TaskFail(t) ==
    /\ pc[t] \in {"taken", "missing", "created", "found", "listening",
                  "stopping", "stop_found", "leaving"}
    /\ Goto(t, "failed")
    /\ sess' = [sess EXCEPT ![t] = None]
    /\ loaded' = [loaded EXCEPT ![t] = Unloaded]
    /\ UNCHANGED <<table, outside, delivery, queue, registry>>

\* A process restarts: its registry, its queue, its clients and whatever it
\* was doing are gone.
Crash(p) ==
    /\ crashes < MaxCrashes
    /\ crashes' = crashes + 1
    /\ pc' = [a \in Tasks \cup Requests |->
                 IF a \in Tasks /\ pc[a] \notin Settled \cup {"idle"}
                    /\ process[a] = p
                 THEN "lost" ELSE pc[a]]
    /\ held' = [t \in Tasks |-> IF process[t] = p THEN None ELSE held[t]]
    /\ queue' = [queue EXCEPT ![p] = << >>]
    /\ clients' = [clients EXCEPT ![p] = [st \in Streams |-> None]]
    /\ active' = {c \in active : process[c] # p}
    /\ sess' = [a \in Tasks \cup Requests |->
                   IF a \in Tasks /\ process[a] = p THEN None ELSE sess[a]]
    /\ loaded' = [a \in Tasks \cup Requests |->
                     IF a \in Tasks /\ process[a] = p THEN Unloaded
                                                     ELSE loaded[a]]
    /\ UNCHANGED <<table, recorded, zoom, delivery>>

-----------------------------------------------------------------------------
\* The steps a task takes once its event has been received.
Proceed(t) ==
    \/ StartQueue(t)
    \/ StartTake(t)
    \/ StartFind(t)
    \/ \E s \in Sessions : StartCreate(t, s)
    \/ StartRefresh(t)
    \/ StartListen(t)
    \/ StartJoin(t)
    \/ StartRegister(t)
    \/ StopFind(t)
    \/ StopEnd(t)
    \/ StopPop(t)
    \/ StopLeave(t)

Request(r) ==
    \/ \E s \in Sessions : RequestRead(r, s)
    \/ RequestPend(r)
    \/ RequestRefresh(r)
    \/ RequestFinish(r)
    \/ RequestFail(r)

Zoom ==
    \/ \E st \in Streams : ZoomStart(st) \/ ZoomStop(st)
    \/ \E t \in Tasks, p \in Processes, st \in Streams :
          StartReceive(t, p, st) \/ StopReceive(t, p, st)

Next ==
    \/ Zoom
    \/ \E s \in Sessions, m \in Meetings : CreateSession(s, m)
    \/ \E r \in Requests : Request(r)
    \/ \E t \in Tasks : Proceed(t) \/ TaskFail(t)
    \/ \E p \in Processes : Crash(p)

Spec == Init /\ [][Next]_vars

\* A pool thread or a request thread that can go on does, and a queued start
\* gets a thread when one is free.
FairSpec == Spec /\ \A t \in Tasks : WF_vars(Proceed(t))

-----------------------------------------------------------------------------
(* Properties. *)

Places == StartPlaces \cup Settled \cup
          {"idle", "stopping", "stop_found", "stop_ended", "leaving",
           "request_read", "request_pended", "request_calling"}

TableTypeOK ==
    /\ meeting \in [Sessions -> Meetings \cup {None}]
    /\ status \in [Sessions -> Statuses \cup {None}]
    /\ provider \in [Sessions -> Streams \cup {None}]
    /\ recorded \subseteq {"started", "stopped"} \X Streams
    /\ zoom \in [Streams -> {"idle", "started", "stopped"}]

TaskTypeOK ==
    /\ pc \in [Tasks \cup Requests -> Places]
    /\ stream \in [Tasks -> Streams \cup {None}]
    /\ process \in [Tasks -> Processes \cup {None}]
    /\ sess \in [Tasks \cup Requests -> Sessions \cup {None}]
    /\ loaded \in [Tasks \cup Requests ->
                      [status : Statuses \cup {None},
                       provider : Streams \cup {None}]]
    /\ held \in [Tasks -> Tasks \cup {None}]
    /\ queue \in [Processes -> Seq(Tasks)]
    /\ clients \in [Processes -> [Streams -> Tasks \cup {None}]]
    /\ active \subseteq Tasks
    /\ crashes \in 0..MaxCrashes

\* Every variable holds a value of its column, of its thread or of its
\* process, and rows have all their columns.
TypeOK ==
    /\ TableTypeOK
    /\ TaskTypeOK
    /\ \A s \in Sessions : meeting[s] = None <=> status[s] = None

Registered(c) == clients[process[c]][stream[c]] = c

\* The registry only names clients that are joined, under their own process
\* and stream, and a client taken out of it by a stop is taken by that stop
\* alone: no client is told to leave twice, by whichever stops overlap.
OneOwner ==
    /\ \A p \in Processes, st \in Streams :
          clients[p][st] # None =>
              /\ clients[p][st] \in active
              /\ process[clients[p][st]] = p
              /\ stream[clients[p][st]] = st
    /\ \A t, u \in Tasks :
          held[t] # None =>
              /\ held[t] \in active
              /\ ~ Registered(held[t])
              /\ held[t] = held[u] => t = u

\* A stop has taken c out of the registry and is telling it to leave.
InHand(c) == \E t \in Tasks : held[t] = c /\ pc[t] = "leaving"

\* A stop has taken c out of the registry and leave() has raised: c is joined,
\* and nothing in the process names it any more.
LeaveFailed(c) == \E t \in Tasks : held[t] = c /\ pc[t] = "failed"

\* A joined client is lost to the registry in two ways only: the stop that took
\* it out failed in leave(), or the entry went to another client of the same
\* stream and process, whichever of the two joined first.
LostToSuccessorOrFailure ==
    \A c \in active :
        \/ pc[c] = "joined"
        \/ Registered(c)
        \/ InHand(c)
        \/ LeaveFailed(c)
        \/ \E d \in Tasks \ {c} : /\ stream[d] = stream[c]
                                  /\ process[d] = process[c]
                                  /\ pc[d] = "done"
                                  /\ sess[d] # None

\* What a client hears is written to a session of its stream's meeting, and
\* that session has named a stream of the meeting, of which an event is on
\* record, ever since: no control request or other webhook wipes it.
HeardInItsMeeting ==
    \A c \in active :
        LET s == sess[c] IN
        /\ meeting[s] = MeetingOf[stream[c]]
        /\ provider[s] # None
        /\ MeetingOf[provider[s]] = meeting[s]
        /\ \E kind \in {"started", "stopped"} : <<kind, provider[s]>> \in recorded

\* "Owns active Zoom RTMS clients": a joined client is in the registry of its
\* process, but for the moments between join and registration and between
\* removal and leave, and unless it would not leave.
OwnsActiveClients ==
    \A c \in active :
        pc[c] = "joined" \/ Registered(c) \/ InHand(c) \/ LeaveFailed(c)

\* Every event received is dealt with: a start never stays queued behind
\* starts that have ended, one way or another.  (The model has to stop where a
\* start needs a session row and its bound allows no more.)
EveryEventSettles ==
    \A t \in Tasks :
        pc[t] # "idle" ~>
            \/ pc[t] \in Settled
            \/ /\ \E u \in Tasks : pc[u] = "missing"
               /\ \A s \in Sessions : meeting[s] # None
=============================================================================
