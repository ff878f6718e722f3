----------------------------- MODULE Onboarding -----------------------------
(***************************************************************************)
(* The onboarding steps (services/onboarding.py) as handlers of requests that *)
(* AccessTokens has admitted: role, preferences, integrations, submission.    *)
(*                                                                         *)
(* A request is one PostgreSQL transaction under READ COMMITTED.  The users   *)
(* row is loaded when the request is admitted, the other rows by the handler; *)
(* SQLAlchemy writes a column only if it differs from the value it loaded.    *)
(* The preferences tables have no unique key per user, the integrations table *)
(* has one per user and platform.  What a form holds is one value: the three  *)
(* columns of a role, the columns of a preferences row and its tone.          *)
(***************************************************************************)
EXTENDS AccessTokens

CONSTANTS Users, UserOf,  \* the sub claim of an access token
          Rows,           \* ids of preferences rows
          Values,         \* what a form may hold
          Platforms

ASSUME OnboardingAssumption ==
    /\ UserOf \in [Tokens -> Users]
    /\ None \notin Values \cup [usr : Users, val : Values]
                          \cup [row : Rows, old : Values \cup {None}]

VARIABLES
    role,        \* users.company, role and hires
    completed,   \* users.onboarding_completed
    meeting,     \* user_meeting_preferences
    interview,   \* user_interview_preferences
    integrated,  \* user_platform_integrations
    answered,    \* history: the forms answered last with 200
    step,        \* where the handler of a request is
    loaded,      \* the role on the users row it has loaded
    form,        \* what it was given
    mrow, irow   \* the preferences rows it is to write, with the value loaded

store   == <<role, completed, meeting, interview, integrated, answered>>
handler == <<step, loaded, form, mrow, irow>>
ovars   == <<store, handler>>

-----------------------------------------------------------------------------
User(r) == UserOf[tok[r]]

RowsOf(table, u) == {x \in Rows : table[x] # None /\ table[x].usr = u}

\* The row a handler goes on with: the one it finds, or a new one.  Two raise
\* MultipleResultsFound.
Chosen(table, mine, r, x) ==
    \/ RowsOf(table, User(r)) = {x}
    \/ /\ RowsOf(table, User(r)) = {}
       /\ table[x] = None
       /\ \A q \in Requests : mine[q] # None => mine[q].row # x

\* A row with the value it holds; a new one holds none.
Loaded(table, x) ==
    [row |-> x, old |-> IF table[x] = None THEN None ELSE table[x].val]

\* Mutant: a row that was found is left as it is.
Written_NewOnly(table, r, m) ==
    IF m.old # None THEN table
    ELSE [table EXCEPT ![m.row] = [usr |-> User(r), val |-> form[r]]]

\* The table with the row of r: nothing is written if nothing has changed.
Written(table, r, m) ==
    IF m.old = form[r] THEN table
    ELSE [table EXCEPT ![m.row] = [usr |-> User(r), val |-> form[r]]]

\* Another transaction has updated the row of r and is still open.
MeetingLocked(r) ==
    \E q \in Requests \ {r} : /\ step[q] = "prefs_flushed"
                              /\ mrow[q].old \notin {None, form[q]}
                              /\ mrow[q].row = mrow[r].row

Ended(r) ==
    /\ step'   = [step   EXCEPT ![r] = "none"]
    /\ loaded' = [loaded EXCEPT ![r] = None]
    /\ form'   = [form   EXCEPT ![r] = None]
    /\ mrow'   = [mrow   EXCEPT ![r] = None]
    /\ irow'   = [irow   EXCEPT ![r] = None]

Starting(r) == pc[r] = "serving" /\ step[r] = "none"

OInit ==
    /\ Init
    /\ role = [u \in Users |-> None]
    /\ completed = {}
    /\ meeting = [x \in Rows |-> None]
    /\ interview = [x \in Rows |-> None]
    /\ integrated = {}
    /\ answered = [u \in Users |-> [role |-> None, prefs |-> None]]
    /\ step = [r \in Requests |-> "none"]
    /\ loaded = [r \in Requests |-> None]
    /\ form = [r \in Requests |-> None]
    /\ mrow = [r \in Requests |-> None]
    /\ irow = [r \in Requests |-> None]

-----------------------------------------------------------------------------
\* The dependency admits the request and loads the user.
Enter(r) ==
    /\ Admit(r)
    /\ loaded' = [loaded EXCEPT ![r] = role[User(r)]]
    /\ UNCHANGED <<store, step, form, mrow, irow>>

\* set_role, on the users row as loaded.
SetRole(r, v) ==
    /\ Starting(r)
    /\ role' = IF v = loaded[r] THEN role ELSE [role EXCEPT ![User(r)] = v]
    /\ answered' = [answered EXCEPT ![User(r)].role = v]
    /\ Serve(r)
    /\ Ended(r)
    /\ UNCHANGED <<completed, meeting, interview, integrated>>

\* complete_submission, for /submission and /trial.
CompleteSubmission(r) ==
    /\ Starting(r)
    /\ completed' = completed \cup {User(r)}
    /\ Serve(r)
    /\ Ended(r)
    /\ UNCHANGED <<role, meeting, interview, integrated, answered>>

-----------------------------------------------------------------------------
(* set_meeting_preferences. *)

\* Mutant: a meeting row is added without looking for one.
PrefsRead_NoLookup(r, v, x) ==
    /\ Starting(r)
    /\ meeting[x] = None /\ \A q \in Requests : mrow[q] # None => mrow[q].row # x
    /\ mrow' = [mrow EXCEPT ![r] = [row |-> x, old |-> None]]
    /\ form' = [form EXCEPT ![r] = v]
    /\ step' = [step EXCEPT ![r] = "prefs_read"]
    /\ UNCHANGED <<vars, store, loaded, irow>>

PrefsRead(r, v, x) ==
    /\ Starting(r)
    /\ Chosen(meeting, mrow, r, x)
    /\ mrow' = [mrow EXCEPT ![r] = Loaded(meeting, x)]
    /\ form' = [form EXCEPT ![r] = v]
    /\ step' = [step EXCEPT ![r] = "prefs_read"]
    /\ UNCHANGED <<vars, store, loaded, irow>>

\* The second SELECT flushes the meeting row first, which waits for its lock.
PrefsFlush(r, y) ==
    /\ step[r] = "prefs_read"
    /\ mrow[r].old \notin {None, form[r]} => ~ MeetingLocked(r)
    /\ Chosen(interview, irow, r, y)
    /\ irow' = [irow EXCEPT ![r] = Loaded(interview, y)]
    /\ step' = [step EXCEPT ![r] = "prefs_flushed"]
    /\ UNCHANGED <<vars, store, loaded, form, mrow>>

PrefsCommit(r) ==
    /\ step[r] = "prefs_flushed"
    /\ meeting'   = Written(meeting, r, mrow[r])
    /\ interview' = Written(interview, r, irow[r])
    /\ answered'  = [answered EXCEPT ![User(r)].prefs = form[r]]
    /\ Serve(r)
    /\ Ended(r)
    /\ UNCHANGED <<role, completed, integrated>>

-----------------------------------------------------------------------------
(* save_integrations; without a platform nothing happens.                    *)

IntegrationRead(r, p) ==
    /\ Starting(r)
    /\ step' = [step EXCEPT ![r] = IF <<User(r), p>> \in integrated
                                   THEN "integration_found"
                                   ELSE "integration_missing"]
    /\ form' = [form EXCEPT ![r] = p]
    /\ UNCHANGED <<vars, store, loaded, mrow, irow>>

\* A row found is connected already; an INSERT that meets a rival's row
\* violates the unique constraint and the request fails (Abort).
IntegrationCommit(r) ==
    /\ step[r] \in {"integration_found", "integration_missing"}
    /\ step[r] = "integration_missing" => <<User(r), form[r]>> \notin integrated
    /\ integrated' = integrated \cup {<<User(r), form[r]>>}
    /\ Serve(r)
    /\ Ended(r)
    /\ UNCHANGED <<role, completed, meeting, interview, answered>>

-----------------------------------------------------------------------------
\* A database error, MultipleResultsFound, a duplicate integration or a crash:
\* the transaction is rolled back.
Abort(r) == Fail(r) /\ Ended(r) /\ UNCHANGED store

ONext ==
    \/ \E k \in Tokens : Issue(k) /\ UNCHANGED ovars
    \/ \E r \in Requests :
         \/ \E k \in Tokens : /\ Check(r, k) \/ CheckFails(r, k) \/ LogoutCommit(r, k)
                              /\ UNCHANGED ovars
         \/ (Refuse(r) \/ Blacklist(r)) /\ UNCHANGED ovars
         \/ Enter(r) \/ Abort(r)
         \/ \E v \in Values : SetRole(r, v)
         \/ CompleteSubmission(r)
         \/ \E v \in Values, x \in Rows : PrefsRead(r, v, x)
         \/ \E y \in Rows : PrefsFlush(r, y)
         \/ PrefsCommit(r)
         \/ \E p \in Platforms : IntegrationRead(r, p)
         \/ IntegrationCommit(r)
    \/ Tick /\ UNCHANGED ovars

OSpec == OInit /\ [][ONext]_<<vars, ovars>>

-----------------------------------------------------------------------------
(* Properties. *)

\* What the database holds of a user.
Profile(u) ==
    [role      |-> role[u],
     completed |-> u \in completed,
     meeting   |-> [x \in RowsOf(meeting, u)   |-> meeting[x].val],
     interview |-> [x \in RowsOf(interview, u) |-> interview[x].val],
     platforms |-> {p \in Platforms : <<u, p>> \in integrated}]

\* A user's profile changes only with the answer to a request of that user,
\* whose token was looked up before a logout had stored its key, or while Redis
\* did not answer: no handler writes a row of another user, whichever ones read
\* and write in between, and none writes for a token logged out in time.
StoredByTheirHandlers ==
    [][\A u \in Users :
          Profile(u)' # Profile(u) =>
              \E r \in Requests : /\ pc[r] = "serving" /\ pc'[r] = "idle"
                                  /\ User(r) = u /\ ~ late[r]]_<<vars, ovars>>
=============================================================================
