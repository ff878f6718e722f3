# A verification project for meetmind-api

TLA+ models of the parts of this API whose correctness depends on what else is
running at the same time: accounts and their verification, the session store,
access tokens and their blacklist, onboarding, the transcript log, document
ingestion, the Zoom RTMS bridge with its OAuth tokens, and interview set-up. TLC
checks bounded instances, TLAPS proves the theorems of the `*_proofs` modules for every value
of the constants. `PROJECT.json` lists the components, the runs, the mutants
each property was tried against, the source lines behind every definition, the
hazards and the theorems.

    tlc -workers 2 -config auth_concurrent.cfg MCAuthSessions     # one run
    tlapm AuthSessions_proofs.tla                                 # one proof module

## 1. The system

A FastAPI application (`app/`) on SQLAlchemy async and PostgreSQL, one session
and so at least one transaction per request, under the database's default READ
COMMITTED (`app/db/session.py` sets no isolation level); Redis for the blacklist
of access tokens; FastAPI background tasks, kept in process memory, for mail and
ingestion; and a synchronous meeting SDK (`sdk/`) with its own database (any of
PostgreSQL, SQLite or MySQL), a thread pool and one RTMS client per Zoom
stream. The repository's README runs uvicorn with `--workers N`, so a lock, a
registry or a queue held in memory is private to one of several processes.

### 1.1 Inventory

| Component | State | Operations | Interacts through | Hard because | Correct when |
|---|---|---|---|---|---|
| Sessions and password reset (`app/services/auth.py`, `routes/auth.py`) | `users.password_hash`, `refresh_tokens`, `active_sessions`, `password_reset_tokens` | login, refresh, logout, forgot password, reset password | row locks and snapshots of PostgreSQL; forgot runs as a background task | four tables changed by check-then-write transactions that overlap | a session is listed for live tokens only; a token is rotated once; a link works once; a reset ends every session |
| Transcript store (`sdk/repositories.py`) | `sdk_transcript_turns`, a lock per session and process | add a turn, list | the unique key (session, number) | max + 1 under a lock other processes do not share; retries; a snapshot older than the lock | no gap, no duplicate, a turn is stored once or reported lost |
| Document ingestion (`app/services/document_service.py`) | `candidate_documents.status`, `document_chunks` | upload, background task, its error handler | commits of one task seen by readers | failure of the parser, the embedding service or the database between commits; a crash | all chunks or none, together with the status |
| Zoom RTMS (`sdk/providers/zoom_rtms`, `sdk/sdk.py`) | `sdk_sessions`, `sdk_provider_events`, client registry, start queue | webhook start and stop, join, leave, control request | webhook deliveries, the pool, the session row | repeated, early and misplaced events; stale objects; several processes | every joined client can be stopped; turns go to a session of the meeting; every event settles |
| Interviews (`app/services/interview.py`) | workspaces and members, categories, interviews, scores | create, replace criteria, cancel | unique index, row locks, deadlocks | look-up-then-insert without a unique key; DELETE by snapshot | criteria stay in the workspace; an update stores its list; a cancelled interview is frozen |
| E-mail verification (`verification_service.py`, `email_service.py`) | `email_verification_tokens`, `users.is_verified` | issue, resend, verify, the mail | one transaction each; the mail is a background task | the tokens retired are those that were read; a link is redeemed while it is replaced; a mail that is lost | nobody is verified by another's link; an unverified account has a link; one link is active |
| Signup and Google sign-in (`google_oauth.py`, `auth.py`) | `users`, `sso_providers` | signup, callback | the unique e-mail | look-up-then-insert by two services; two commits in a signup | one account per e-mail, of one kind |
| Access-token blacklist (`core/redis.py`, `middleware.py`, `api/deps.py`) | Redis keys with a TTL | issue, every request, logout | Redis and the clock only | logout commits before it blacklists; Redis fails open; the expiry and the TTL are whole seconds, the clock is not | what asks Redis after a stored logout is stopped |
| Zoom OAuth (`oauth.py`, `oauth_state.py`) | token rows, signed states | authorize, callback, refresh | Zoom's token endpoint | one rotating refresh token used by many requests; the answer is stored after Zoom has acted | the newest row can be renewed, unless an answer was lost or Zoom gave no refresh token |
| Onboarding (`services/onboarding.py`) | role and `onboarding_completed` of `users`, two preferences tables, `user_platform_integrations` | role, preferences, integrations, submission | admitted by the middleware and `get_current_user`; unique keys, or none | double submit; unchanged columns are not written | one row of each kind, with the form answered last |
| Webhook security | none | verify | the clock | the accepted window | |
| Waitlist, subscriptions | one row per e-mail | find or create | a unique key | double submit | one row |
| Candidate search, dashboard, chat history, retrieval, CSV | none (reads) | read | | paging while rows change | |
| Wake words, bridge stub, support, limiter, settings, migrations, CI | none worth a model | | | | |

`PROJECT.json` has the same list with the files of each component, and under
"hazards" the lines where each of these difficulties bites.

## 2. Modules

| Module | Models | State and actions in terms of the code |
|---|---|---|
| `AuthSessions` | `services/auth.py`, `routes/auth.py` | tables as functions over tokens; `LoginCheck`/`LoginCommit`, `RefreshRead`/`Select`/`Commit`/`Stale`, `LogoutRead`/`Select`/`Commit`, `ForgotRead`/`Commit`, `ResetRead`/`Flush`/`RevokeRow`/`Delete`/`Commit`, `Fail`, `Expire` |
| `AtomicSessions` | what the requests of the session store promise whatever overlaps | each takes effect at one moment, on the rows of one user, with all its writes; `AuthSessions` implements it |
| `SessionHistory` | | the same with the history variable `raced`: what is promised to users who did not race |
| `Accounts` | `verification_service.py`, `find_or_create_user`, `create_user`, signup | `SignupCheck`/`Insert`/`Finish`, `ResendRead`, `TokenScan`/`TokenCommit` (`create_verification_token`, for both), `Mail`, `VerifyRead`/`Flush`/`Commit`, `GoogleRead`/`Check`/`Insert`/`Commit`, `Refuse`, `Fail`, `Expire` |
| `AtomicAccounts` | the same for signup, resend, verification and Google | each at one moment, on one account; `Accounts` implements it |
| `AccountHistory` | | `raced` for accounts |
| `TranscriptLog` | the contract of `add_transcript_turn` and `list_transcript` | a log per session, append or lose |
| `TranscriptSequence` | `sdk/repositories.py:90-125` | `Begin`, `Lock`, `NextSequence`, `Insert`, `Conflict`, `Error`, `Crash`; refines `TranscriptLog` |
| `AccessTokens` | `create_access_token`, the middleware, `get_current_user`, `/logout` | `Issue`, `Check`/`CheckFails` (Redis asked, Redis failing), `Admit`/`Refuse` (the expiry), `Serve`, `LogoutCommit`/`Blacklist` (the two halves of a logout), `Fail`, `Tick` |
| `Onboarding` | `services/onboarding.py` on requests of `AccessTokens`, which it implements | `Enter`, `SetRole`, `CompleteSubmission`, `PrefsRead`/`Flush`/`Commit`, `IntegrationRead`/`Commit`, `Abort` |
| `OnboardingHistory` | | `raced` for users |
| `ZoomOAuth` | `oauth.py`, `oauth_state.py`, the token rows of `repositories.py` | `FindNone`, `FindLatest`, `Missing`, `ZoomRefreshes`/`Refuses`/`Exchanges`, `CreateState`, `StateExpires`, `Callback`, `Flush`, `Commit`, `Fail`, `Expire` |
| `OAuthHistory` | | `since`: the rows stored since a request began |
| `DocumentLifecycle` | what a reader of `DocumentStatus` may rely on | status machine; chunks appear with `completed` |
| `DocumentPipeline` | `document_service.py`, the upload route | `Upload`, `Schedule`, `Start`, `Extract`, `EmbedBatch`, `Store`, the handler, faults, `Crash`; refines `DocumentLifecycle` |
| `ZoomStreams` | `webhook.py`, `manager.py`, `find_zoom_session`, `update_session_status`, `start_zoom_rtms` | `Start*` and `Stop*` of a delivery, `Request*` of the control request, `ZoomStart`/`ZoomStop`, `TaskFail`, `Crash` |
| `StreamHistory` | | `starts` and `inOrder`, the deliveries of starts and of the stops that came after one was through; `rewritten` for meetings |
| `Interviews` | `services/interview.py` | `CreateRead`, `FindCategory`/`CreateCategory`/`InsertScore`, `CreateCommit`, `UpdateRead`/`Scan`/`Delete`/`Deleted`/`Commit`, `Cancel*`, `Refuse`, `Fail` |
| `AtomicInterviews` | the same for the interview service | each at one moment, on one interview, in a workspace of the user; criteria are sets of names; `Interviews` implements it |
| `InterviewHistory` | | `raced` for users and interviews |
| `MC*` | | the instances TLC checks: values, bounds, symmetry |
| `*_proofs` | | the theorems of section 5 |

The operators whose name has an underscore (`RefreshRead_Revoked`,
`StopPop_Get`) are plausible bugs: each stands in for the definition it is named
after, and some run's property must then fail. They are not part of any
specification.

### How the code's concurrency is modelled

* **Transactions.** A step is the stretch of a request between two statements
  that another transaction can tell apart. What a transaction has written stays
  in the variables of the request (`mine`, `gone`, `newPassword`) and reaches
  the tables in the step that commits. A SELECT sees committed rows only. An
  UPDATE or DELETE with a WHERE takes its rows from a snapshot (`seen`), waits
  for rows that an open transaction has written, looks again at a row that
  changed while it waited (`ResetRevokeRow`, `UpdateCommit`), and does not see
  rows committed after its snapshot. `UPDATE ... WHERE id` of the unit of work
  does not look again at what Python checked earlier (`RefreshSelect`,
  `CancelFlush`). SQLAlchemy details that matter are kept: autoflush before a
  SELECT, no UPDATE for an unchanged attribute (`LogoutSelect`, `Save`),
  `StaleDataError` when an UPDATE matches no row and only a warning for a DELETE.
* **Unique keys.** An INSERT waits for a rival that inserted or deleted the same
  key and has not ended, then fails or succeeds (`InsertScore`, `Duplicate`).
  `WaitsFor` is the resulting waits-for relation; a circle of it lets PostgreSQL
  roll back any one of its members (`Deadlocked`). `WaitsFor` of `AuthSessions` is
  the same relation for the row locks of the session store.
* **Threads and processes.** Pool threads of the SDK interleave between
  database statements and between accesses to the registry. A lock, registry or
  queue belongs to one process; `Crash` empties them and keeps the rows.
* **Time.** Expiry is a step that may come at any moment, except in
  `AccessTokens`, where it is the point: `exp` and the TTL of a key are whole
  seconds, and the clock ticks `TicksPerSecond` times in each.
* **Zoom's token endpoint** is a part of the model: it takes a refresh token once,
  answers with or without a new one, and what it has answered is lost if the
  request fails before its COMMIT.
* **Failure.** Every transaction may end by rollback at any of its steps
  (`Fail`), every start or stop of a stream may fail, the parser, the embedding
  service and, up to `MaxFaults`, any database statement of the ingestion may
  raise.

## 3. The runs

All bounds are those of the `.cfg` files. `CHECK_DEADLOCK FALSE` is given where
the model runs out of identifiers or deliveries and legitimately stops; where a
request can always be received and fail (`AuthSessions`, `Onboarding`,
`ZoomOAuth`) TLC checks for deadlock. The type invariants are proved in every
component module (section 5) and are not checked again by a run.

| Run | Question | Bounds, and why they are enough |
|---|---|---|
| `accounts` | Do signups, resends, verifications and Google callbacks leave one account per e-mail, verified by its own link and never without one? | 2 e-mails, one of them that of 2 Google accounts, 3 tokens, 3 requests in flight with their mails, errors and expiry at any point: two resends can race while a verification redeems a link they retire |
| `auth_concurrent` | Do the tables stay consistent when requests overlap, and does a user whose own requests do not overlap get what the endpoints promise? | 2 users, 2 requests in flight, 3 refresh and 2 reset tokens. Every hazard is a race of two transactions; the second user shows that races are not across users; three tokens give a rotation and a rival; two reset tokens a replaced link. One token or link may expire, in runs with at most three of them (`FewOnceExpired`): expiry only takes behaviours of a token away |
| `reset_leaves_token` | "revoke every active session" after a reset | violated, section 4 |
| `interviews_concurrent` | Do the criteria stay in their workspace, is the last list kept, and does an undisturbed user or interview get all that is promised? | 2 users, 2 workspaces, 2 interviews, 2 requests, 3 categories, lists of one name, of two in either order, and of one name twice: two updates that insert in opposite orders are the least that deadlocks |
| `two_workspaces` | "the user's first workspace, creating one if none exists" | violated, section 4 |
| `transcripts` | Is the log gapless and append-only, does the code refine `TranscriptLog`, who can cause a retry, and does every callback end? | 3 turns of 2 sessions in 2 processes, a database whose reads repeat: a behaviour of one whose reads do not is one whose turns begin late. 2 attempts, where the code has 3, so that two rivals make a turn give up; the theorems hold for any number |
| `documents` | Are chunks whole, in order and never visible early, does the status follow the lifecycle, does every task settle? | 2 documents, up to 5 chunks in batches of 2 (two full batches and a short one), 2 faults (one for the task, one for its handler), 1 crash |
| `zoom_streams` | Is any client shared, or forgotten by anything but a successor or a failing `leave()`? Does a stop in order release the client and end the session whatever other stops there are? | 2 streams in 2 meetings, 2 processes, 1 restart, 3 deliveries of any event in any order: a start and two stops, one of them early, repeated or in the wrong process, or a start delivered twice and a stop; a pool of 2, so that two starts of one process overlap |
| `zoom_settles` | Is the stream id ever wiped by a stale object, or a client heard in another meeting? Does a stream stopped in order leave no client, and its row ended? Does every event settle? | 1 stream, 2 meetings, 2 deliveries, 1 control request, 1 restart, 2 rows: both of the stream's meeting, so that `find_zoom_session` can meet two, or one of a meeting of its own that a client must not be heard in. Two streams of two meetings together with the request are beyond TLC; `TurnsStayInMeeting` has any number |
| `zoom_oauth` | Does the newest row stay renewable, where Zoom gave it a refresh token, whatever refreshes and callbacks overlap? What may a refresh hide or waste? | 2 requests, 4 grants of any lifetime, each with or without a refresh token: a row, the two answers that race for it, and one that follows |
| `onboarding` | Does a stored logout stop the token? Does an undisturbed user find the rows, with what was answered last? | 1 token of 1 user, 2 requests, a lifetime of 1 second of 2 ticks and a clock of 4: issue, logout and look-up at either half of a second, and past the expiry. Rows, keys and forms of different users have nothing in common, and the theorems hold for any number |
| `zoom_duplicate_start` | "Owns active Zoom RTMS clients" | violated, section 4 |

**History variables.** Several promises of the code hold for a user or interview
whose *own* requests come one after another, and only then. `raced`
(`SessionHistory`, `AccountHistory`, `InterviewHistory`, `OnboardingHistory`)
collects the users, accounts and interviews with two requests in flight at once;
the properties then quantify over the rest, while everybody else races freely.
That is stronger than a sequential run: it says that the damage of a race stays
with the one who raced. The other history variables exclude nobody who races:
`since` (`OAuthHistory`) has the rows that were stored while a request was at work,
the only ones it may overlook; `starts` and `inOrder` (`StreamHistory`) tell the stops
that came after the start of their stream was through in the same process from those
that were early or misplaced, which may be there as well; and `rewritten` has the
meetings whose status a control request has changed since the start of a stream of
theirs was recorded. The variables only observe.

**Fairness.** `TranscriptSequence`: strong fairness of each callback's own steps,
because `threading.Lock` and the database wake their waiters, so a lock that
keeps becoming free is not refused for ever. `DocumentPipeline`: weak fairness,
the event loop runs a task that can go on. `ZoomStreams`: weak fairness, the
pool's queue is first in first out. Receiving a request, failing, expiring and
crashing are never fair. `EveryEventSettles` and `EveryTaskSettles` name their
exceptions: the bounds of the model (no identifier left), and for ingestion a
task killed by a crash or fault, which the code indeed never takes up again.

`AuthSessions` and `Interviews` state no fairness. Their requests loop nowhere,
so all that could keep one from ending is a circle of waits, and that is a safety
property: `NoCircle` says that the session store has none, `DeadlocksHitUpdates`
which requests the interviews' circles are made of (PostgreSQL breaks them).
Both are proved for any number of requests, where a liveness run shows two.

## 4. What the runs found

Each has a run with a counterexample:

1. **A reset does not end every session** (`reset_leaves_token`,
   `services/auth.py:359`). The UPDATE acts on its snapshot; a login that had
   verified the old password, or a refresh that holds the row of the token it
   rotates, commits its token after it. `ResetRevokesSnapshot` and
   `ResetIsComplete` say what does hold.
2. **A user can get two workspaces** (`two_workspaces`, `interview.py:56`) and
   then cannot use any: the look-up raises `MultipleResultsFound`.
3. **A repeated start event loses a client** (`zoom_duplicate_start`,
   `manager.py:110`): both join, the registry keeps the second, nobody can stop
   the first. A client is lost in one other way, which contradicts no document: a
   stop takes it out of the registry before `leave()`, and `leave()` raises
   (`manager.py:125-127`). `LostToSuccessorOrFailure` says that there is no third.

The same kind of race shows when a history variable is dropped: two overlapping
resends leave two active links, against "ensuring only one active token exists
at a time" (`verification_service.py:69`); two overlapping resets spend one link
twice; two overlapping forgot-password tasks leave two working links; two
overlapping refreshes give one token two successors (`auth.py`); a token rotated
behind a reset is live without a session; a name gets two categories and can no
longer be looked up; two updates merge their criteria; criteria change after a
cancellation; two cancellations succeed (`interview.py`). Two sessions of one
meeting make `find_zoom_session` raise, so every later event of the meeting is
refused (modelled by `Find`).

## 5. Proofs

All proofs are checked without trusted steps, from the assumptions on constants
each module names (`AccountAssumption`, `NoneAssumption`, `TokenAssumption`,
`InterviewAssumption`, `SequenceAssumption`, `StreamAssumption`, `GrantAssumption`,
`OnboardingAssumption` and those of `DocumentPipeline`). Every one of them has a
`TypeCorrect`.

* **`AuthSessions_proofs`**: `TypeCorrect`, `SessionsAreLive`
  (`SessionTokenLive`), `ResetsRevokeTheirSnapshot`, `TrackedUnlessReset` (`LiveTokenTracked`),
  `RotationsFindTheirSession` (`FoundSessionStays`), `LocksAreOrdered`
  (`NoCircle`). `SessionTokenLive` is not
  inductive: the commit that revokes a token must also move or delete its
  session, and the request decided which sessions those are several steps
  before. `TypeInv` says whose token each request has in hand; `SessionInv` adds
  that a request that found no session still has none to find (only a commit of
  the token's own row could add it), that a refresh or logout has written no row
  but its token's, and that a reset past its DELETE holds in `gone` every session
  of the rows it wrote. The tracking theorem needs more, `TrackedInv`: no two
  requests have written the same token row, which is what the row lock gives,
  and what a reset deletes belongs to a user who asked for a reset. Its two
  conclusions, `LiveTokenTracked` and `FoundSessionStays`, are proved together
  because each is used for the other. `LocksAreOrdered` needs to know where in a
  transaction its rows are locked (`LockInv`); then whoever is waited for is further
  on (`WaitsAhead`): a session row is held by a reset that only has to commit, a
  token row by a request that waits for a session row at most or by a reset, and no
  reset waits for another's token rows, because the users row comes first. So a
  circle would have no member left.
* **`Accounts_proofs`**: `TypeCorrect`, `AccountsStaySeparate`
  (`SeparateAccounts`), `OwnLinkVerifies` (`VerifiedByOwnLink`), `LinkRemains`
  (`NeverWithoutLink`), `MailsAreStored` (`MailedIsStored`). None is inductive
  alone: a request writes what it read several steps ago. `RequestInv` says what
  is still true of it then: an account being inserted does not exist and nobody
  else inserts it (the unique e-mail), a new token is held by one request and
  belongs to nobody, the tokens to retire belong to the account, so the new one
  is never among them, and a link being redeemed was mailed to its account.
  `StoreInv` adds that tokens belong to accounts with a password.
* **`TranscriptSequence_proofs`**: `TranscriptGapless` and `AppendRefined`
  (every step is a step of `TranscriptLog` or a stutter, under the mapping of
  `Log`). The invariant `IInv` says that the rows of a session are a sequence, that
  a number about to be inserted is taken or the next one, so an insert that is
  not refused extends the sequence by one, and that the rows hold stored turns
  only, so no turn is appended twice. `TypeCorrect` needs `AttemptInv` besides: a turn
  that is still trying has attempts left.
  `ConflictsComeFromRivals` (`ConflictsAreRivals`) is a count. The lock keeps the
  turns of one process apart (`LockInv`), so the row that takes a number behind a
  turn's back is that of a rival in another process; `PaidInv` charges each conflict
  to a rival's row below the number being tried (`Met`), never twice to the same, but
  for the one conflict a snapshot older than the lock can cost where reads repeat.
  With `SpentInv` (whoever has given up has had a conflict in every attempt) it
  follows what it takes for the error "Could not assign transcript sequence number."
  (`TurnsYieldToRivals`): `MaxAttempts` rows of other processes, one less where reads
  repeat; and that a single process never raises it (`LockIsEnough`).
* **`DocumentPipeline_proofs`**: `ChunksAreWhole` (`WholeOrNothing`) and
  `ReadersSeeTheLifecycle` (`FollowsLifecycle`: every step is a step of
  `DocumentLifecycle` or a stutter). The invariant adds to `WholeOrNothing` that the
  status is one the task's place allows and that what has been embedded are the
  first chunks in order (`Counted`), which `Store` then writes as they are.
* **`ZoomOAuth_proofs`**: `StrandedByLossOrZoom` (`RenewableUnlessLost`),
  `RefusalsPass` (`RefusalIsTransient`). The invariant follows a grant: it is held by
  one request until it is stored or lost (`HeldInv`), it came from a row's refresh
  token (`OriginInv`), is dated after that row (`StampInv`), and what Zoom gave for a
  spent token is lost, held or stored (`SpentInv`). Were a spent row the newest, its
  stored successor would be newer. That says nothing of a newest row without a
  refresh token: Zoom's answer to a refresh may have none, and once stored it
  strands the account, a callback's renewable row dated just before it included,
  with nothing lost. What holds of it is proved from `HistorySpec`:
  `AnswersHideSpentRows` (`HidesSpentOrNew`) says that such an answer hides only rows
  that were stored while it was on its way, and `OnlyNewRowsAreRefreshedEarly`
  (`RefreshesStaleOrNew`) that a refresh token is spent before its access token has
  expired only if its row was that new. `KnownInv` is what a request has learnt from
  its two look-ups, up to the rows in `since`; no two rows share a date
  (`DatesDiffer`), so the row it read stays the newest of the others.
* **`Onboarding_proofs`**: `LogoutStops` (`LogoutHolds`). The invariant `KeyInv` is
  about time: a stored key lasts until the token has expired, since the second
  subtracted from `exp` began before the key was stored, so a look-up after the
  logout either meets the key or a token the dependency refuses. The handlers leave
  the variables of the tokens to the requests (`HandlersKeepTheRules`, a lemma: it
  holds by the way the two modules are composed), so the same is true of `Onboarding`
  (`LogoutStopsHandlers`). `ProfilesAreTheirUsers` (`StoredByTheirHandlers`) puts the
  two together: what is stored of a user changes only with the answer to a request of
  that user which no stored logout should have stopped. It needs `HandlerInv`: a row
  that a handler has found or is about to insert stays its user's until it is
  written (`Claims`), and handlers of two users never have one row in hand (`Apart`).
* **`ZoomStreams_proofs`**: `TypeCorrect`, `ClientsHaveOneOwner` (`OneOwner`),
  `ClientsAreNotForgotten` (`LostToSuccessorOrFailure`), `TurnsStayInMeeting`
  (`HeardInItsMeeting`). The invariant `Inv` has three parts: the types; who owns a
  client (`Known`, `ActivePlaces`, `RegistryNames`, `StopsHold`); and what rows,
  loaded objects and tasks know of each other (`RowsNameStreams`,
  `ObjectsKnowRows`, `TasksKnowMeetings`), which shows that a stale object never
  takes the stream out of a row or puts one of another meeting there.
  `StopsRelease` (`StoppedStreamReleased`, from `HistorySpec`) is about a stop that came
  to the process of its stream's start after the start was through. `OrderInv` keeps
  what it found: that start stays through and its session stays. So, if the stream
  started once, nothing of it comes back into the registry after the pop
  (`EmptiedInv`), and a client of it that is still joined was taken out by another
  stop; and nobody but a stop writes the row of a meeting with no other stream, which
  is "ended" under the stream's id from the commit of this stop on, unless a control
  request has rewritten it (`EndedInv`).
* **`Interviews_proofs`**: `TypeCorrect`, `CriteriaStayInWorkspace`
  (`ScoresInWorkspace`), `LastListIsKept` (`LastReplaceKept`), `OnlyUpdatesDeadlock`
  (`DeadlocksHitUpdates`). A category is found
  or made several steps before its score is visible, and may vanish with the
  transaction that made it. The invariant says that a request works in the
  workspace of its interview, that what it has inserted or is about to insert
  lies there (`Inserts`), that a category not committed yet is used by its own
  transaction only (`FreshIsPrivate`), and that each criterion already passed
  has its score (`Progress`). `OnlyUpdatesDeadlock` adds `ScanInv`: only an update
  that deletes or inserts has a snapshot to wait on.

* **The refinements.** `AuthSessions`, `Accounts` and `Interviews` implement
  `AtomicSessions`, `AtomicAccounts` and `AtomicInterviews`: `RequestsAreAtomic` of
  each proof module is `Spec => Atomic!Spec`, for any number of requests that overlap
  in any way. What a request has read is old when it commits, so each proof is about
  what is still true then: the rows a request writes belong to its user
  (`OwnRowsInv`) or account (`OwnRequestInv`), a token it issues is still nobody's; a
  logout that writes nothing left the token revoked by others, and for interviews the
  names of the scores after a commit are its list and a part of what was there
  (`CriteriaWritten`), in a workspace that is free or has the user as its member
  (`Seats`). The abstract specifications are silent on what does depend on overlaps:
  which earlier tokens or criteria a commit retires, and whether a token was still
  good; that is the business of the history theorems. No run checks these three; they
  rest on the proofs. `AppendRefined` and `ReadersSeeTheLifecycle` above are the
  refinements of the other components.

* **The history theorems.** What holds for users, accounts and interviews
  that have not raced is proved as well, from `HistorySpec` of the history modules:
  `TokensRotateOnce` (`RotatesOnce`), `LinksReplaceEachOther` of both link modules
  (`OneLinkWorks`, `OneActiveLink`), `ResetsAreComplete` (`ResetIsComplete`),
  `OneWorkspaceIsFound` (`WorkspaceIsFound`), `OneCategoryIsFound`
  (`CategoryIsFound`), `UpdatesReplaceAll` (`ReplacesAll`), `CancellationIsFinal`
  (`CancelledStays`), `OneRowOfPreferences` (`PreferencesAreFound`),
  `LastFormIsStored` (`LastFormsKept`). They share one argument. `raced` has everybody two of whose requests are in flight (`RacedKnown`
  and its like), so whoever is not in it has one request at most, and what that
  request has read is still so when it writes: nobody else acts for that user. The
  invariant is the promise itself for the rows, together with that request's view of
  them: the live tokens it saw, the workspace it resolved (`Resolved`), the scores its
  DELETE has reached (`Swept`). For categories one needs to know besides who works
  in a workspace: it has a member or is being made by one create (`Seats`), so whoever
  inserts a name there acts for its user (`WriterActs`).

**Only model-checked.** Liveness, which is out of the prover's reach: `EveryTurnEnds`,
`EveryTaskSettles`, `EveryEventSettles`; and the counterexamples of section 4. Every
invariant and action property of a passing run is stated by a theorem.

## 6. Assumptions and what is not modelled

* A COMMIT that raises has not happened. Creating an entry of the lock
  `defaultdict` is atomic in CPython. `join()` and `leave()` answer or raise.
* Rows of users are never deleted. Users without a password (Google) cannot log
  in with one; signup and the Google callback end in the `create_refresh_token`
  of login, which stands for them in `AuthSessions`. A reset gives a Google
  account a password too; that is not a state of `Accounts`, whose "google" is how
  the row was made.
* A Google account keeps its e-mail address (`EmailOf`), two may have had the
  same. A verification token is known from its mail only. FastAPI runs background
  tasks after a response and drops them when the handler raises. The exchange with
  Google and the check of the `oauth_state` cookie are inputs.
* Identifiers and tokens are fresh random values, so identifiers freed by a
  rollback stand for new ones, and symmetry over them is sound; the proofs and
  the liveness runs do not use symmetry.
* The order in which Zoom delivers the turns of a meeting is not claimed:
  `Gapless` is about numbers, not about speech.
* Zoom sessions without a meeting id and payloads without a stream id are left
  out: a start without one is refused at once, a stop without one ends the session of
  its meeting and looks for no client. Each event has an id of its own. A
  control request may put "rtms_start_requested" over "listening", as the code
  does; no property is about the status while a stream runs.
* Interviews: candidate, summary and scorecard rows are written once, with the
  interview; a workspace has the one member it was made for; nothing in the
  repository sets "completed"; the branch that makes a missing scorecard is
  unreachable; the order of a DELETE's rows is open; sort orders are left out.
* Access tokens: the processes' clocks agree, and Redis lets a key's TTL run at the
  same rate. The middleware and the dependency read the same token. A handler that
  is already running is not stopped by a logout, and neither is a request whose
  look-up Redis did not answer: `LogoutHolds` is about the rest. Other claims
  (signature, issuer) are inputs.
* Onboarding: a form is one value, so a row takes it whole or keeps the old one.
  `/language` and `/invite` store nothing; the unique key of the integrations is the
  only one.
* Zoom OAuth: no two token rows have the same `created_at`. Zoom refuses a refresh
  token it has taken before and accepts any other, whatever else it may check. The
  fixed `ZOOM_ACCESS_TOKEN` of temporary testing bypasses the table and is left out.
  The SDK's reads see what is committed when they run (SQLite, or PostgreSQL under
  READ COMMITTED). Encryption and the signature of the state are ways to fail.

### Not modelled

* The webhook signature, wake words and the CSV layout are pure functions of one
  request: no order of steps can break them, and a unit test reaches them. That a
  delivery may be repeated within the signature's window is what `ZoomStreams`
  starts from.
* Candidate search, the dashboard and the chat history read and store nothing.
  Interview context retrieval is one query that nothing in `src/` calls; the meeting
  bridge is a stub that raises.
* Waitlist, subscriptions and support requests insert one row; the race on the
  unique e-mail is that of the signups in `Accounts`.
* Rate limiting, logging, settings and migrations are library configuration or run
  outside the requests.

Of some 38,700 lines of Python, 28,564 are the vendored `scripts/get-pip.py` and
2,502 the migrations. The map covers some 2,900 of the remaining 7,700; most of the
rest are schemas, settings, responses and reads.

## 7. Plan

Done: the components listed as modelled in `PROJECT.json`, each with its runs and
its proofs. What would add to it:

1. A specification of one link that both password reset and e-mail verification
   implement for users who do not race (`create_password_reset_token` and
   `create_verification_token` are the same algorithm). `AtomicSessions` and
   `AtomicAccounts` say what holds of each whatever overlaps.
2. The refresh token and the access token of one login in one specification; today
   nothing in the code relates the two after a logout that stops half way.
3. Atomic specifications of `ZoomOAuth` and `ZoomStreams`, whose steps are commits of
   several rows and calls to Zoom between them.
