----------------------------- MODULE Interviews -----------------------------
(***************************************************************************)
(* Interviews, the workspaces they live in and their scorecard criteria     *)
(* (services/interview.py): create_interview, update_interview_criteria and  *)
(* cancel_interview.                                                        *)
(*                                                                         *)
(* Each request is one PostgreSQL transaction under READ COMMITTED, as in    *)
(* AuthSessions.  What matters here is what the schema constrains: a score    *)
(* is unique per scorecard and category, so an INSERT waits for a rival that  *)
(* has not ended and then fails or not; a workspace per user and a category   *)
(* per name are unique only as far as the code looks before it inserts.      *)
(*                                                                         *)
(* An interview has one scorecard, inserted with it, so scores are pairs of   *)
(* an interview and a category; candidate and summary rows are written once,  *)
(* with the interview, and left out.  A workspace has one member, the user    *)
(* it was made for, who is the interviewer of its interviews.                *)
(***************************************************************************)
EXTENDS Naturals, Sequences, FiniteSets

CONSTANTS Users, Workspaces, Categories, Interviews,  \* row ids
          Names,     \* criterion names, after the schema has stripped them
          Lists,     \* lists of names a payload may carry, never empty
          Requests,  \* requests in flight at once
          None       \* no row

ASSUME InterviewAssumption ==
    /\ None \notin Users \cup Categories \cup Interviews \cup Workspaces
    /\ None \notin [ws : Workspaces, name : Names]
    /\ Lists \subseteq Seq(Names) \ {<< >>}

VARIABLES
    owner,     \* workspace_members: the member of a workspace, or None
    category,  \* scorecard_categories, rows of open transactions included
    status,    \* interviews.status, "absent" before the row is committed
    home,      \* interviews.workspace_id
    scores,    \* scorecard_scores
    asked,     \* history: the names of the last list stored for an interview
    cancels,   \* history: cancellations answered with 200
    pc,        \* where each request is
    usr,       \* the user of a create
    itv,       \* the interview it acts on
    ws,        \* the workspace it works in
    list,      \* the criteria it was given
    at,        \* how many of them have been inserted
    pend,      \* the category of the score to be flushed next
    fresh,     \* categories it has inserted
    seen,      \* scores in the snapshot of its DELETE
    gone,      \* scores it has deleted and keeps locked
    mine       \* scores it has inserted

store   == <<owner, category, status, home, scores, asked, cancels>>
request == <<pc, usr, itv, ws, list, at, pend, fresh, seen, gone, mine>>
vars    == <<store, request>>

-----------------------------------------------------------------------------
WorkspacesOf(u) == {w \in Workspaces : owner[w] = u}

Scored(i) == {c \in Categories : <<i, c>> \in scores}

CriteriaOf(i) == {category[c].name : c \in Scored(i)}

NamesIn(l) == {l[k] : k \in DOMAIN l}

\* Mutant: the lookup is not confined to the workspace.
Matching_AnyWorkspace(r) ==
    {c \in Categories : /\ category[c] # None
                        /\ \A q \in Requests \ {r} : c \notin fresh[q]
                        /\ category[c].name = list[r][at[r] + 1]}

\* Mutant: the lookup never finds anything.
Matching_Nothing(r) == {}

\* The categories r finds for the criterion whose turn it is.
Matching(r) ==
    {c \in Categories : /\ \A q \in Requests \ {r} : c \notin fresh[q]
                        /\ category[c] = [ws   |-> ws[r],
                                          name |-> list[r][at[r] + 1]]}

\* Mutant: scores are unique per workspace and category.
Rivals_InWorkspace(r) == {q \in Requests \ {r} : ws[q] = ws[r]}

\* Other transactions on the same scorecard.
Rivals(r) == {q \in Requests \ {r} : itv[q] = itv[r]}

\* Rows of its DELETE that r has still to reach.
Remaining(r) == seen[r] \ gone[r]

\* The transactions r cannot go on without.
WaitsFor(r) ==
    CASE pend[r] # None -> {q \in Rivals(r) : pend[r] \in mine[q] \cup gone[q]}
      [] Remaining(r) # {} /\ Remaining(r) \subseteq UNION {gone[q] : q \in Rivals(r)} ->
           {q \in Rivals(r) : Remaining(r) \cap gone[q] # {}}
      [] OTHER -> {}

\* The transaction of r is over.
Done(r) ==
    /\ pc'    = [pc    EXCEPT ![r] = "idle"]
    /\ usr'   = [usr   EXCEPT ![r] = None]
    /\ itv'   = [itv   EXCEPT ![r] = None]
    /\ ws'    = [ws    EXCEPT ![r] = None]
    /\ list'  = [list  EXCEPT ![r] = << >>]
    /\ at'    = [at    EXCEPT ![r] = 0]
    /\ pend'  = [pend  EXCEPT ![r] = None]
    /\ fresh' = [fresh EXCEPT ![r] = {}]
    /\ gone'  = [gone  EXCEPT ![r] = {}]
    /\ mine'  = [mine  EXCEPT ![r] = {}]

Rollback(r) ==
    /\ Done(r)
    /\ seen' = [seen EXCEPT ![r] = {}]
    /\ category' = [c \in Categories |->
                      IF c \in fresh[r] THEN None ELSE category[c]]
    /\ UNCHANGED <<owner, status, home, scores, asked, cancels>>

Init ==
    /\ owner = [w \in Workspaces |-> None]
    /\ category = [c \in Categories |-> None]
    /\ status = [i \in Interviews |-> "absent"]
    /\ home = [i \in Interviews |-> None]
    /\ scores = {}
    /\ asked = [i \in Interviews |-> {}]
    /\ cancels = [i \in Interviews |-> 0]
    /\ pc = [r \in Requests |-> "idle"]
    /\ usr = [r \in Requests |-> None]
    /\ itv = [r \in Requests |-> None]
    /\ ws = [r \in Requests |-> None]
    /\ list = [r \in Requests |-> << >>]
    /\ at = [r \in Requests |-> 0]
    /\ pend = [r \in Requests |-> None]
    /\ fresh = [r \in Requests |-> {}]
    /\ seen = [r \in Requests |-> {}]
    /\ gone = [r \in Requests |-> {}]
    /\ mine = [r \in Requests |-> {}]

-----------------------------------------------------------------------------
(* Create: look the workspace up, or make one with its member.  Two         *)
(* memberships raise MultipleResultsFound and the request ends with a 500,  *)
(* nothing done.                                                           *)

\* Mutant: a workspace is made without looking for one.
CreateRead_NoLookup(r, u, w, i, l) ==
    /\ pc[r] = "idle"
    /\ owner[w] = None /\ \A q \in Requests : ws[q] # w
    /\ status[i] = "absent" /\ \A q \in Requests : itv[q] # i
    /\ pc'   = [pc   EXCEPT ![r] = "creating"]
    /\ usr'  = [usr  EXCEPT ![r] = u]
    /\ ws'   = [ws   EXCEPT ![r] = w]
    /\ itv'  = [itv  EXCEPT ![r] = i]
    /\ list' = [list EXCEPT ![r] = l]
    /\ UNCHANGED <<store, at, pend, fresh, seen, gone, mine>>

CreateRead(r, u, w, i, l) ==
    /\ pc[r] = "idle"
    /\ \/ WorkspacesOf(u) = {w}
       \/ /\ WorkspacesOf(u) = {}
          /\ owner[w] = None /\ \A q \in Requests : ws[q] # w
    /\ status[i] = "absent" /\ \A q \in Requests : itv[q] # i
    /\ pc'   = [pc   EXCEPT ![r] = "creating"]
    /\ usr'  = [usr  EXCEPT ![r] = u]
    /\ ws'   = [ws   EXCEPT ![r] = w]
    /\ itv'  = [itv  EXCEPT ![r] = i]
    /\ list' = [list EXCEPT ![r] = l]
    /\ UNCHANGED <<store, at, pend, fresh, seen, gone, mine>>

-----------------------------------------------------------------------------
(* Criteria, for create and update alike (_persist_criteria).               *)

Searching(r) == /\ pc[r] \in {"creating", "replacing"}
                /\ pend[r] = None
                /\ at[r] < Len(list[r])

FindCategory(r, c) ==
    /\ Searching(r)
    /\ Matching(r) = {c}
    /\ pend' = [pend EXCEPT ![r] = c]
    /\ UNCHANGED <<store, pc, usr, itv, ws, list, at, fresh, seen, gone, mine>>

CreateCategory(r, c) ==
    /\ Searching(r)
    /\ Matching(r) = {}
    /\ category[c] = None
    /\ category' = [category EXCEPT
                      ![c] = [ws |-> ws[r], name |-> list[r][at[r] + 1]]]
    /\ fresh' = [fresh EXCEPT ![r] = @ \cup {c}]
    /\ pend' = [pend EXCEPT ![r] = c]
    /\ UNCHANGED <<owner, status, home, scores, asked, cancels,
                   pc, usr, itv, ws, list, at, seen, gone, mine>>

\* The next score violates the unique constraint: r has inserted its like, or
\* a row it did not delete has been committed.
Duplicate(r) ==
    /\ pend[r] # None
    /\ WaitsFor(r) = {}
    /\ pend[r] \in mine[r] \cup (Scored(itv[r]) \ gone[r])

\* The flush of a score, before the next lookup or at the end.
InsertScore(r) ==
    /\ pend[r] # None
    /\ WaitsFor(r) = {}
    /\ ~ Duplicate(r)
    /\ mine' = [mine EXCEPT ![r] = @ \cup {pend[r]}]
    /\ at'   = [at   EXCEPT ![r] = @ + 1]
    /\ pend' = [pend EXCEPT ![r] = None]
    /\ UNCHANGED <<store, pc, usr, itv, ws, list, fresh, seen, gone>>

\* A name that two categories carry cannot be looked up.
Ambiguous(r) == Searching(r) /\ Cardinality(Matching(r)) > 1

\* PostgreSQL ends one of the transactions that wait in a circle.
Deadlocked(r) ==
    \E S \in SUBSET Requests : /\ r \in S
                               /\ \A q \in S : WaitsFor(q) \cap S # {}

Refuse(r) ==
    /\ \/ Ambiguous(r)
       \/ Duplicate(r)
       \/ Deadlocked(r)
    /\ Rollback(r)

CreateCommit(r) ==
    /\ pc[r] = "creating"
    /\ pend[r] = None /\ at[r] = Len(list[r])
    /\ owner'  = [owner  EXCEPT ![ws[r]] = usr[r]]
    /\ status' = [status EXCEPT ![itv[r]] = "draft"]
    /\ home'   = [home   EXCEPT ![itv[r]] = ws[r]]
    /\ scores' = scores \cup {<<itv[r], c>> : c \in mine[r]}
    /\ asked'  = [asked  EXCEPT ![itv[r]] = NamesIn(list[r])]
    /\ Done(r)
    /\ UNCHANGED <<category, cancels, seen>>

-----------------------------------------------------------------------------
(* Update: check the status, DELETE the scores, insert the new ones.        *)

\* Mutant: any interview may be updated.
UpdateRead_AnyStatus(r, i, l) ==
    /\ pc[r] = "idle"
    /\ status[i] # "absent"
    /\ pc'   = [pc   EXCEPT ![r] = "update_read"]
    /\ itv'  = [itv  EXCEPT ![r] = i]
    /\ ws'   = [ws   EXCEPT ![r] = home[i]]
    /\ list' = [list EXCEPT ![r] = l]
    /\ UNCHANGED <<store, usr, at, pend, fresh, seen, gone, mine>>

UpdateRead(r, i, l) ==
    /\ pc[r] = "idle"
    /\ status[i] = "draft"
    /\ pc'   = [pc   EXCEPT ![r] = "update_read"]
    /\ itv'  = [itv  EXCEPT ![r] = i]
    /\ ws'   = [ws   EXCEPT ![r] = home[i]]
    /\ list' = [list EXCEPT ![r] = l]
    /\ UNCHANGED <<store, usr, at, pend, fresh, seen, gone, mine>>

\* Mutant: only the criteria that are given again are deleted.
UpdateScan_GivenAgain(r) ==
    /\ pc[r] = "update_read"
    /\ pc'   = [pc   EXCEPT ![r] = "deleting"]
    /\ seen' = [seen EXCEPT ![r] =
                  {c \in Scored(itv[r]) : category[c].name \in NamesIn(list[r])}]
    /\ UNCHANGED <<store, usr, itv, ws, list, at, pend, fresh, gone, mine>>

\* The DELETE takes its snapshot.
UpdateScan(r) ==
    /\ pc[r] = "update_read"
    /\ pc'   = [pc   EXCEPT ![r] = "deleting"]
    /\ seen' = [seen EXCEPT ![r] = Scored(itv[r])]
    /\ UNCHANGED <<store, usr, itv, ws, list, at, pend, fresh, gone, mine>>

\* It waits for a row that another transaction has deleted; when that one
\* commits the row is passed over (UpdateCommit).
UpdateDelete(r, c) ==
    /\ pc[r] = "deleting"
    /\ c \in Remaining(r)
    /\ \A q \in Rivals(r) : c \notin gone[q]
    /\ gone' = [gone EXCEPT ![r] = @ \cup {c}]
    /\ UNCHANGED <<store, pc, usr, itv, ws, list, at, pend, fresh, seen, mine>>

UpdateDeleted(r) ==
    /\ pc[r] = "deleting"
    /\ Remaining(r) = {}
    /\ pc' = [pc EXCEPT ![r] = "replacing"]
    /\ UNCHANGED <<store, usr, itv, ws, list, at, pend, fresh, seen, gone, mine>>

\* Mutant: the DELETE is flushed after the new scores.
UpdateCommit_DeletesLast(r) ==
    /\ pc[r] = "replacing"
    /\ pend[r] = None /\ at[r] = Len(list[r])
    /\ scores' = (scores \cup {<<itv[r], c>> : c \in mine[r]})
                    \ {<<itv[r], c>> : c \in gone[r]}
    /\ asked'  = [asked  EXCEPT ![itv[r]] = NamesIn(list[r])]
    /\ Done(r)
    /\ seen'   = [q \in Requests |->
                    IF q = r THEN {}
                    ELSE IF itv[q] = itv[r] THEN seen[q] \ gone[r] ELSE seen[q]]
    /\ UNCHANGED <<owner, category, status, home, cancels>>

\* The rows it deleted are passed over by the DELETEs that had seen them.
UpdateCommit(r) ==
    /\ pc[r] = "replacing"
    /\ pend[r] = None /\ at[r] = Len(list[r])
    /\ scores' = (scores \ {<<itv[r], c>> : c \in gone[r]})
                    \cup {<<itv[r], c>> : c \in mine[r]}
    /\ asked'  = [asked  EXCEPT ![itv[r]] = NamesIn(list[r])]
    /\ Done(r)
    /\ seen'   = [q \in Requests |->
                    IF q = r THEN {}
                    ELSE IF itv[q] = itv[r] THEN seen[q] \ gone[r] ELSE seen[q]]
    /\ UNCHANGED <<owner, category, status, home, cancels>>

-----------------------------------------------------------------------------
(* Cancel: check the status, write it, commit.                              *)

CancelRead(r, i) ==
    /\ pc[r] = "idle"
    /\ status[i] = "draft"
    /\ pc'  = [pc  EXCEPT ![r] = "cancel_read"]
    /\ itv' = [itv EXCEPT ![r] = i]
    /\ UNCHANGED <<store, usr, ws, list, at, pend, fresh, seen, gone, mine>>

\* The UPDATE waits for the row and does not look at the status again.
CancelFlush(r) ==
    /\ pc[r] = "cancel_read"
    /\ \A q \in Rivals(r) : pc[q] # "cancel_flushed"
    /\ pc' = [pc EXCEPT ![r] = "cancel_flushed"]
    /\ UNCHANGED <<store, usr, itv, ws, list, at, pend, fresh, seen, gone, mine>>

CancelCommit(r) ==
    /\ pc[r] = "cancel_flushed"
    /\ status'  = [status  EXCEPT ![itv[r]] = "cancelled"]
    /\ cancels' = [cancels EXCEPT ![itv[r]] = @ + 1]
    /\ Done(r)
    /\ UNCHANGED <<owner, category, home, scores, asked, seen>>

-----------------------------------------------------------------------------
\* A database error, a cancelled request or a crash before the COMMIT.
Fail(r) == pc[r] # "idle" /\ Rollback(r)

Receive(r) ==
    \/ \E u \in Users, w \in Workspaces, i \in Interviews, l \in Lists :
          CreateRead(r, u, w, i, l)
    \/ \E i \in Interviews, l \in Lists : UpdateRead(r, i, l)
    \/ \E i \in Interviews : CancelRead(r, i)

\* The steps a request takes by itself once it has been received.
Proceed(r) ==
    \/ \E c \in Categories : FindCategory(r, c)
    \/ \E c \in Categories : CreateCategory(r, c)
    \/ InsertScore(r)
    \/ Refuse(r)
    \/ CreateCommit(r)
    \/ UpdateScan(r)
    \/ \E c \in Categories : UpdateDelete(r, c)
    \/ UpdateDeleted(r)
    \/ UpdateCommit(r)
    \/ CancelFlush(r)
    \/ CancelCommit(r)

Next == \E r \in Requests : Receive(r) \/ Proceed(r) \/ Fail(r)

Spec == Init /\ [][Next]_vars

-----------------------------------------------------------------------------
(* Properties. *)

TypeOK ==
    /\ owner \in [Workspaces -> Users \cup {None}]
    /\ category \in [Categories -> [ws : Workspaces, name : Names] \cup {None}]
    /\ status \in [Interviews -> {"absent", "draft", "cancelled"}]
    /\ home \in [Interviews -> Workspaces \cup {None}]
    /\ scores \subseteq Interviews \X Categories
    /\ asked \in [Interviews -> SUBSET Names]
    /\ cancels \in [Interviews -> Nat]
    /\ pc \in [Requests -> {"idle", "creating", "update_read", "deleting",
                            "replacing", "cancel_read", "cancel_flushed"}]
    /\ usr \in [Requests -> Users \cup {None}]
    /\ itv \in [Requests -> Interviews \cup {None}]
    /\ ws \in [Requests -> Workspaces \cup {None}]
    /\ list \in [Requests -> Lists \cup {<< >>}]
    /\ at \in [Requests -> Nat]
    /\ pend \in [Requests -> Categories \cup {None}]
    /\ fresh \in [Requests -> SUBSET Categories]
    /\ seen \in [Requests -> SUBSET Categories]
    /\ gone \in [Requests -> SUBSET Categories]
    /\ mine \in [Requests -> SUBSET Categories]

\* The criteria of an interview are categories of its own workspace, however
\* creates and updates of several users overlap (_find_or_create_category).
ScoresInWorkspace ==
    \A i \in Interviews : \A c \in Scored(i) :
        category[c] # None /\ category[c].ws = home[i]

\* The list stored last is there in full: nothing of it is lost to an update
\* that deleted or inserted at the same time (update_interview_criteria).
LastReplaceKept == \A i \in Interviews : asked[i] \subseteq CriteriaOf(i)

\* An update leaves the criteria it was given and no others
\* (routes/interviews.py: "Replaces all existing criteria").
ReplaceIsExact(i) == CriteriaOf(i) = asked[i]

\* A user has one workspace, the one every request resolves.
OneWorkspace(u) == \A v, w \in WorkspacesOf(u) : v = w

\* A workspace has one category of a name.
CategoryUnambiguous(w) ==
    \A c, d \in Categories \ UNION {fresh[r] : r \in Requests} :
        category[c] # None /\ category[c].ws = w /\ category[c] = category[d]
            => c = d

\* An interview that is no longer a draft is not cancelled again, and its
\* criteria do not change.
FrozenOnceCancelled(i) ==
    status[i] = "cancelled" => Scored(i)' = Scored(i) /\ cancels'[i] = cancels[i]

\* "Return the user's first workspace, creating a default one if none exists":
\* nobody ends up with two (_get_or_create_workspace).
OneWorkspaceEach == \A u \in Users : OneWorkspace(u)

\* Waiting in a circle is for updates: a create or a cancellation is never among
\* the requests PostgreSQL has to choose from when it breaks a deadlock, though
\* creates look up and insert the same categories (_find_or_create_category).
DeadlocksHitUpdates ==
    \A r \in Requests : Deadlocked(r) => pc[r] \in {"deleting", "replacing"}
=============================================================================
