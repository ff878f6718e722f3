------------------------- MODULE Interviews_proofs -------------------------
(* Theorems about Interviews, for any users, criteria and requests.         *)
EXTENDS InterviewHistory, TLAPS

-----------------------------------------------------------------------------
(* The inductive invariant.                                                 *)

Writing == {"creating", "replacing"}

\* A create has an interview id to itself; every other request acts on an
\* interview that exists, in the workspace it was made in.
Places ==
    \A r \in Requests :
        /\ pc[r] = "idle" <=> itv[r] = None
        /\ pc[r] = "creating" =>
              /\ status[itv[r]] = "absent"
              /\ ws[r] # None /\ usr[r] # None
              /\ \A q \in Requests \ {r} : itv[q] # itv[r]
        /\ pc[r] \notin {"idle", "creating"} => status[itv[r]] # "absent"
        /\ pc[r] \in {"update_read", "deleting", "replacing"} =>
              ws[r] # None /\ ws[r] = home[itv[r]]

\* An interview has no scores before it exists, and a workspace from then on.
Rows ==
    /\ \A i \in Interviews : IF status[i] = "absent" THEN Scored(i) = {}
                                                     ELSE home[i] # None
    /\ ScoresInWorkspace

\* What a transaction has inserted or is about to insert lies in its workspace.
Inserts ==
    \A r \in Requests :
        /\ pend[r] # None =>
              /\ pc[r] \in Writing
              /\ at[r] < Len(list[r])
              /\ category[pend[r]] # None
              /\ category[pend[r]] = [ws |-> ws[r], name |-> list[r][at[r] + 1]]
        /\ \A c \in mine[r] : /\ pc[r] \in Writing
                              /\ category[c] # None
                              /\ category[c].ws = ws[r]

\* A category that may still be rolled back is used by its transaction only.
FreshIsPrivate ==
    \A r \in Requests : \A c \in fresh[r] :
        /\ category[c] # None
        /\ \A i \in Interviews : c \notin Scored(i)
        /\ \A q \in Requests \ {r} :
              c \notin fresh[q] /\ c \notin mine[q] /\ pend[q] # c

\* Each criterion already dealt with has its score.
Progress ==
    \A r \in Requests :
        /\ pc[r] \notin Writing => at[r] = 0
        /\ at[r] <= Len(list[r])
        /\ \A k \in 1..at[r] : \E c \in mine[r] : category[c].name = list[r][k]

ScoreInv == Places /\ Rows /\ Inserts /\ FreshIsPrivate

KeptInv == Progress /\ LastReplaceKept

Inv == TypeOK /\ ScoreInv /\ KeptInv

-----------------------------------------------------------------------------
\* The criteria of a request are a sequence of names.
LEMMA ListType ==
    ASSUME TypeOK, NEW r \in Requests
    PROVE  /\ list[r] \in Seq(Names)
           /\ Len(list[r]) \in Nat
           /\ \A k \in 1..Len(list[r]) : list[r][k] \in Names
           /\ NamesIn(list[r]) = {list[r][k] : k \in 1..Len(list[r])}
           /\ NamesIn(list[r]) \subseteq Names
<1>1. list[r] \in Seq(Names)
  <2>1. list[r] \in Lists \cup {<< >>}
    BY DEF TypeOK
  <2>2. << >> \in Seq(Names)
    OBVIOUS
  <2> QED BY <2>1, <2>2, InterviewAssumption
<1>2. DOMAIN list[r] = 1..Len(list[r])
  BY <1>1
<1> QED BY <1>1, <1>2 DEF NamesIn

\* What a lookup looks for is a row, and no list is longer than a number.
LEMMA CategoryRow ==
    ASSUME Inv, NEW r \in Requests, Searching(r)
    PROVE  [ws |-> ws[r], name |-> list[r][at[r] + 1]]
               \in [ws : Workspaces, name : Names] \ {None}
<1>1. ws[r] \in Workspaces
  BY DEF Inv, TypeOK, ScoreInv, Places, Searching
<1>2. at[r] + 1 \in 1..Len(list[r])
  BY ListType DEF Inv, TypeOK, Searching
<1>3. list[r][at[r] + 1] \in Names
  BY <1>2, ListType DEF Inv
<1> QED BY <1>1, <1>3, InterviewAssumption

LEMMA EmptyList == Len(<< >>) = 0 /\ \A l \in Lists : Len(l) \in Nat
  BY InterviewAssumption

\* A request that is not writing has nothing inserted.
LEMMA NotWriting ==
    ASSUME Inv, NEW r \in Requests, pc[r] \notin Writing
    PROVE  pend[r] = None /\ mine[r] = {} /\ at[r] = 0
<1>1. pend[r] = None
  BY DEF Inv, ScoreInv, Inserts
<1>2. mine[r] = {}
  BY DEF Inv, ScoreInv, Inserts
<1> QED BY <1>1, <1>2 DEF Inv, KeptInv, Progress

\* A row that does not exist is not referred to.
LEMMA NoRowNoUse ==
    ASSUME Inv, NEW c \in Categories, category[c] = None
    PROVE  /\ \A i \in Interviews : c \notin Scored(i)
           /\ \A q \in Requests : c \notin fresh[q] \cup mine[q] /\ pend[q] # c
<1>1. \A i \in Interviews : c \notin Scored(i)
  BY DEF Inv, ScoreInv, Rows, ScoresInWorkspace
<1>2. \A q \in Requests : c \notin fresh[q]
  BY DEF Inv, ScoreInv, FreshIsPrivate
<1>3. \A q \in Requests : c \notin mine[q]
  BY DEF Inv, ScoreInv, Inserts
<1>4. \A q \in Requests : pend[q] # c
  BY InterviewAssumption DEF Inv, ScoreInv, Inserts
<1> QED BY <1>1, <1>2, <1>3, <1>4

\* Progress is kept when r is over and the others stay as they are.
LEMMA ProgressDone ==
    ASSUME Progress, NEW r \in Requests,
           at'[r] = 0, list'[r] = << >>,
           \A q \in Requests \ {r} :
              /\ pc'[q] = pc[q] /\ at'[q] = at[q]
              /\ list'[q] = list[q] /\ mine'[q] = mine[q]
              /\ \A c \in mine[q] : category'[c] = category[c]
    PROVE  Progress'
<1>1. ASSUME NEW q \in Requests
      PROVE  /\ pc'[q] \notin Writing => at'[q] = 0
             /\ at'[q] <= Len(list'[q])
             /\ \A k \in 1..at'[q] :
                   \E c \in mine'[q] : category'[c].name = list'[q][k]
  <2>1. CASE q = r
    BY <2>1, EmptyList
  <2>2. CASE q # r
    BY <2>2 DEF Progress
  <2> QED BY <2>1, <2>2
<1> QED BY <1>1 DEF Progress

\* Progress is kept where no score is inserted and lists change at the start only.
LEMMA ProgressQuiet ==
    ASSUME Progress, UNCHANGED <<category, at, mine>>,
           \A q \in Requests :
              /\ pc'[q] \notin Writing => at[q] = 0
              /\ \/ list'[q] = list[q]
                 \/ at[q] = 0 /\ list'[q] \in Lists
    PROVE  Progress'
<1>1. ASSUME NEW q \in Requests
      PROVE  /\ at'[q] <= Len(list'[q])
             /\ \A k \in 1..at'[q] :
                   \E c \in mine'[q] : category'[c].name = list'[q][k]
  <2>1. CASE list'[q] = list[q]
    BY <2>1 DEF Progress
  <2>2. CASE at[q] = 0 /\ list'[q] \in Lists
    BY <2>2, EmptyList
  <2> QED BY <2>1, <2>2
<1> QED BY <1>1 DEF Progress

\* Every step keeps the types.
LEMMA TypeStep == Inv /\ [Next]_vars => TypeOK'
<1> SUFFICES ASSUME Inv, [Next]_vars PROVE TypeOK'
  OBVIOUS
<1> USE InterviewAssumption DEF Inv, TypeOK, ScoreInv, Places, store
<1>1. ASSUME NEW r \in Requests, NEW u \in Users, NEW w \in Workspaces,
      NEW i \in Interviews, NEW l \in Lists, CreateRead(r, u, w, i, l)
      PROVE  TypeOK'
  BY <1>1 DEF CreateRead, WorkspacesOf
<1>2. ASSUME NEW r \in Requests, NEW c \in Categories, FindCategory(r, c)
      PROVE  TypeOK'
  BY <1>2 DEF FindCategory, Searching, Matching
<1>3. ASSUME NEW r \in Requests, NEW c \in Categories, CreateCategory(r, c)
      PROVE  TypeOK'
  <2>1. list[r][at[r] + 1] \in Names
    BY <1>3, ListType DEF CreateCategory, Searching
  <2>2. ws[r] \in Workspaces
    BY <1>3 DEF CreateCategory, Searching
  <2>3. category' \in [Categories -> [ws : Workspaces, name : Names] \cup {None}]
    BY <1>3, <2>1, <2>2 DEF CreateCategory
  <2> QED BY <1>3, <2>3 DEF CreateCategory
<1>4. ASSUME NEW r \in Requests, InsertScore(r)
      PROVE  TypeOK'
  BY <1>4 DEF InsertScore
<1>5. ASSUME NEW r \in Requests, CreateCommit(r)
      PROVE  TypeOK'
  <2>1. itv[r] \in Interviews
    BY <1>5 DEF CreateCommit
  <2>2. NamesIn(list[r]) \subseteq Names
    BY ListType
  <2>3. asked' \in [Interviews -> SUBSET Names]
    BY <1>5, <2>1, <2>2 DEF CreateCommit
  <2>4. scores' \subseteq Interviews \X Categories
    BY <1>5, <2>1 DEF CreateCommit
  <2> QED BY <1>5, <2>1, <2>3, <2>4 DEF CreateCommit, Done
<1>6. ASSUME NEW r \in Requests, NEW i \in Interviews, NEW l \in Lists,
      UpdateRead(r, i, l)
      PROVE  TypeOK'
  BY <1>6 DEF UpdateRead
<1>7. ASSUME NEW r \in Requests, UpdateScan(r)
      PROVE  TypeOK'
  BY <1>7 DEF UpdateScan, Scored
<1>8. ASSUME NEW r \in Requests, NEW c \in Categories, UpdateDelete(r, c)
      PROVE  TypeOK'
  BY <1>8 DEF UpdateDelete, Remaining
<1>9. ASSUME NEW r \in Requests, UpdateDeleted(r)
      PROVE  TypeOK'
  BY <1>9 DEF UpdateDeleted
<1>10. ASSUME NEW r \in Requests, UpdateCommit(r)
      PROVE  TypeOK'
  <2>1. itv[r] \in Interviews
    BY <1>10 DEF UpdateCommit
  <2>2. NamesIn(list[r]) \subseteq Names
    BY ListType
  <2>3. asked' \in [Interviews -> SUBSET Names]
    BY <1>10, <2>1, <2>2 DEF UpdateCommit
  <2>4. scores' \subseteq Interviews \X Categories
    BY <1>10, <2>1 DEF UpdateCommit
  <2> QED BY <1>10, <2>1, <2>3, <2>4 DEF UpdateCommit, Done
<1>11. ASSUME NEW r \in Requests, NEW i \in Interviews, CancelRead(r, i)
      PROVE  TypeOK'
  BY <1>11 DEF CancelRead
<1>12. ASSUME NEW r \in Requests, CancelFlush(r)
      PROVE  TypeOK'
  BY <1>12 DEF CancelFlush
<1>13. ASSUME NEW r \in Requests, CancelCommit(r)
      PROVE  TypeOK'
  <2>1. cancels[itv[r]] + 1 \in Nat
    BY <1>13 DEF CancelCommit
  <2>2. cancels' \in [Interviews -> Nat]
    BY <1>13, <2>1 DEF CancelCommit
  <2> QED BY <1>13, <2>2 DEF CancelCommit, Done
<1>14. ASSUME NEW r \in Requests, Rollback(r)
      PROVE  TypeOK'
  BY <1>14 DEF Rollback, Done
<1>15. CASE UNCHANGED vars
  BY <1>15 DEF vars, request
<1> QED BY <1>1, <1>2, <1>3, <1>4, <1>5, <1>6, <1>7, <1>8, <1>9, <1>10, <1>11,
      <1>12, <1>13, <1>14, <1>15
  DEF Next, Receive, Proceed, Refuse, Fail

\* Every step keeps requests at interviews of their own.
LEMMA PlacesStep == Inv /\ [Next]_vars => Places'
<1> SUFFICES ASSUME Inv, [Next]_vars PROVE Places'
  OBVIOUS
<1> USE InterviewAssumption DEF Inv, TypeOK, ScoreInv, Places, store
<1>1. ASSUME NEW r \in Requests, NEW u \in Users, NEW w \in Workspaces,
      NEW i \in Interviews, NEW l \in Lists, CreateRead(r, u, w, i, l)
      PROVE  Places'
  BY <1>1 DEF CreateRead, WorkspacesOf
<1>2. ASSUME NEW r \in Requests, NEW c \in Categories, FindCategory(r, c)
      PROVE  Places'
  BY <1>2 DEF FindCategory, Searching, Matching
<1>3. ASSUME NEW r \in Requests, NEW c \in Categories, CreateCategory(r, c)
      PROVE  Places'
  BY <1>3 DEF CreateCategory, Searching
<1>4. ASSUME NEW r \in Requests, InsertScore(r)
      PROVE  Places'
  BY <1>4 DEF InsertScore
<1>5. ASSUME NEW r \in Requests, CreateCommit(r)
      PROVE  Places'
  BY <1>5 DEF CreateCommit, Done
<1>6. ASSUME NEW r \in Requests, NEW i \in Interviews, NEW l \in Lists,
      UpdateRead(r, i, l)
      PROVE  Places'
  BY <1>6 DEF UpdateRead, Rows
<1>7. ASSUME NEW r \in Requests, UpdateScan(r)
      PROVE  Places'
  BY <1>7 DEF UpdateScan
<1>8. ASSUME NEW r \in Requests, NEW c \in Categories, UpdateDelete(r, c)
      PROVE  Places'
  BY <1>8 DEF UpdateDelete, Remaining
<1>9. ASSUME NEW r \in Requests, UpdateDeleted(r)
      PROVE  Places'
  BY <1>9 DEF UpdateDeleted
<1>10. ASSUME NEW r \in Requests, UpdateCommit(r)
      PROVE  Places'
  BY <1>10 DEF UpdateCommit, Done
<1>11. ASSUME NEW r \in Requests, NEW i \in Interviews, CancelRead(r, i)
      PROVE  Places'
  BY <1>11 DEF CancelRead
<1>12. ASSUME NEW r \in Requests, CancelFlush(r)
      PROVE  Places'
  BY <1>12 DEF CancelFlush
<1>13. ASSUME NEW r \in Requests, CancelCommit(r)
      PROVE  Places'
  BY <1>13 DEF CancelCommit, Done
<1>14. ASSUME NEW r \in Requests, Rollback(r)
      PROVE  Places'
  BY <1>14 DEF Rollback, Done
<1>15. CASE UNCHANGED vars
  BY <1>15 DEF vars, request
<1> QED BY <1>1, <1>2, <1>3, <1>4, <1>5, <1>6, <1>7, <1>8, <1>9, <1>10, <1>11,
      <1>12, <1>13, <1>14, <1>15
  DEF Next, Receive, Proceed, Refuse, Fail

\* Every step keeps inserted rows in the workspace of their transaction.
LEMMA ScoreStep == Inv /\ [Next]_vars => (Rows /\ Inserts /\ FreshIsPrivate)'
<1> SUFFICES ASSUME Inv, [Next]_vars PROVE (Rows /\ Inserts /\ FreshIsPrivate)'
  OBVIOUS
<1> USE InterviewAssumption DEF Inv, TypeOK, ScoreInv, Places, Rows,
      ScoresInWorkspace, Inserts, FreshIsPrivate, Writing, Scored, store
<1>1. ASSUME NEW r \in Requests, NEW u \in Users, NEW w \in Workspaces,
      NEW i \in Interviews, NEW l \in Lists, CreateRead(r, u, w, i, l)
      PROVE  (Rows /\ Inserts /\ FreshIsPrivate)'
  <2>1. pend[r] = None /\ mine[r] = {} /\ pc[r] \notin Writing
    BY <1>1, NotWriting DEF CreateRead
  <2>2. Rows'
    BY <1>1, <2>1 DEF CreateRead
  <2>3. Inserts'
    BY <1>1, <2>1 DEF CreateRead
  <2>4. FreshIsPrivate'
    BY <1>1, <2>1 DEF CreateRead
  <2> QED BY <2>2, <2>3, <2>4
<1>2. ASSUME NEW r \in Requests, NEW c \in Categories, FindCategory(r, c)
      PROVE  (Rows /\ Inserts /\ FreshIsPrivate)'
  BY <1>2, CategoryRow DEF FindCategory, Searching, Matching
<1>3. ASSUME NEW r \in Requests, NEW c \in Categories, CreateCategory(r, c)
      PROVE  (Rows /\ Inserts /\ FreshIsPrivate)'
  <2>1. /\ category[c] = None
        /\ [ws |-> ws[r], name |-> list[r][at[r] + 1]] # None
    BY <1>3, CategoryRow DEF CreateCategory
  <2>2. /\ \A i \in Interviews : c \notin Scored(i)
        /\ \A q \in Requests : c \notin fresh[q] \cup mine[q] /\ pend[q] # c
    BY <2>1, NoRowNoUse
  <2>3. Rows'
    BY <1>3, <2>1, <2>2 DEF CreateCategory, Searching
  <2>4. Inserts'
    BY <1>3, <2>1, <2>2 DEF CreateCategory, Searching
  <2>5. FreshIsPrivate'
    BY <1>3, <2>1, <2>2 DEF CreateCategory, Searching
  <2> QED BY <2>3, <2>4, <2>5
<1>4. ASSUME NEW r \in Requests, InsertScore(r)
      PROVE  (Rows /\ Inserts /\ FreshIsPrivate)'
  BY <1>4 DEF InsertScore
<1>5. ASSUME NEW r \in Requests, CreateCommit(r)
      PROVE  (Rows /\ Inserts /\ FreshIsPrivate)'
  <2>1. /\ itv[r] \in Interviews
        /\ \A i \in Interviews :
              Scored(i)' \subseteq IF i = itv[r] THEN Scored(i) \cup mine[r] ELSE Scored(i)
    BY <1>5 DEF CreateCommit
  <2>2. /\ ws[r] = home'[itv[r]]
        /\ \A c \in mine[r] : category[c] # None /\ category[c].ws = ws[r]
    <3>1. ws[r] = home'[itv[r]]
      BY <1>5, <2>1 DEF CreateCommit
    <3>2. \A c \in mine[r] : category[c] # None /\ category[c].ws = ws[r]
      OBVIOUS
    <3> QED BY <3>1, <3>2
  <2>3. \A i \in Interviews \ {itv[r]} : home'[i] = home[i] /\ status'[i] = status[i]
    BY <1>5 DEF CreateCommit
  <2>4. status'[itv[r]] # "absent" /\ home'[itv[r]] # None
    BY <1>5 DEF CreateCommit
  <2>5. Scored(itv[r]) # {} => home'[itv[r]] = home[itv[r]]
    <3>1. status[itv[r]] = "absent" => Scored(itv[r]) = {}
      BY <2>1
    <3>2. status[itv[r]] # "absent" => home'[itv[r]] = home[itv[r]]
      BY <1>5 DEF CreateCommit
    <3> QED BY <3>1, <3>2
  <2>6. UNCHANGED category
    BY <1>5 DEF CreateCommit
  <2>7. Rows'
    BY <1>5, <2>1, <2>2, <2>3, <2>4, <2>5, <2>6 DEF CreateCommit, Done
  <2>8. Inserts'
    BY <1>5, <2>1, <2>2, <2>3, <2>4, <2>5, <2>6 DEF CreateCommit, Done
  <2>9. FreshIsPrivate'
    BY <1>5, <2>1, <2>2, <2>3, <2>4, <2>5, <2>6 DEF CreateCommit, Done
  <2> QED BY <2>7, <2>8, <2>9
<1>6. ASSUME NEW r \in Requests, NEW i \in Interviews, NEW l \in Lists,
      UpdateRead(r, i, l)
      PROVE  (Rows /\ Inserts /\ FreshIsPrivate)'
  <2>1. pend[r] = None /\ mine[r] = {} /\ pc[r] \notin Writing
    BY <1>6, NotWriting DEF UpdateRead
  <2>2. Rows'
    BY <1>6, <2>1 DEF UpdateRead
  <2>3. Inserts'
    BY <1>6, <2>1 DEF UpdateRead
  <2>4. FreshIsPrivate'
    BY <1>6, <2>1 DEF UpdateRead
  <2> QED BY <2>2, <2>3, <2>4
<1>7. ASSUME NEW r \in Requests, UpdateScan(r)
      PROVE  (Rows /\ Inserts /\ FreshIsPrivate)'
  BY <1>7 DEF UpdateScan
<1>8. ASSUME NEW r \in Requests, NEW c \in Categories, UpdateDelete(r, c)
      PROVE  (Rows /\ Inserts /\ FreshIsPrivate)'
  BY <1>8 DEF UpdateDelete, Remaining
<1>9. ASSUME NEW r \in Requests, UpdateDeleted(r)
      PROVE  (Rows /\ Inserts /\ FreshIsPrivate)'
  BY <1>9 DEF UpdateDeleted
<1>10. ASSUME NEW r \in Requests, UpdateCommit(r)
      PROVE  (Rows /\ Inserts /\ FreshIsPrivate)'
  <2>1. /\ itv[r] \in Interviews
        /\ \A i \in Interviews :
              Scored(i)' \subseteq IF i = itv[r] THEN Scored(i) \cup mine[r] ELSE Scored(i)
    BY <1>10 DEF UpdateCommit
  <2>2. /\ ws[r] = home'[itv[r]]
        /\ \A c \in mine[r] : category[c] # None /\ category[c].ws = ws[r]
    <3>1. ws[r] = home'[itv[r]]
      BY <1>10, <2>1 DEF UpdateCommit
    <3>2. \A c \in mine[r] : category[c] # None /\ category[c].ws = ws[r]
      OBVIOUS
    <3> QED BY <3>1, <3>2
  <2>3. \A i \in Interviews \ {itv[r]} : home'[i] = home[i] /\ status'[i] = status[i]
    BY <1>10 DEF UpdateCommit
  <2>4. status'[itv[r]] # "absent" /\ home'[itv[r]] # None
    BY <1>10 DEF UpdateCommit
  <2>5. Scored(itv[r]) # {} => home'[itv[r]] = home[itv[r]]
    <3>1. status[itv[r]] = "absent" => Scored(itv[r]) = {}
      BY <2>1
    <3>2. status[itv[r]] # "absent" => home'[itv[r]] = home[itv[r]]
      BY <1>10 DEF UpdateCommit
    <3> QED BY <3>1, <3>2
  <2>6. UNCHANGED category
    BY <1>10 DEF UpdateCommit
  <2>7. Rows'
    BY <1>10, <2>1, <2>2, <2>3, <2>4, <2>5, <2>6 DEF UpdateCommit, Done
  <2>8. Inserts'
    BY <1>10, <2>1, <2>2, <2>3, <2>4, <2>5, <2>6 DEF UpdateCommit, Done
  <2>9. FreshIsPrivate'
    BY <1>10, <2>1, <2>2, <2>3, <2>4, <2>5, <2>6 DEF UpdateCommit, Done
  <2> QED BY <2>7, <2>8, <2>9
<1>11. ASSUME NEW r \in Requests, NEW i \in Interviews, CancelRead(r, i)
      PROVE  (Rows /\ Inserts /\ FreshIsPrivate)'
  BY <1>11 DEF CancelRead
<1>12. ASSUME NEW r \in Requests, CancelFlush(r)
      PROVE  (Rows /\ Inserts /\ FreshIsPrivate)'
  BY <1>12 DEF CancelFlush
<1>13. ASSUME NEW r \in Requests, CancelCommit(r)
      PROVE  (Rows /\ Inserts /\ FreshIsPrivate)'
  BY <1>13 DEF CancelCommit, Done
<1>14. ASSUME NEW r \in Requests, Rollback(r)
      PROVE  (Rows /\ Inserts /\ FreshIsPrivate)'
  BY <1>14 DEF Rollback, Done
<1>15. CASE UNCHANGED vars
  BY <1>15 DEF vars, request
<1> QED BY <1>1, <1>2, <1>3, <1>4, <1>5, <1>6, <1>7, <1>8, <1>9, <1>10, <1>11,
      <1>12, <1>13, <1>14, <1>15
  DEF Next, Receive, Proceed, Refuse, Fail

\* Every step keeps a score for each criterion dealt with.
LEMMA ProgressStep == Inv /\ [Next]_vars => Progress'
<1> SUFFICES ASSUME Inv, [Next]_vars PROVE Progress'
  OBVIOUS
<1> USE InterviewAssumption DEF Inv, TypeOK, KeptInv, Writing, store
<1>1. ASSUME NEW r \in Requests, NEW u \in Users, NEW w \in Workspaces,
      NEW i \in Interviews, NEW l \in Lists, CreateRead(r, u, w, i, l)
      PROVE  Progress'
  BY <1>1, NotWriting, ProgressQuiet DEF CreateRead
<1>2. ASSUME NEW r \in Requests, NEW c \in Categories, FindCategory(r, c)
      PROVE  Progress'
  BY <1>2, NotWriting, ProgressQuiet DEF FindCategory, Searching
<1>3. ASSUME NEW r \in Requests, NEW c \in Categories, CreateCategory(r, c)
      PROVE  Progress'
  <2>1. /\ category[c] = None
        /\ \A q \in Requests : c \notin mine[q]
    BY <1>3, NoRowNoUse DEF CreateCategory
  <2>2. \A q \in Requests : \A d \in mine[q] : category'[d] = category[d]
    BY <1>3, <2>1 DEF CreateCategory
  <2> QED BY <1>3, <2>2 DEF CreateCategory, Progress
<1>4. ASSUME NEW r \in Requests, InsertScore(r)
      PROVE  Progress'
  <2>1. /\ pend[r] # None /\ pc[r] \in Writing /\ at[r] < Len(list[r])
        /\ category[pend[r]].name = list[r][at[r] + 1]
    <3>1. pend[r] # None
      BY <1>4 DEF InsertScore
    <3>2. /\ pc[r] \in Writing /\ at[r] < Len(list[r])
          /\ category[pend[r]] = [ws |-> ws[r], name |-> list[r][at[r] + 1]]
      BY <3>1 DEF ScoreInv, Inserts
    <3> QED BY <3>1, <3>2
  <2>2. Len(list[r]) \in Nat
    BY ListType
  <2>3. \A k \in 1..(at[r] + 1) : \E c \in mine'[r] : category[c].name = list[r][k]
    <3>1. pend[r] \in mine'[r] /\ mine[r] \subseteq mine'[r]
      BY <1>4 DEF InsertScore
    <3>2. \A k \in 1..(at[r] + 1) : k \in 1..at[r] \/ k = at[r] + 1
      OBVIOUS
    <3>3. \A k \in 1..at[r] : \E c \in mine[r] : category[c].name = list[r][k]
      BY DEF Progress
    <3> HIDE DEF Inv
    <3> QED BY <2>1, <3>1, <3>2, <3>3
  <2> QED BY <1>4, <2>1, <2>2, <2>3 DEF InsertScore, Progress
<1>5. ASSUME NEW r \in Requests, CreateCommit(r)
      PROVE  Progress'
  <2>1. /\ pc' = [pc EXCEPT ![r] = "idle"]
        /\ at' = [at EXCEPT ![r] = 0]
        /\ list' = [list EXCEPT ![r] = << >>]
        /\ mine' = [mine EXCEPT ![r] = {}]
        /\ UNCHANGED category
    BY <1>5 DEF CreateCommit, Done
  <2> QED BY <2>1, ProgressDone
<1>6. ASSUME NEW r \in Requests, NEW i \in Interviews, NEW l \in Lists,
      UpdateRead(r, i, l)
      PROVE  Progress'
  BY <1>6, NotWriting, ProgressQuiet DEF UpdateRead
<1>7. ASSUME NEW r \in Requests, UpdateScan(r)
      PROVE  Progress'
  BY <1>7, NotWriting, ProgressQuiet DEF UpdateScan
<1>8. ASSUME NEW r \in Requests, NEW c \in Categories, UpdateDelete(r, c)
      PROVE  Progress'
  BY <1>8, NotWriting, ProgressQuiet DEF UpdateDelete
<1>9. ASSUME NEW r \in Requests, UpdateDeleted(r)
      PROVE  Progress'
  BY <1>9, NotWriting, ProgressQuiet DEF UpdateDeleted
<1>10. ASSUME NEW r \in Requests, UpdateCommit(r)
      PROVE  Progress'
  <2>1. /\ pc' = [pc EXCEPT ![r] = "idle"]
        /\ at' = [at EXCEPT ![r] = 0]
        /\ list' = [list EXCEPT ![r] = << >>]
        /\ mine' = [mine EXCEPT ![r] = {}]
        /\ UNCHANGED category
    BY <1>10 DEF UpdateCommit, Done
  <2> QED BY <2>1, ProgressDone
<1>11. ASSUME NEW r \in Requests, NEW i \in Interviews, CancelRead(r, i)
      PROVE  Progress'
  BY <1>11, NotWriting, ProgressQuiet DEF CancelRead
<1>12. ASSUME NEW r \in Requests, CancelFlush(r)
      PROVE  Progress'
  BY <1>12, NotWriting, ProgressQuiet DEF CancelFlush
<1>13. ASSUME NEW r \in Requests, CancelCommit(r)
      PROVE  Progress'
  <2>1. /\ pc' = [pc EXCEPT ![r] = "idle"]
        /\ at' = [at EXCEPT ![r] = 0]
        /\ list' = [list EXCEPT ![r] = << >>]
        /\ mine' = [mine EXCEPT ![r] = {}]
        /\ UNCHANGED category
    BY <1>13 DEF CancelCommit, Done
  <2> QED BY <2>1, ProgressDone
<1>14. ASSUME NEW r \in Requests, Rollback(r)
      PROVE  Progress'
  <2>1. \A q \in Requests \ {r} : \A c \in mine[q] : category'[c] = category[c]
    BY <1>14 DEF Rollback, ScoreInv, FreshIsPrivate
  <2>2. /\ pc' = [pc EXCEPT ![r] = "idle"]
        /\ at' = [at EXCEPT ![r] = 0]
        /\ list' = [list EXCEPT ![r] = << >>]
        /\ mine' = [mine EXCEPT ![r] = {}]
    BY <1>14 DEF Rollback, Done
  <2>3. \A q \in Requests \ {r} : /\ pc'[q] = pc[q] /\ at'[q] = at[q]
                                /\ list'[q] = list[q] /\ mine'[q] = mine[q]
    BY <2>2
  <2>4. at'[r] = 0 /\ list'[r] = << >>
    BY <2>2
  <2> HIDE DEF Inv, KeptInv
  <2>5. Progress
    BY DEF Inv, KeptInv
  <2> QED BY <2>1, <2>3, <2>4, <2>5, ProgressDone
<1>15. CASE UNCHANGED vars
  BY <1>15 DEF vars, request, Progress
<1> QED BY <1>1, <1>2, <1>3, <1>4, <1>5, <1>6, <1>7, <1>8, <1>9, <1>10, <1>11,
      <1>12, <1>13, <1>14, <1>15
  DEF Next, Receive, Proceed, Refuse, Fail

\* Nothing is lost where no score and no category in use changes.
LEMMA KeptQuiet ==
    ASSUME LastReplaceKept,
           UNCHANGED <<scores, asked>>,
           \A i \in Interviews : \A c \in Scored(i) : category'[c] = category[c]
    PROVE  LastReplaceKept'
  BY DEF LastReplaceKept, CriteriaOf, Scored


\* Every step keeps the scores of the list stored last.
LEMMA KeptStep == Inv /\ [Next]_vars => LastReplaceKept'
<1> SUFFICES ASSUME Inv, [Next]_vars PROVE LastReplaceKept'
  OBVIOUS
<1> USE InterviewAssumption DEF Inv, TypeOK, store
<1>1. ASSUME NEW r \in Requests, NEW u \in Users, NEW w \in Workspaces,
      NEW i \in Interviews, NEW l \in Lists, CreateRead(r, u, w, i, l)
      PROVE  LastReplaceKept'
  BY <1>1, KeptQuiet DEF CreateRead, KeptInv
<1>2. ASSUME NEW r \in Requests, NEW c \in Categories, FindCategory(r, c)
      PROVE  LastReplaceKept'
  BY <1>2, KeptQuiet DEF FindCategory, KeptInv
<1>3. ASSUME NEW r \in Requests, NEW c \in Categories, CreateCategory(r, c)
      PROVE  LastReplaceKept'
  <2>1. \A i \in Interviews : \A d \in Scored(i) : category[d] # None
    BY DEF ScoreInv, Rows, ScoresInWorkspace
  <2>2. \A i \in Interviews : \A d \in Scored(i) : category'[d] = category[d]
    BY <1>3, <2>1 DEF CreateCategory, Scored
  <2> QED BY <1>3, <2>2, KeptQuiet DEF CreateCategory, KeptInv
<1>4. ASSUME NEW r \in Requests, InsertScore(r)
      PROVE  LastReplaceKept'
  BY <1>4, KeptQuiet DEF InsertScore, KeptInv
<1>5. ASSUME NEW r \in Requests, CreateCommit(r)
      PROVE  LastReplaceKept'
  <2>1. /\ itv[r] \in Interviews
        /\ asked' = [asked EXCEPT ![itv[r]] = NamesIn(list[r])]
        /\ UNCHANGED category
    BY <1>5 DEF CreateCommit, ScoreInv, Places
  <2>2. at[r] = Len(list[r])
    BY <1>5 DEF CreateCommit
  <2>3. \A n \in NamesIn(list[r]) : \E c \in mine[r] : category[c].name = n
    <3>1. ASSUME NEW k \in 1..Len(list[r])
          PROVE  \E c \in mine[r] : category[c].name = list[r][k]
      BY <2>2, <3>1 DEF KeptInv, Progress
    <3>2. \A n \in NamesIn(list[r]) : \E k \in 1..Len(list[r]) : n = list[r][k]
      BY ListType
    <3>3. ASSUME NEW n \in NamesIn(list[r])
          PROVE  \E c \in mine[r] : category[c].name = n
      <4>1. PICK k \in 1..Len(list[r]) : n = list[r][k]
        BY <3>2
      <4>2. PICK c \in mine[r] : category[c].name = list[r][k]
        BY <3>1
      <4> QED BY <4>1, <4>2
    <3> QED BY <3>3
  <2>4. ASSUME NEW i \in Interviews, i = itv[r], NEW n \in asked'[i]
        PROVE  n \in CriteriaOf(i)'
    <3>1. PICK c \in mine[r] : category[c].name = n
      BY <2>1, <2>3, <2>4
    <3>2. c \in Categories /\ <<i, c>> \in scores'
      BY <1>5, <2>1, <2>4, <3>1 DEF CreateCommit
    <3> QED BY <2>1, <3>1, <3>2 DEF CriteriaOf, Scored
  <2>5. ASSUME NEW i \in Interviews, i # itv[r]
        PROVE  asked'[i] \subseteq CriteriaOf(i)'
    <3>1. asked'[i] = asked[i]
      BY <2>1, <2>5
    <3>2. Scored(i)' = Scored(i)
      BY <1>5, <2>5 DEF CreateCommit, Scored
    <3> QED BY <2>1, <3>1, <3>2 DEF KeptInv, LastReplaceKept, CriteriaOf
  <2> QED BY <2>4, <2>5 DEF LastReplaceKept
<1>6. ASSUME NEW r \in Requests, NEW i \in Interviews, NEW l \in Lists,
      UpdateRead(r, i, l)
      PROVE  LastReplaceKept'
  BY <1>6, KeptQuiet DEF UpdateRead, KeptInv
<1>7. ASSUME NEW r \in Requests, UpdateScan(r)
      PROVE  LastReplaceKept'
  BY <1>7, KeptQuiet DEF UpdateScan, KeptInv
<1>8. ASSUME NEW r \in Requests, NEW c \in Categories, UpdateDelete(r, c)
      PROVE  LastReplaceKept'
  BY <1>8, KeptQuiet DEF UpdateDelete, KeptInv
<1>9. ASSUME NEW r \in Requests, UpdateDeleted(r)
      PROVE  LastReplaceKept'
  BY <1>9, KeptQuiet DEF UpdateDeleted, KeptInv
<1>10. ASSUME NEW r \in Requests, UpdateCommit(r)
      PROVE  LastReplaceKept'
  <2>1. /\ itv[r] \in Interviews
        /\ asked' = [asked EXCEPT ![itv[r]] = NamesIn(list[r])]
        /\ UNCHANGED category
    BY <1>10 DEF UpdateCommit, ScoreInv, Places
  <2>2. at[r] = Len(list[r])
    BY <1>10 DEF UpdateCommit
  <2>3. \A n \in NamesIn(list[r]) : \E c \in mine[r] : category[c].name = n
    <3>1. ASSUME NEW k \in 1..Len(list[r])
          PROVE  \E c \in mine[r] : category[c].name = list[r][k]
      BY <2>2, <3>1 DEF KeptInv, Progress
    <3>2. \A n \in NamesIn(list[r]) : \E k \in 1..Len(list[r]) : n = list[r][k]
      BY ListType
    <3>3. ASSUME NEW n \in NamesIn(list[r])
          PROVE  \E c \in mine[r] : category[c].name = n
      <4>1. PICK k \in 1..Len(list[r]) : n = list[r][k]
        BY <3>2
      <4>2. PICK c \in mine[r] : category[c].name = list[r][k]
        BY <3>1
      <4> QED BY <4>1, <4>2
    <3> QED BY <3>3
  <2>4. ASSUME NEW i \in Interviews, i = itv[r], NEW n \in asked'[i]
        PROVE  n \in CriteriaOf(i)'
    <3>1. PICK c \in mine[r] : category[c].name = n
      BY <2>1, <2>3, <2>4
    <3>2. c \in Categories /\ <<i, c>> \in scores'
      BY <1>10, <2>1, <2>4, <3>1 DEF UpdateCommit
    <3> QED BY <2>1, <3>1, <3>2 DEF CriteriaOf, Scored
  <2>5. ASSUME NEW i \in Interviews, i # itv[r]
        PROVE  asked'[i] \subseteq CriteriaOf(i)'
    <3>1. asked'[i] = asked[i]
      BY <2>1, <2>5
    <3>2. Scored(i)' = Scored(i)
      BY <1>10, <2>5 DEF UpdateCommit, Scored
    <3> QED BY <2>1, <3>1, <3>2 DEF KeptInv, LastReplaceKept, CriteriaOf
  <2> QED BY <2>4, <2>5 DEF LastReplaceKept
<1>11. ASSUME NEW r \in Requests, NEW i \in Interviews, CancelRead(r, i)
      PROVE  LastReplaceKept'
  BY <1>11, KeptQuiet DEF CancelRead, KeptInv
<1>12. ASSUME NEW r \in Requests, CancelFlush(r)
      PROVE  LastReplaceKept'
  BY <1>12, KeptQuiet DEF CancelFlush, KeptInv
<1>13. ASSUME NEW r \in Requests, CancelCommit(r)
      PROVE  LastReplaceKept'
  BY <1>13, KeptQuiet DEF CancelCommit, KeptInv
<1>14. ASSUME NEW r \in Requests, Rollback(r)
      PROVE  LastReplaceKept'
  <2>1. \A i \in Interviews : \A c \in Scored(i) : c \notin fresh[r]
    BY DEF ScoreInv, FreshIsPrivate
  <2>2. \A i \in Interviews : \A c \in Scored(i) : category'[c] = category[c]
    BY <1>14, <2>1 DEF Rollback, Scored
  <2> QED BY <1>14, <2>2, KeptQuiet DEF Rollback, KeptInv
<1>15. CASE UNCHANGED vars
  BY <1>15, KeptQuiet DEF vars, request, KeptInv
<1> QED BY <1>1, <1>2, <1>3, <1>4, <1>5, <1>6, <1>7, <1>8, <1>9, <1>10, <1>11,
      <1>12, <1>13, <1>14, <1>15
  DEF Next, Receive, Proceed, Refuse, Fail

-----------------------------------------------------------------------------
LEMMA InitInv == Init => Inv
<1> SUFFICES ASSUME Init PROVE Inv
  OBVIOUS
<1> USE InterviewAssumption DEF Init, Scored
<1>1. TypeOK
  BY DEF TypeOK
<1>2. ScoreInv
  BY DEF ScoreInv, Places, Rows, ScoresInWorkspace, Inserts, FreshIsPrivate
<1>3. KeptInv
  BY DEF KeptInv, Progress, LastReplaceKept
<1> QED BY <1>1, <1>2, <1>3 DEF Inv

\* The invariant is inductive.
THEOREM InductiveInvariant == Spec => []Inv
<1>1. Inv /\ [Next]_vars => Inv'
  BY TypeStep, PlacesStep, ScoreStep, ProgressStep, KeptStep
     DEF Inv, ScoreInv, KeptInv
<1> QED BY InitInv, <1>1, PTL DEF Spec

\* Every variable keeps its type (services/interview.py).
THEOREM TypeCorrect == Spec => []TypeOK
<1>1. Inv => TypeOK
  BY DEF Inv
<1> QED BY InductiveInvariant, <1>1, PTL

\* The criteria of an interview are categories of its own workspace, whatever
\* requests of whatever users overlap (_find_or_create_category).
THEOREM CriteriaStayInWorkspace == Spec => []ScoresInWorkspace
<1>1. Inv => ScoresInWorkspace
  BY DEF Inv, ScoreInv, Rows
<1> QED BY InductiveInvariant, <1>1, PTL

\* However updates of one interview overlap, the list stored last is there in
\* full (update_interview_criteria).
THEOREM LastListIsKept == Spec => []LastReplaceKept
<1>1. Inv => LastReplaceKept
  BY DEF Inv, KeptInv
<1> QED BY InductiveInvariant, <1>1, PTL

\* The snapshot of a DELETE is kept while the update lasts and no longer.
ScanInv == \A r \in Requests : seen[r] # {} => pc[r] \in {"deleting", "replacing"}

LEMMA ScanStep == Inv /\ ScanInv /\ [Next]_vars => ScanInv'
<1> SUFFICES ASSUME Inv, ScanInv, [Next]_vars PROVE ScanInv'
  OBVIOUS
<1> USE DEF Inv, TypeOK, ScanInv
<1>1. ASSUME NEW r \in Requests, NEW u \in Users, NEW w \in Workspaces,
      NEW i \in Interviews, NEW l \in Lists, CreateRead(r, u, w, i, l)
      PROVE  ScanInv'
  BY <1>1 DEF CreateRead
<1>2. ASSUME NEW r \in Requests, NEW c \in Categories, FindCategory(r, c)
      PROVE  ScanInv'
  BY <1>2 DEF FindCategory, Searching
<1>3. ASSUME NEW r \in Requests, NEW c \in Categories, CreateCategory(r, c)
      PROVE  ScanInv'
  BY <1>3 DEF CreateCategory, Searching
<1>4. ASSUME NEW r \in Requests, InsertScore(r)
      PROVE  ScanInv'
  BY <1>4 DEF InsertScore
<1>5. ASSUME NEW r \in Requests, CreateCommit(r)
      PROVE  ScanInv'
  BY <1>5 DEF CreateCommit, Done
<1>6. ASSUME NEW r \in Requests, NEW i \in Interviews, NEW l \in Lists, UpdateRead(r, i, l)
      PROVE  ScanInv'
  BY <1>6 DEF UpdateRead
<1>7. ASSUME NEW r \in Requests, UpdateScan(r)
      PROVE  ScanInv'
  BY <1>7 DEF UpdateScan
<1>8. ASSUME NEW r \in Requests, NEW c \in Categories, UpdateDelete(r, c)
      PROVE  ScanInv'
  BY <1>8 DEF UpdateDelete
<1>9. ASSUME NEW r \in Requests, UpdateDeleted(r)
      PROVE  ScanInv'
  BY <1>9 DEF UpdateDeleted
<1>10. ASSUME NEW r \in Requests, UpdateCommit(r)
      PROVE  ScanInv'
  BY <1>10 DEF UpdateCommit, Done
<1>11. ASSUME NEW r \in Requests, NEW i \in Interviews, CancelRead(r, i)
      PROVE  ScanInv'
  BY <1>11 DEF CancelRead
<1>12. ASSUME NEW r \in Requests, CancelFlush(r)
      PROVE  ScanInv'
  BY <1>12 DEF CancelFlush
<1>13. ASSUME NEW r \in Requests, CancelCommit(r)
      PROVE  ScanInv'
  BY <1>13 DEF CancelCommit, Done
<1>14. ASSUME NEW r \in Requests, Rollback(r)
      PROVE  ScanInv'
  BY <1>14 DEF Rollback, Done
<1>15. CASE UNCHANGED vars
  BY <1>15 DEF vars, request
<1> QED BY <1>1, <1>2, <1>3, <1>4, <1>5, <1>6, <1>7, <1>8, <1>9, <1>10, <1>11,
      <1>12, <1>13, <1>14, <1>15
  DEF Next, Receive, Proceed, Refuse, Fail

\* However many requests overlap, only updates ever wait in a circle.
THEOREM OnlyUpdatesDeadlock == Spec => []DeadlocksHitUpdates
<1>1. Init => ScanInv
  BY DEF Init, ScanInv
<1>2. Inv /\ ScanInv => DeadlocksHitUpdates
  <2> SUFFICES ASSUME Inv, ScanInv, NEW r \in Requests, Deadlocked(r),
                      pc[r] \notin {"deleting", "replacing"}
               PROVE  FALSE
    BY DEF DeadlocksHitUpdates
  <2>1. WaitsFor(r) # {}
    BY DEF Deadlocked
  <2>2. Remaining(r) = {}
    BY DEF ScanInv, Remaining
  <2>3. pend[r] # None /\ Rivals(r) # {}
    BY <2>1, <2>2 DEF WaitsFor
  <2>4. pc[r] = "creating"
    BY <2>3 DEF Inv, ScoreInv, Inserts, Writing
  <2> QED BY <2>3, <2>4 DEF Rivals, Inv, ScoreInv, Places
<1> QED BY InitInv, InductiveInvariant, ScanStep, <1>1, <1>2, PTL DEF Spec

-----------------------------------------------------------------------------
(* What the service promises users and interviews that have not raced.       *)

\* A workspace without a member has one request, the create that will give it
\* one; its categories are that request's.
Seats ==
    /\ \A r \in Requests : usr[r] # None <=> pc[r] = "creating"
    /\ \A r \in Requests : pc[r] = "creating" => owner[ws[r]] \in {None, usr[r]}
    /\ \A q, r \in Requests :
          q # r /\ pc[q] = "creating" /\ pc[r] = "creating" /\ ws[q] = ws[r]
              => owner[ws[r]] # None
    /\ \A i \in Interviews : status[i] # "absent" => owner[home[i]] # None

\* A category without a member to use it may still be rolled back.
Shelves ==
    /\ \A r \in Requests : \A c \in fresh[r] :
          pc[r] \in Writing /\ category[c].ws = ws[r]
    /\ \A c \in Categories :
          category[c] # None /\ owner[category[c].ws] = None =>
              \E r \in Requests : c \in fresh[r]

\* What a transaction has inserted is on its list.
Listed == \A r \in Requests : \A c \in mine[r] : category[c].name \in NamesIn(list[r])

PlainInv == Seats /\ Shelves /\ Listed

\* Whoever has two requests in flight has raced.
RacedKnown == \A x \in Users \cup Interviews : Overlaps(x) => x \in raced

\* The one workspace there is, is the one the user's request works in.
Resolved ==
    \A u \in Users \ raced :
        /\ OneWorkspace(u)
        /\ \A r \in Requests : usr[r] = u => \A w \in WorkspacesOf(u) : w = ws[r]

\* A workspace that is the user's or will be.
Belongs(w, u) == owner[w] = u \/ \E r \in Requests : usr[r] = u /\ ws[r] = w

NamedOnce(w) ==
    \A c, d \in Categories :
        category[c] # None /\ category[c].ws = w /\ category[c] = category[d] => c = d

Shelved == \A u \in Users \ raced : \A w \in Workspaces : Belongs(w, u) => NamedOnce(w)

\* The update of an interview has seen, and then deleted, all its scores.
SweptOf(i) ==
    /\ CriteriaOf(i) \subseteq asked[i]
    /\ \A r \in Requests : itv[r] = i =>
          /\ pc[r] = "deleting"  => Scored(i) \subseteq seen[r]
          /\ pc[r] = "replacing" => Scored(i) \subseteq gone[r]
          /\ status[i] # "cancelled"

Swept == \A i \in Interviews \ raced : SweptOf(i)

AloneInv == RacedKnown /\ Resolved /\ Shelved /\ Swept

\* Every step keeps workspaces without a member to the creates that made them.
LEMMA SeatsStep == Inv /\ Seats /\ [Next]_vars => Seats'
<1> SUFFICES ASSUME Inv, Seats, [Next]_vars PROVE Seats'
  OBVIOUS
<1> USE InterviewAssumption DEF Inv, TypeOK, ScoreInv, Places, store, Seats, WorkspacesOf
<1>1. ASSUME NEW r \in Requests, NEW u \in Users, NEW w \in Workspaces, NEW i \in Interviews,
      NEW l \in Lists, CreateRead(r, u, w, i, l)
      PROVE  Seats'
  BY <1>1 DEF CreateRead
<1>2. ASSUME NEW r \in Requests, NEW c \in Categories, FindCategory(r, c)
      PROVE  Seats'
  BY <1>2 DEF FindCategory, Searching
<1>3. ASSUME NEW r \in Requests, NEW c \in Categories, CreateCategory(r, c)
      PROVE  Seats'
  BY <1>3 DEF CreateCategory, Searching
<1>4. ASSUME NEW r \in Requests, InsertScore(r)
      PROVE  Seats'
  BY <1>4 DEF InsertScore
<1>5. ASSUME NEW r \in Requests, CreateCommit(r)
      PROVE  Seats'
  BY <1>5 DEF CreateCommit, Done
<1>6. ASSUME NEW r \in Requests, NEW i \in Interviews, NEW l \in Lists, UpdateRead(r, i, l)
      PROVE  Seats'
  BY <1>6 DEF UpdateRead
<1>7. ASSUME NEW r \in Requests, UpdateScan(r)
      PROVE  Seats'
  BY <1>7 DEF UpdateScan
<1>8. ASSUME NEW r \in Requests, NEW c \in Categories, UpdateDelete(r, c)
      PROVE  Seats'
  BY <1>8 DEF UpdateDelete
<1>9. ASSUME NEW r \in Requests, UpdateDeleted(r)
      PROVE  Seats'
  BY <1>9 DEF UpdateDeleted
<1>10. ASSUME NEW r \in Requests, UpdateCommit(r)
      PROVE  Seats'
  BY <1>10 DEF UpdateCommit, Done
<1>11. ASSUME NEW r \in Requests, NEW i \in Interviews, CancelRead(r, i)
      PROVE  Seats'
  BY <1>11 DEF CancelRead
<1>12. ASSUME NEW r \in Requests, CancelFlush(r)
      PROVE  Seats'
  BY <1>12 DEF CancelFlush
<1>13. ASSUME NEW r \in Requests, CancelCommit(r)
      PROVE  Seats'
  BY <1>13 DEF CancelCommit, Done
<1>14. ASSUME NEW r \in Requests, Rollback(r)
      PROVE  Seats'
  BY <1>14 DEF Rollback, Done
<1>15. CASE UNCHANGED vars
  BY <1>15 DEF vars, request
<1> QED BY <1>1, <1>2, <1>3, <1>4, <1>5, <1>6, <1>7, <1>8, <1>9, <1>10, <1>11, <1>12, <1>13, <1>14, <1>15
  DEF Next, Receive, Proceed, Refuse, Fail

\* Every step keeps new categories in the workspace of their transaction.
LEMMA ShelvesStep == Inv /\ Seats /\ Shelves /\ [Next]_vars => Shelves'
<1> SUFFICES ASSUME Inv, Seats, Shelves, [Next]_vars PROVE Shelves'
  OBVIOUS
<1> USE InterviewAssumption DEF Inv, TypeOK, ScoreInv, Places, store, Seats, Shelves, FreshIsPrivate, Inserts, Writing
<1>1. ASSUME NEW r \in Requests, NEW u \in Users, NEW w \in Workspaces, NEW i \in Interviews,
      NEW l \in Lists, CreateRead(r, u, w, i, l)
      PROVE  Shelves'
  BY <1>1 DEF CreateRead
<1>2. ASSUME NEW r \in Requests, NEW c \in Categories, FindCategory(r, c)
      PROVE  Shelves'
  BY <1>2 DEF FindCategory, Searching
<1>3. ASSUME NEW r \in Requests, NEW c \in Categories, CreateCategory(r, c)
      PROVE  Shelves'
  BY <1>3 DEF CreateCategory, Searching
<1>4. ASSUME NEW r \in Requests, InsertScore(r)
      PROVE  Shelves'
  BY <1>4 DEF InsertScore
<1>5. ASSUME NEW r \in Requests, CreateCommit(r)
      PROVE  Shelves'
  BY <1>5 DEF CreateCommit, Done
<1>6. ASSUME NEW r \in Requests, NEW i \in Interviews, NEW l \in Lists, UpdateRead(r, i, l)
      PROVE  Shelves'
  BY <1>6 DEF UpdateRead
<1>7. ASSUME NEW r \in Requests, UpdateScan(r)
      PROVE  Shelves'
  BY <1>7 DEF UpdateScan
<1>8. ASSUME NEW r \in Requests, NEW c \in Categories, UpdateDelete(r, c)
      PROVE  Shelves'
  BY <1>8 DEF UpdateDelete
<1>9. ASSUME NEW r \in Requests, UpdateDeleted(r)
      PROVE  Shelves'
  BY <1>9 DEF UpdateDeleted
<1>10. ASSUME NEW r \in Requests, UpdateCommit(r)
      PROVE  Shelves'
  BY <1>10 DEF UpdateCommit, Done
<1>11. ASSUME NEW r \in Requests, NEW i \in Interviews, CancelRead(r, i)
      PROVE  Shelves'
  BY <1>11 DEF CancelRead
<1>12. ASSUME NEW r \in Requests, CancelFlush(r)
      PROVE  Shelves'
  BY <1>12 DEF CancelFlush
<1>13. ASSUME NEW r \in Requests, CancelCommit(r)
      PROVE  Shelves'
  <2>1. fresh[r] = {}
    BY <1>13 DEF CancelCommit
  <2> QED BY <1>13, <2>1 DEF CancelCommit, Done
<1>14. ASSUME NEW r \in Requests, Rollback(r)
      PROVE  Shelves'
  BY <1>14 DEF Rollback, Done
<1>15. CASE UNCHANGED vars
  BY <1>15 DEF vars, request
<1> QED BY <1>1, <1>2, <1>3, <1>4, <1>5, <1>6, <1>7, <1>8, <1>9, <1>10, <1>11, <1>12, <1>13, <1>14, <1>15
  DEF Next, Receive, Proceed, Refuse, Fail

\* Every step keeps what is inserted to what is listed.
LEMMA ListedStep == Inv /\ Listed /\ [Next]_vars => Listed'
<1> SUFFICES ASSUME Inv, Listed, [Next]_vars PROVE Listed'
  OBVIOUS
<1> USE InterviewAssumption DEF Inv, TypeOK, ScoreInv, Places, store, Listed, Inserts, Writing
<1>1. ASSUME NEW r \in Requests, NEW u \in Users, NEW w \in Workspaces, NEW i \in Interviews,
      NEW l \in Lists, CreateRead(r, u, w, i, l)
      PROVE  Listed'
  <2>1. mine[r] = {}
    BY <1>1, NotWriting DEF CreateRead
  <2>2. \A q \in Requests : mine'[q] # {} => list'[q] = list[q]
    BY <1>1, <2>1 DEF CreateRead
  <2> QED BY <1>1, <2>2 DEF CreateRead, NamesIn
<1>2. ASSUME NEW r \in Requests, NEW c \in Categories, FindCategory(r, c)
      PROVE  Listed'
  BY <1>2 DEF FindCategory, Searching
<1>3. ASSUME NEW r \in Requests, NEW c \in Categories, CreateCategory(r, c)
      PROVE  Listed'
  <2>1. \A q \in Requests : c \notin mine[q]
    BY <1>3, NoRowNoUse DEF CreateCategory
  <2>2. \A q \in Requests : \A d \in mine[q] : category'[d] = category[d]
    BY <1>3, <2>1 DEF CreateCategory
  <2> QED BY <1>3, <2>2 DEF CreateCategory, NamesIn
<1>4. ASSUME NEW r \in Requests, InsertScore(r)
      PROVE  Listed'
  <2>1. pend[r] # None /\ at[r] < Len(list[r])
    BY <1>4 DEF InsertScore
  <2>2. category[pend[r]] = [ws |-> ws[r], name |-> list[r][at[r] + 1]]
    BY <2>1
  <2>3. category[pend[r]].name = list[r][at[r] + 1]
    BY <2>2
  <2>4. list[r][at[r] + 1] \in NamesIn(list[r])
    BY <2>1, ListType
  <2> QED BY <1>4, <2>3, <2>4 DEF InsertScore, NamesIn
<1>5. ASSUME NEW r \in Requests, CreateCommit(r)
      PROVE  Listed'
  BY <1>5 DEF CreateCommit, Done
<1>6. ASSUME NEW r \in Requests, NEW i \in Interviews, NEW l \in Lists,
             UpdateRead(r, i, l)
      PROVE  Listed'
  <2>1. mine[r] = {}
    BY <1>6, NotWriting DEF UpdateRead
  <2>2. \A q \in Requests : mine'[q] # {} => list'[q] = list[q]
    BY <1>6, <2>1 DEF UpdateRead
  <2>3. UNCHANGED <<mine, category>>
    BY <1>6 DEF UpdateRead
  <2> HIDE DEF Inv, TypeOK, ScoreInv, Inserts
  <2> QED BY <2>2, <2>3 DEF NamesIn
<1>7. ASSUME NEW r \in Requests, UpdateScan(r)
      PROVE  Listed'
  BY <1>7 DEF UpdateScan
<1>8. ASSUME NEW r \in Requests, NEW c \in Categories, UpdateDelete(r, c)
      PROVE  Listed'
  BY <1>8 DEF UpdateDelete
<1>9. ASSUME NEW r \in Requests, UpdateDeleted(r)
      PROVE  Listed'
  BY <1>9 DEF UpdateDeleted
<1>10. ASSUME NEW r \in Requests, UpdateCommit(r)
      PROVE  Listed'
  BY <1>10 DEF UpdateCommit, Done
<1>11. ASSUME NEW r \in Requests, NEW i \in Interviews, CancelRead(r, i)
      PROVE  Listed'
  BY <1>11 DEF CancelRead
<1>12. ASSUME NEW r \in Requests, CancelFlush(r)
      PROVE  Listed'
  BY <1>12 DEF CancelFlush
<1>13. ASSUME NEW r \in Requests, CancelCommit(r)
      PROVE  Listed'
  BY <1>13 DEF CancelCommit, Done
<1>14. ASSUME NEW r \in Requests, Rollback(r)
      PROVE  Listed'
  <2>1. \A q \in Requests \ {r} : \A d \in mine[q] : category'[d] = category[d]
    BY <1>14 DEF Rollback, FreshIsPrivate
  <2>2. /\ list' = [list EXCEPT ![r] = << >>]
        /\ mine' = [mine EXCEPT ![r] = {}]
    BY <1>14 DEF Rollback, Done
  <2> QED BY <2>1, <2>2 DEF NamesIn
<1>15. CASE UNCHANGED vars
  BY <1>15 DEF vars, request
<1> QED BY <1>1, <1>2, <1>3, <1>4, <1>5, <1>6, <1>7, <1>8, <1>9, <1>10, <1>11, <1>12, <1>13, <1>14, <1>15
  DEF Next, Receive, Proceed, Refuse, Fail

\* Every step keeps what holds for everybody.
LEMMA PlainStep == Inv /\ PlainInv /\ [Next]_vars => PlainInv'
  BY SeatsStep, ShelvesStep, ListedStep DEF PlainInv

-----------------------------------------------------------------------------
\* Two requests of one user, or for one interview, that have not raced are one.
LEMMA Alone ==
    ASSUME RacedKnown, NEW x \in Users \cup Interviews, x \notin raced,
           NEW q \in Requests, NEW r \in Requests,
           x \in {Actor(q), itv[q]}, x \in {Actor(r), itv[r]}
    PROVE  q = r
  BY DEF RacedKnown, Overlaps

\* Whoever writes in a user's workspace acts for that user.
LEMMA WriterActs ==
    ASSUME Inv, Seats, NEW r \in Requests, pc[r] \in Writing,
           NEW u \in Users, Belongs(ws[r], u)
    PROVE  Actor(r) = u
<1> USE InterviewAssumption DEF Inv, TypeOK, ScoreInv, Places, Seats, Belongs, Actor
<1>1. CASE pc[r] = "creating"
  BY <1>1
<1>2. CASE pc[r] = "replacing"
  <2>1. usr[r] = None /\ itv[r] # None /\ ws[r] = home[itv[r]]
    BY <1>2
  <2>2. owner[ws[r]] # None
    BY <1>2, <2>1
  <2>3. owner[ws[r]] = u
    BY <2>2
  <2> QED BY <2>1, <2>3
<1> QED BY <1>1, <1>2 DEF Writing

\* Every step keeps the workspace of a user who has not raced.
LEMMA ResolvedStep == Inv /\ Seats /\ RacedKnown /\ Resolved /\ [Next]_vars /\ raced \subseteq raced' => Resolved'
<1> SUFFICES ASSUME Inv, Seats, RacedKnown, Resolved, [Next]_vars /\ raced \subseteq raced' PROVE Resolved'
  OBVIOUS
<1> USE InterviewAssumption DEF Inv, TypeOK, ScoreInv, Places, store, Seats, Resolved, WorkspacesOf, OneWorkspace
<1>1. ASSUME NEW r \in Requests, NEW u \in Users, NEW w \in Workspaces, NEW i \in Interviews,
      NEW l \in Lists, CreateRead(r, u, w, i, l)
      PROVE  Resolved'
  BY <1>1 DEF CreateRead
<1>2. ASSUME NEW r \in Requests, NEW c \in Categories, FindCategory(r, c)
      PROVE  Resolved'
  BY <1>2 DEF FindCategory, Searching
<1>3. ASSUME NEW r \in Requests, NEW c \in Categories, CreateCategory(r, c)
      PROVE  Resolved'
  BY <1>3 DEF CreateCategory, Searching
<1>4. ASSUME NEW r \in Requests, InsertScore(r)
      PROVE  Resolved'
  BY <1>4 DEF InsertScore
<1>5. ASSUME NEW r \in Requests, CreateCommit(r)
      PROVE  Resolved'
  <2>1. /\ usr[r] \in Users /\ ws[r] \in Workspaces
        /\ Actor(r) = usr[r]
        /\ owner' = [owner EXCEPT ![ws[r]] = usr[r]]
    BY <1>5 DEF CreateCommit, Actor
  <2>2. ASSUME NEW u \in Users, u \notin raced'
        PROVE  /\ OneWorkspace(u)'
               /\ \A q \in Requests : usr'[q] = u => \A w \in WorkspacesOf(u)' : w = ws'[q]
    <3>1. u \notin raced
      BY <2>2
    <3>2. CASE u = usr[r]
      <4>1. \A w \in Workspaces : owner'[w] = u => w = ws[r]
        BY <2>1, <3>1, <3>2
      <4>2. \A q \in Requests \ {r} : usr[q] # u
        <5> SUFFICES ASSUME NEW q \in Requests \ {r}, usr[q] = u PROVE FALSE
          OBVIOUS
        <5>1. Actor(q) = u
          BY DEF Actor
        <5> QED BY <2>1, <3>1, <3>2, <5>1, Alone
      <4>3. \A q \in Requests : usr'[q] # u
        BY <1>5, <4>2 DEF CreateCommit, Done
      <4> QED BY <4>1, <4>3
    <3>3. CASE u # usr[r]
      <4>1. WorkspacesOf(u)' \subseteq WorkspacesOf(u)
        BY <2>1, <3>3
      <4>2. \A q \in Requests : usr'[q] = u => usr[q] = u /\ ws'[q] = ws[q]
        BY <1>5 DEF CreateCommit, Done
      <4> QED BY <3>1, <4>1, <4>2
    <3> QED BY <3>2, <3>3
  <2> QED BY <2>2
<1>6. ASSUME NEW r \in Requests, NEW i \in Interviews, NEW l \in Lists, UpdateRead(r, i, l)
      PROVE  Resolved'
  <2>1. usr[r] = None /\ usr' = usr /\ owner' = owner
    BY <1>6 DEF UpdateRead
  <2>2. \A q \in Requests : usr[q] # None => ws'[q] = ws[q]
    BY <1>6, <2>1 DEF UpdateRead
  <2> QED BY <2>1, <2>2
<1>7. ASSUME NEW r \in Requests, UpdateScan(r)
      PROVE  Resolved'
  BY <1>7 DEF UpdateScan
<1>8. ASSUME NEW r \in Requests, NEW c \in Categories, UpdateDelete(r, c)
      PROVE  Resolved'
  BY <1>8 DEF UpdateDelete
<1>9. ASSUME NEW r \in Requests, UpdateDeleted(r)
      PROVE  Resolved'
  BY <1>9 DEF UpdateDeleted
<1>10. ASSUME NEW r \in Requests, UpdateCommit(r)
      PROVE  Resolved'
  BY <1>10 DEF UpdateCommit, Done
<1>11. ASSUME NEW r \in Requests, NEW i \in Interviews, CancelRead(r, i)
      PROVE  Resolved'
  BY <1>11 DEF CancelRead
<1>12. ASSUME NEW r \in Requests, CancelFlush(r)
      PROVE  Resolved'
  BY <1>12 DEF CancelFlush
<1>13. ASSUME NEW r \in Requests, CancelCommit(r)
      PROVE  Resolved'
  BY <1>13 DEF CancelCommit, Done
<1>14. ASSUME NEW r \in Requests, Rollback(r)
      PROVE  Resolved'
  BY <1>14 DEF Rollback, Done
<1>15. CASE UNCHANGED vars
  BY <1>15 DEF vars, request
<1> QED BY <1>1, <1>2, <1>3, <1>4, <1>5, <1>6, <1>7, <1>8, <1>9, <1>10, <1>11, <1>12, <1>13, <1>14, <1>15
  DEF Next, Receive, Proceed, Refuse, Fail

\* Every step keeps the names of a user's workspace apart, if they have not raced.
LEMMA ShelvedStep == Inv /\ Seats /\ Shelves /\ RacedKnown /\ Shelved /\ [Next]_vars /\ raced \subseteq raced' => Shelved'
<1> SUFFICES ASSUME Inv, Seats, Shelves, RacedKnown, Shelved, [Next]_vars /\ raced \subseteq raced' PROVE Shelved'
  OBVIOUS
<1> USE InterviewAssumption DEF Inv, TypeOK, ScoreInv, Places, store, Seats, Shelved
<1>1. ASSUME NEW r \in Requests, NEW u \in Users, NEW w \in Workspaces, NEW i \in Interviews,
      NEW l \in Lists, CreateRead(r, u, w, i, l)
      PROVE  Shelved'
  <2>1. /\ UNCHANGED <<category, owner>>
        /\ ws' = [ws EXCEPT ![r] = w] /\ usr' = [usr EXCEPT ![r] = u]
        /\ owner[w] = u \/ (owner[w] = None /\ \A q \in Requests : ws[q] # w)
    <3>1. WorkspacesOf(u) = {w} => owner[w] = u
      BY DEF WorkspacesOf
    <3> QED BY <1>1, <3>1 DEF CreateRead
  <2>2. NamedOnce(w) \/ owner[w] = u
    BY <2>1 DEF NamedOnce, Shelves
  <2>3. ASSUME NEW v \in Users, v \notin raced', NEW x \in Workspaces, Belongs(x, v)'
        PROVE  NamedOnce(x)
    <3>1. CASE Belongs(x, v)
      BY <2>3, <3>1
    <3>2. CASE ~ Belongs(x, v)
      <4>1. x = w /\ v = u
        BY <2>1, <2>3, <3>2 DEF Belongs
      <4> QED BY <2>2, <3>2, <4>1 DEF Belongs
    <3> QED BY <3>1, <3>2
  <2> QED BY <2>1, <2>3 DEF NamedOnce
<1>2. ASSUME NEW r \in Requests, NEW c \in Categories, FindCategory(r, c)
      PROVE  Shelved'
  BY <1>2 DEF FindCategory, Searching, Belongs, NamedOnce
<1>3. ASSUME NEW r \in Requests, NEW c \in Categories, CreateCategory(r, c)
      PROVE  Shelved'
  <2> DEFINE row == [ws |-> ws[r], name |-> list[r][at[r] + 1]]
  <2>1. /\ category[c] = None /\ category' = [category EXCEPT ![c] = row]
        /\ UNCHANGED <<owner, usr, ws>>
        /\ pc[r] \in Writing /\ Matching(r) = {} /\ row.ws = ws[r]
    BY <1>3 DEF CreateCategory, Searching, Writing
  <2>2. ASSUME NEW u \in Users, u \notin raced, Belongs(ws[r], u), NEW d \in Categories
        PROVE  category[d] # row
    <3> SUFFICES ASSUME category[d] = row PROVE FALSE
      OBVIOUS
    <3>1. PICK q \in Requests \ {r} : d \in fresh[q]
      BY <2>1 DEF Matching
    <3>2. pc[q] \in Writing /\ ws[q] = ws[r]
      BY <2>1, <3>1 DEF Shelves
    <3> HIDE DEF Inv, Seats, row
    <3>3. Actor(q) = u /\ Actor(r) = u
      BY <2>1, <2>2, <3>2, WriterActs
    <3> QED BY <2>2, <3>3, Alone
  <2>3. ASSUME NEW u \in Users, u \notin raced', NEW x \in Workspaces, Belongs(x, u)'
        PROVE  NamedOnce(x)'
    <3>1. u \notin raced /\ Belongs(x, u)
      BY <2>1, <2>3 DEF Belongs
    <3>2. NamedOnce(x)
      BY <3>1
    <3>3. x = ws[r] => \A d \in Categories : category[d] # row
      BY <2>2, <3>1
    <3> HIDE DEF row
    <3> QED BY <2>1, <3>2, <3>3 DEF NamedOnce
  <2> QED BY <2>3
<1>4. ASSUME NEW r \in Requests, InsertScore(r)
      PROVE  Shelved'
  BY <1>4 DEF InsertScore, Belongs, NamedOnce
<1>5. ASSUME NEW r \in Requests, CreateCommit(r)
      PROVE  Shelved'
  <2>1. /\ owner' = [owner EXCEPT ![ws[r]] = usr[r]]
        /\ usr' = [usr EXCEPT ![r] = None] /\ ws' = [ws EXCEPT ![r] = None]
        /\ UNCHANGED category
    BY <1>5 DEF CreateCommit, Done
  <2>2. \A u \in Users, x \in Workspaces : Belongs(x, u)' => Belongs(x, u)
    BY <2>1 DEF Belongs
  <2> QED BY <2>1, <2>2 DEF NamedOnce
<1>6. ASSUME NEW r \in Requests, NEW i \in Interviews, NEW l \in Lists, UpdateRead(r, i, l)
      PROVE  Shelved'
  <2>1. /\ usr[r] = None /\ UNCHANGED <<owner, usr, category>>
        /\ \A q \in Requests \ {r} : ws'[q] = ws[q]
    BY <1>6 DEF UpdateRead
  <2>2. \A u \in Users, x \in Workspaces : Belongs(x, u)' => Belongs(x, u)
    BY <2>1 DEF Belongs
  <2> QED BY <2>1, <2>2 DEF NamedOnce
<1>7. ASSUME NEW r \in Requests, UpdateScan(r)
      PROVE  Shelved'
  BY <1>7 DEF UpdateScan, Belongs, NamedOnce
<1>8. ASSUME NEW r \in Requests, NEW c \in Categories, UpdateDelete(r, c)
      PROVE  Shelved'
  BY <1>8 DEF UpdateDelete, Belongs, NamedOnce
<1>9. ASSUME NEW r \in Requests, UpdateDeleted(r)
      PROVE  Shelved'
  BY <1>9 DEF UpdateDeleted, Belongs, NamedOnce
<1>10. ASSUME NEW r \in Requests, UpdateCommit(r)
      PROVE  Shelved'
  <2>1. /\ usr' = [usr EXCEPT ![r] = None] /\ ws' = [ws EXCEPT ![r] = None]
        /\ UNCHANGED <<owner, category>>
    BY <1>10 DEF UpdateCommit, Done
  <2>2. \A u \in Users, x \in Workspaces : Belongs(x, u)' => Belongs(x, u)
    BY <2>1 DEF Belongs
  <2> QED BY <2>1, <2>2 DEF NamedOnce
<1>11. ASSUME NEW r \in Requests, NEW i \in Interviews, CancelRead(r, i)
      PROVE  Shelved'
  BY <1>11 DEF CancelRead, Belongs, NamedOnce
<1>12. ASSUME NEW r \in Requests, CancelFlush(r)
      PROVE  Shelved'
  BY <1>12 DEF CancelFlush, Belongs, NamedOnce
<1>13. ASSUME NEW r \in Requests, CancelCommit(r)
      PROVE  Shelved'
  <2>1. /\ usr' = [usr EXCEPT ![r] = None] /\ ws' = [ws EXCEPT ![r] = None]
        /\ UNCHANGED <<owner, category>>
    BY <1>13 DEF CancelCommit, Done
  <2>2. \A u \in Users, x \in Workspaces : Belongs(x, u)' => Belongs(x, u)
    BY <2>1 DEF Belongs
  <2> QED BY <2>1, <2>2 DEF NamedOnce
<1>14. ASSUME NEW r \in Requests, Rollback(r)
      PROVE  Shelved'
  <2>1. /\ usr' = [usr EXCEPT ![r] = None] /\ ws' = [ws EXCEPT ![r] = None]
        /\ UNCHANGED owner
        /\ \A c \in Categories : category'[c] \in {category[c], None}
    BY <1>14 DEF Rollback, Done
  <2>2. \A u \in Users, x \in Workspaces : Belongs(x, u)' => Belongs(x, u)
    BY <2>1 DEF Belongs
  <2> QED BY <2>1, <2>2 DEF NamedOnce
<1>15. CASE UNCHANGED vars
  BY <1>15 DEF vars, request, Belongs, NamedOnce
<1> QED BY <1>1, <1>2, <1>3, <1>4, <1>5, <1>6, <1>7, <1>8, <1>9, <1>10, <1>11, <1>12, <1>13, <1>14, <1>15
  DEF Next, Receive, Proceed, Refuse, Fail

\* The rows of the interview stay as they are, and its requests have still
\* seen or deleted what they must.
StaysSwept(i) ==
    /\ Scored(i)' = Scored(i) /\ asked'[i] = asked[i] /\ status'[i] = status[i]
    /\ \A c \in Scored(i) : category'[c] = category[c]
    /\ \A r \in Requests : itv'[r] = i =>
          /\ pc'[r] = "deleting"  => Scored(i) \subseteq seen'[r]
          /\ pc'[r] = "replacing" => Scored(i) \subseteq gone'[r]
          /\ status[i] # "cancelled"

\* Such a step keeps the criteria of the interview.
LEMMA SweptQuiet ==
    ASSUME NEW i \in Interviews, SweptOf(i), StaysSwept(i)
    PROVE  SweptOf(i)'
  BY DEF SweptOf, StaysSwept, CriteriaOf

\* Every step keeps the criteria of an interview that has not raced.
LEMMA SweptStep ==
    ASSUME Inv, Listed, RacedKnown, [Next]_vars,
           NEW i \in Interviews, i \notin raced, SweptOf(i)
    PROVE  SweptOf(i)'
<1> USE InterviewAssumption DEF Inv, TypeOK, ScoreInv, Places, store
<1>1. ASSUME NEW r \in Requests, NEW u \in Users, NEW w \in Workspaces, NEW j \in Interviews,
      NEW l \in Lists, CreateRead(r, u, w, j, l)
      PROVE  StaysSwept(i)
  BY <1>1 DEF CreateRead, Scored, SweptOf, StaysSwept
<1>2. ASSUME NEW r \in Requests, NEW c \in Categories, FindCategory(r, c)
      PROVE  StaysSwept(i)
  BY <1>2 DEF FindCategory, Searching, Scored, SweptOf, StaysSwept
<1>3. ASSUME NEW r \in Requests, NEW c \in Categories, CreateCategory(r, c)
      PROVE  StaysSwept(i)
  <2>1. \A d \in Scored(i) : category'[d] = category[d]
    BY <1>3, NoRowNoUse DEF CreateCategory, Scored
  <2> QED BY <1>3, <2>1 DEF CreateCategory, Searching, Scored, SweptOf, StaysSwept
<1>4. ASSUME NEW r \in Requests, InsertScore(r)
      PROVE  StaysSwept(i)
  BY <1>4 DEF InsertScore, Scored, SweptOf, StaysSwept
<1>5. ASSUME NEW r \in Requests, CreateCommit(r)
      PROVE  SweptOf(i)'
  <2>1. /\ itv[r] \in Interviews
        /\ itv' = [itv EXCEPT ![r] = None]
        /\ pc' = [pc EXCEPT ![r] = "idle"]
        /\ gone' = [gone EXCEPT ![r] = {}]
        /\ \A q \in Requests \ {r} : itv[q] # itv[r] => seen'[q] = seen[q]
        /\ UNCHANGED category
    BY <1>5 DEF CreateCommit, Done
  <2>2. CASE itv[r] # i
    <3>1. Scored(i)' = Scored(i) /\ asked'[i] = asked[i] /\ status'[i] = status[i]
      BY <1>5, <2>2 DEF CreateCommit, Scored
    <3>2. StaysSwept(i)
      BY <2>1, <2>2, <3>1 DEF SweptOf, StaysSwept
    <3> QED BY <3>2, SweptQuiet
  <2>3. CASE itv[r] = i
    <3>1. \A q \in Requests : itv'[q] # i
      BY <2>1, <2>3, Alone
    <3>2. CriteriaOf(i)' \subseteq asked'[i]
      <4>1. Scored(i)' = mine[r]
        BY <1>5, <2>1, <2>3 DEF CreateCommit, Scored, SweptOf, Rows
      <4>2. asked'[i] = NamesIn(list[r])
        BY <1>5, <2>1, <2>3 DEF CreateCommit
      <4> QED BY <2>1, <4>1, <4>2 DEF CriteriaOf, Listed
    <3> QED BY <3>1, <3>2 DEF SweptOf
  <2> QED BY <2>2, <2>3
<1>6. ASSUME NEW r \in Requests, NEW j \in Interviews, NEW l \in Lists, UpdateRead(r, j, l)
      PROVE  StaysSwept(i)
  BY <1>6 DEF UpdateRead, Scored, SweptOf, StaysSwept
<1>7. ASSUME NEW r \in Requests, UpdateScan(r)
      PROVE  StaysSwept(i)
  BY <1>7 DEF UpdateScan, Scored, SweptOf, StaysSwept
<1>8. ASSUME NEW r \in Requests, NEW c \in Categories, UpdateDelete(r, c)
      PROVE  StaysSwept(i)
  BY <1>8 DEF UpdateDelete, Scored, SweptOf, StaysSwept
<1>9. ASSUME NEW r \in Requests, UpdateDeleted(r)
      PROVE  StaysSwept(i)
  BY <1>9 DEF UpdateDeleted, Remaining, Scored, SweptOf, StaysSwept
<1>10. ASSUME NEW r \in Requests, UpdateCommit(r)
      PROVE  SweptOf(i)'
  <2>1. /\ itv[r] \in Interviews
        /\ itv' = [itv EXCEPT ![r] = None]
        /\ pc' = [pc EXCEPT ![r] = "idle"]
        /\ gone' = [gone EXCEPT ![r] = {}]
        /\ \A q \in Requests \ {r} : itv[q] # itv[r] => seen'[q] = seen[q]
        /\ UNCHANGED category
    BY <1>10 DEF UpdateCommit, Done
  <2>2. CASE itv[r] # i
    <3>1. Scored(i)' = Scored(i) /\ asked'[i] = asked[i] /\ status'[i] = status[i]
      BY <1>10, <2>2 DEF UpdateCommit, Scored
    <3>2. StaysSwept(i)
      BY <2>1, <2>2, <3>1 DEF SweptOf, StaysSwept
    <3> QED BY <3>2, SweptQuiet
  <2>3. CASE itv[r] = i
    <3>1. \A q \in Requests : itv'[q] # i
      BY <2>1, <2>3, Alone
    <3>2. CriteriaOf(i)' \subseteq asked'[i]
      <4>1. Scored(i)' = mine[r]
        BY <1>10, <2>1, <2>3 DEF UpdateCommit, Scored, SweptOf, Rows
      <4>2. asked'[i] = NamesIn(list[r])
        BY <1>10, <2>1, <2>3 DEF UpdateCommit
      <4> QED BY <2>1, <4>1, <4>2 DEF CriteriaOf, Listed
    <3> QED BY <3>1, <3>2 DEF SweptOf
  <2> QED BY <2>2, <2>3
<1>11. ASSUME NEW r \in Requests, NEW j \in Interviews, CancelRead(r, j)
      PROVE  StaysSwept(i)
  BY <1>11 DEF CancelRead, Scored, SweptOf, StaysSwept
<1>12. ASSUME NEW r \in Requests, CancelFlush(r)
      PROVE  StaysSwept(i)
  BY <1>12 DEF CancelFlush, Scored, SweptOf, StaysSwept
<1>13. ASSUME NEW r \in Requests, CancelCommit(r)
      PROVE  SweptOf(i)'
  <2>1. /\ itv[r] \in Interviews
        /\ itv' = [itv EXCEPT ![r] = None]
        /\ pc' = [pc EXCEPT ![r] = "idle"]
        /\ gone' = [gone EXCEPT ![r] = {}]
        /\ \A q \in Requests \ {r} : itv[q] # itv[r] => seen'[q] = seen[q]
        /\ UNCHANGED category
    BY <1>13 DEF CancelCommit, Done
  <2>2. CASE itv[r] # i
    <3>1. Scored(i)' = Scored(i) /\ asked'[i] = asked[i] /\ status'[i] = status[i]
      BY <1>13, <2>2 DEF CancelCommit, Scored
    <3>2. StaysSwept(i)
      BY <2>1, <2>2, <3>1 DEF SweptOf, StaysSwept
    <3> QED BY <3>2, SweptQuiet
  <2>3. CASE itv[r] = i
    <3>1. \A q \in Requests : itv'[q] # i
      BY <2>1, <2>3, Alone
    <3>2. CriteriaOf(i)' \subseteq asked'[i]
      <4>1. Scored(i)' = Scored(i) /\ asked'[i] = asked[i]
        BY <1>13 DEF CancelCommit, Scored
      <4> QED BY <2>1, <4>1 DEF CriteriaOf, SweptOf
    <3> QED BY <3>1, <3>2 DEF SweptOf
  <2> QED BY <2>2, <2>3
<1>14. ASSUME NEW r \in Requests, Rollback(r)
      PROVE  StaysSwept(i)
  <2>1. \A c \in Scored(i) : category'[c] = category[c]
    BY <1>14 DEF Rollback, Scored, FreshIsPrivate
  <2> QED BY <1>14, <2>1 DEF Rollback, Done, Scored, SweptOf, StaysSwept
<1>15. CASE UNCHANGED vars
  <2>1. StaysSwept(i)
    BY <1>15 DEF vars, request, Scored, SweptOf, StaysSwept
  <2> QED BY <2>1, SweptQuiet
<1> QED BY <1>1, <1>2, <1>3, <1>4, <1>5, <1>6, <1>7, <1>8, <1>9, <1>10, <1>11, <1>12, <1>13, <1>14, <1>15,
      SweptQuiet
  DEF Next, Receive, Proceed, Refuse, Fail

\* Every step keeps what holds for those who have not raced.
LEMMA AloneStep ==
    Inv /\ PlainInv /\ AloneInv /\ [HistoryNext]_<<vars, raced>> => AloneInv'
<1> SUFFICES ASSUME Inv, PlainInv, AloneInv, [HistoryNext]_<<vars, raced>>
             PROVE  AloneInv'
  OBVIOUS
<1>1. [Next]_vars /\ raced \subseteq raced'
  BY DEF HistoryNext
<1>2. RacedKnown'
  <2>1. CASE HistoryNext
    BY <2>1 DEF HistoryNext, RacedKnown
  <2>2. CASE UNCHANGED <<vars, raced>>
    BY <2>2 DEF AloneInv, RacedKnown, Overlaps, Actor, vars, store, request
  <2> QED BY <2>1, <2>2
<1>3. Resolved' /\ Shelved'
  BY <1>1, ResolvedStep, ShelvedStep DEF PlainInv, AloneInv
<1>4. Swept'
  <2>1. ASSUME NEW i \in Interviews, i \notin raced
        PROVE  SweptOf(i)'
    BY <1>1, <2>1, SweptStep DEF PlainInv, AloneInv, Swept
  <2> QED BY <1>1, <2>1 DEF Swept
<1> QED BY <1>2, <1>3, <1>4 DEF AloneInv

\* It holds before anything has been asked.
LEMMA HistoryInitInv == HistoryInit => Inv /\ PlainInv /\ AloneInv
<1> SUFFICES ASSUME HistoryInit PROVE Inv /\ PlainInv /\ AloneInv
  OBVIOUS
<1>1. Init /\ raced = {}
  BY DEF HistoryInit
<1>2. PlainInv
  BY <1>1 DEF Init, PlainInv, Seats, Shelves, Listed
<1>3. RacedKnown
  BY <1>1, InterviewAssumption DEF Init, RacedKnown, Overlaps, Actor
<1>4. Resolved /\ Shelved
  BY <1>1, InterviewAssumption
     DEF Init, Resolved, OneWorkspace, WorkspacesOf, Shelved, NamedOnce
<1>5. Swept
  BY <1>1, InterviewAssumption DEF Init, Swept, SweptOf, CriteriaOf, Scored
<1> QED BY <1>1, <1>2, <1>3, <1>4, <1>5, InitInv DEF AloneInv

\* The invariant of what holds for those who have not raced.
THEOREM HistoryInvariant == HistorySpec => [](Inv /\ PlainInv /\ AloneInv)
<1>1. Inv /\ [Next]_vars => Inv'
  BY TypeStep, PlacesStep, ScoreStep, ProgressStep, KeptStep
     DEF Inv, ScoreInv, KeptInv
<1>2. [HistoryNext]_<<vars, raced>> => [Next]_vars
  BY DEF HistoryNext
<1> QED BY HistoryInitInv, PlainStep, AloneStep, <1>1, <1>2, PTL DEF HistorySpec

\* A user whose own requests do not overlap has one workspace, whatever overlaps
\* for other users (_get_or_create_workspace).
THEOREM OneWorkspaceIsFound == HistorySpec => []WorkspaceIsFound
<1>1. AloneInv => WorkspaceIsFound
  BY DEF AloneInv, Resolved, WorkspaceIsFound
<1> QED BY HistoryInvariant, <1>1, PTL

\* In the workspace of a user whose own requests do not overlap a name is one
\* category (_find_or_create_category).
THEOREM OneCategoryIsFound == HistorySpec => []CategoryIsFound
<1>1. AloneInv => CategoryIsFound
  BY DEF AloneInv, Shelved, NamedOnce, Belongs, WorkspacesOf, CategoryIsFound,
         CategoryUnambiguous
<1> QED BY HistoryInvariant, <1>1, PTL

\* An interview whose own requests do not overlap has the criteria of its last
\* update and no others (update_interview_criteria).
THEOREM UpdatesReplaceAll == HistorySpec => []ReplacesAll
<1>1. Inv /\ AloneInv => ReplacesAll
  BY DEF Inv, KeptInv, LastReplaceKept, AloneInv, Swept, SweptOf, ReplacesAll,
         ReplaceIsExact
<1> QED BY HistoryInvariant, <1>1, PTL

\* A cancelled interview whose own requests do not overlap is not cancelled again
\* and keeps its criteria (cancel_interview, update_interview_criteria).
THEOREM CancellationIsFinal == HistorySpec => CancelledStays
<1>1. Inv /\ AloneInv /\ [Next]_vars =>
         [\A i \in Interviews \ raced : FrozenOnceCancelled(i)]_vars
  <2> SUFFICES ASSUME Inv, AloneInv, Next, NEW i \in Interviews, i \notin raced,
                      status[i] = "cancelled"
               PROVE  Scored(i)' = Scored(i) /\ cancels'[i] = cancels[i]
    BY DEF FrozenOnceCancelled
  <2>1. \A r \in Requests : itv[r] # i
    BY DEF AloneInv, Swept, SweptOf
  <2> USE DEF Scored, Inv, TypeOK, store
  <2>2. PICK r \in Requests : Receive(r) \/ Proceed(r) \/ Fail(r)
    BY DEF Next
  <2>3. CASE CreateCommit(r) \/ UpdateCommit(r)
    BY <2>1, <2>3 DEF CreateCommit, UpdateCommit
  <2>4. CASE CancelCommit(r)
    BY <2>1, <2>4 DEF CancelCommit
  <2>5. CASE Rollback(r)
    BY <2>5 DEF Rollback
  <2>6. CASE UNCHANGED <<scores, cancels>>
    BY <2>6
  <2>7. Receive(r) => UNCHANGED <<scores, cancels>>
    BY DEF Receive, CreateRead, UpdateRead, CancelRead
  <2>8. Proceed(r) => \/ CreateCommit(r) \/ UpdateCommit(r) \/ CancelCommit(r)
                      \/ Rollback(r) \/ UNCHANGED <<scores, cancels>>
    BY DEF Proceed, FindCategory, CreateCategory, InsertScore, Refuse, UpdateScan,
           UpdateDelete, UpdateDeleted, CancelFlush
  <2> QED BY <2>2, <2>3, <2>4, <2>5, <2>6, <2>7, <2>8 DEF Fail
<1>2. [HistoryNext]_<<vars, raced>> => [Next]_vars
  BY DEF HistoryNext
<1> QED BY HistoryInvariant, <1>1, <1>2, PTL DEF HistorySpec, CancelledStays

-----------------------------------------------------------------------------
(* Requests as they are promised: each at one moment, on one interview.     *)

Criteria == [i \in Interviews |-> CriteriaOf(i)]

Atomic == INSTANCE AtomicInterviews WITH criteria <- Criteria

\* Criteria keep their names while no score is written.
LEMMA CriteriaQuiet ==
    ASSUME scores' = scores,
           \A i \in Interviews : \A c \in Scored(i) : category'[c] = category[c]
    PROVE  Criteria' = Criteria
<1>1. ASSUME NEW i \in Interviews
      PROVE  CriteriaOf(i)' = CriteriaOf(i)
  <2>1. Scored(i)' = Scored(i)
    BY DEF Scored
  <2> QED BY <1>1, <2>1 DEF CriteriaOf
<1> QED BY <1>1 DEF Criteria

\* A request that has dealt with its whole list has inserted its names and no
\* others.
LEMMA InsertsItsList ==
    ASSUME Inv, Listed, NEW r \in Requests, at[r] = Len(list[r])
    PROVE  {category[c].name : c \in mine[r]} = NamesIn(list[r])
<1>1. \A c \in mine[r] : category[c].name \in NamesIn(list[r])
  BY DEF Listed
<1>2. ASSUME NEW n \in NamesIn(list[r])
      PROVE  n \in {category[c].name : c \in mine[r]}
  <2>1. PICK k \in 1..Len(list[r]) : n = list[r][k]
    BY <1>2, ListType DEF Inv
  <2>2. PICK c \in mine[r] : category[c].name = list[r][k]
    BY <2>1 DEF Inv, KeptInv, Progress
  <2> QED BY <2>1, <2>2
<1> QED BY <1>1, <1>2

\* Scores of interview i written and deleted change its criteria alone.
LEMMA CriteriaWritten ==
    ASSUME UNCHANGED category, NEW i \in Interviews,
           NEW del \in SUBSET Categories, NEW ins \in SUBSET Categories,
           scores' = (scores \ {<<i, c>> : c \in del}) \cup {<<i, c>> : c \in ins}
    PROVE  Criteria' = [Criteria EXCEPT
                          ![i] = {category[c].name : c \in ins}
                                   \cup {category[c].name : c \in Scored(i) \ del}]
<1>1. Scored(i)' = ins \cup (Scored(i) \ del)
  BY DEF Scored
<1>2. \A j \in Interviews \ {i} : Scored(j)' = Scored(j)
  BY DEF Scored
<1>3. CriteriaOf(i)' = {category[c].name : c \in ins}
                          \cup {category[c].name : c \in Scored(i) \ del}
  BY <1>1 DEF CriteriaOf
<1>4. \A j \in Interviews \ {i} : CriteriaOf(j)' = CriteriaOf(j)
  BY <1>2 DEF CriteriaOf
<1> QED BY <1>3, <1>4 DEF Criteria

\* The commits are the requests of the abstract service; nothing else is
\* visible.
LEMMA StepIsAtomic ==
    ASSUME Inv, Seats, Listed, [Next]_vars
    PROVE  [Atomic!Next]_(Atomic!vars)
<1> USE DEF Inv, TypeOK
<1>1. ASSUME NEW r \in Requests, CreateCommit(r)
      PROVE  Atomic!Next
  <2>1. /\ itv[r] \in Interviews /\ ws[r] \in Workspaces /\ usr[r] \in Users
        /\ status[itv[r]] = "absent" /\ owner[ws[r]] \in {usr[r], None}
    BY <1>1 DEF CreateCommit, ScoreInv, Places, Seats
  <2>2. NamesIn(list[r]) \in SUBSET Names
    BY ListType
  <2>3. Scored(itv[r]) = {}
    BY <2>1 DEF ScoreInv, Rows
  <2>4. {category[c].name : c \in mine[r]} = NamesIn(list[r])
    BY <1>1, InsertsItsList DEF CreateCommit
  <2>5. Criteria' = [Criteria EXCEPT ![itv[r]] = NamesIn(list[r])]
    <3>1. /\ UNCHANGED category /\ mine[r] \in SUBSET Categories
          /\ scores' = (scores \ {<<itv[r], c>> : c \in {}})
                          \cup {<<itv[r], c>> : c \in mine[r]}
      BY <1>1 DEF CreateCommit
    <3>2. Criteria' = [Criteria EXCEPT
                         ![itv[r]] = {category[c].name : c \in mine[r]}
                           \cup {category[c].name : c \in Scored(itv[r]) \ {}}]
      BY <2>1, <3>1, CriteriaWritten
    <3> QED BY <2>3, <2>4, <3>2
  <2>6. Atomic!Create(usr[r], ws[r], itv[r], NamesIn(list[r]))
    BY <1>1, <2>1, <2>5 DEF CreateCommit, Atomic!Create
  <2> QED BY <2>1, <2>2, <2>6 DEF Atomic!Next
<1>2. ASSUME NEW r \in Requests, UpdateCommit(r)
      PROVE  Atomic!Next
  <2> DEFINE rest == {category[c].name : c \in Scored(itv[r]) \ gone[r]}
  <2>1. itv[r] \in Interviews /\ status[itv[r]] # "absent"
    BY <1>2 DEF UpdateCommit, ScoreInv, Places
  <2>2. NamesIn(list[r]) \in SUBSET Names
    BY ListType
  <2>3. rest \subseteq Criteria[itv[r]]
    BY <2>1 DEF Criteria, CriteriaOf
  <2>4. rest \in SUBSET Names
    <3>1. ASSUME NEW c \in Scored(itv[r])
          PROVE  category[c].name \in Names
      <4>1. c \in Categories /\ category[c] # None
        BY <2>1 DEF Scored, ScoreInv, Rows, ScoresInWorkspace
      <4>2. category[c] \in [ws : Workspaces, name : Names]
        BY <4>1
      <4> QED BY <4>2
    <3> QED BY <3>1
  <2>5. {category[c].name : c \in mine[r]} = NamesIn(list[r])
    BY <1>2, InsertsItsList DEF UpdateCommit
  <2>6. Criteria' = [Criteria EXCEPT ![itv[r]] = NamesIn(list[r]) \cup rest]
    <3>1. /\ UNCHANGED category
          /\ mine[r] \in SUBSET Categories /\ gone[r] \in SUBSET Categories
          /\ scores' = (scores \ {<<itv[r], c>> : c \in gone[r]})
                          \cup {<<itv[r], c>> : c \in mine[r]}
      BY <1>2 DEF UpdateCommit
    <3> QED BY <2>1, <2>5, <3>1, CriteriaWritten
  <2>7. Atomic!Update(itv[r], NamesIn(list[r]), rest)
    BY <1>2, <2>1, <2>3, <2>6 DEF UpdateCommit, Atomic!Update
  <2> HIDE DEF rest
  <2> QED BY <2>1, <2>2, <2>4, <2>7 DEF Atomic!Next
<1>3. ASSUME NEW r \in Requests, CancelCommit(r)
      PROVE  Atomic!Next
  <2>1. itv[r] \in Interviews /\ status[itv[r]] # "absent"
    BY <1>3 DEF CancelCommit, ScoreInv, Places
  <2>2. Criteria' = Criteria
    BY <1>3, CriteriaQuiet DEF CancelCommit
  <2>3. Atomic!Cancel(itv[r])
    BY <1>3, <2>1, <2>2 DEF CancelCommit, Atomic!Cancel
  <2> QED BY <2>1, <2>3 DEF Atomic!Next
<1>4. \A i \in Interviews : \A d \in Scored(i) : category[d] # None
  BY DEF ScoreInv, Rows, ScoresInWorkspace
<1>5. ASSUME NEW r \in Requests, NEW c \in Categories, CreateCategory(r, c)
      PROVE  UNCHANGED Atomic!vars
  <2>1. \A i \in Interviews : \A d \in Scored(i) : category'[d] = category[d]
    BY <1>4, <1>5 DEF CreateCategory, Scored
  <2>2. Criteria' = Criteria
    BY <1>5, <2>1, CriteriaQuiet DEF CreateCategory
  <2> QED BY <1>5, <2>2 DEF CreateCategory, Atomic!vars
<1>6. ASSUME NEW r \in Requests, Rollback(r)
      PROVE  UNCHANGED Atomic!vars
  <2>1. \A i \in Interviews : \A d \in Scored(i) : category'[d] = category[d]
    BY <1>6 DEF Rollback, Scored, ScoreInv, FreshIsPrivate
  <2>2. Criteria' = Criteria
    BY <1>6, <2>1, CriteriaQuiet DEF Rollback
  <2> QED BY <1>6, <2>2 DEF Rollback, Atomic!vars
<1>7. ASSUME UNCHANGED store
      PROVE  UNCHANGED Atomic!vars
  <2>1. Criteria' = Criteria
    BY <1>7, CriteriaQuiet DEF store
  <2> QED BY <1>7, <2>1 DEF store, Atomic!vars
<1>8. \/ \E r \in Requests :
            \/ CreateCommit(r) \/ UpdateCommit(r) \/ CancelCommit(r)
            \/ \E c \in Categories : CreateCategory(r, c)
            \/ Rollback(r)
      \/ UNCHANGED store
  BY DEF Next, Receive, Proceed, Refuse, Fail, CreateRead, UpdateRead,
         CancelRead, FindCategory, InsertScore, UpdateScan, UpdateDelete,
         UpdateDeleted, CancelFlush, vars
<1> QED BY <1>1, <1>2, <1>3, <1>5, <1>6, <1>7, <1>8

\* Whatever overlaps, and whichever request fails or is chosen to break a
\* deadlock, interviews, workspaces and criteria go through states that creates,
\* updates and cancellations would produce one at a time, each with all its
\* writes at once and on its own interview (create_interview,
\* update_interview_criteria, cancel_interview).
THEOREM RequestsAreAtomic == Spec => Atomic!Spec
<1>1. Init => Atomic!Init /\ Seats /\ Listed
  <2> SUFFICES ASSUME Init PROVE Atomic!Init /\ Seats /\ Listed
    OBVIOUS
  <2>1. Criteria = [i \in Interviews |-> {}]
    BY DEF Init, Criteria, CriteriaOf, Scored
  <2>2. Atomic!Init
    BY <2>1 DEF Init, Atomic!Init
  <2>3. Seats /\ Listed
    BY DEF Init, Seats, Listed
  <2> QED BY <2>2, <2>3
<1>2. Inv /\ Seats /\ Listed /\ [Next]_vars => [Atomic!Next]_(Atomic!vars)
  BY StepIsAtomic
<1> QED
  BY <1>1, <1>2, InductiveInvariant, SeatsStep, ListedStep, PTL
     DEF Spec, Atomic!Spec
=============================================================================
