------------------------ MODULE AuthSessions_proofs ------------------------
(* Proofs about AuthSessions, for any users, tokens and requests. *)
EXTENDS SessionHistory, TLAPS

\* A request that is over is back in its initial, well-typed state.
LEMMA DoneType ==
    ASSUME RequestTypeOK, NEW r \in Requests, Done(r)
    PROVE  RequestTypeOK'
BY DEF RequestTypeOK, Done, Places

\* What request r is known to hold at each place, so that committing it writes
\* values of the right type.
ContextOK ==
    \A r \in Requests :
        /\ pc[r] # "idle" => usr[r] \in Users
        /\ pc[r] \in {"refresh_read", "refresh_selected", "logout_read",
                      "logout_revoked", "logout_selected"}
             => /\ tok[r] \in Issued
                /\ usr[r] = owner[tok[r]]
        /\ pc[r] = "forgot_read" => seen[r] \subseteq ResetTokens
        /\ Resetting(r) => seen[r] \subseteq {t \in Issued : owner[t] = usr[r]}
        /\ pc[r] = "reset_read" \/ Resetting(r)
             => rst[r] \in ResetTokens /\ newPassword[r] \in Passwords

TypeInv == TypeOK /\ ContextOK

LEMMA TypeInit == Init => TypeInv
BY NoneAssumption
   DEF Init, TypeInv, TypeOK, StoreTypeOK, RequestTypeOK, ContextOK, Places,
       Resetting

LEMMA TypeNext == TypeInv /\ [Next]_vars => TypeInv'
<1> SUFFICES ASSUME TypeInv, [Next]_vars PROVE TypeInv'
  OBVIOUS
<1> USE DEF TypeInv, TypeOK, StoreTypeOK
<1>1. ASSUME NEW r \in Requests, NEW u \in Users, NEW p \in Passwords,
             LoginCheck(r, u, p)
      PROVE  TypeInv'
  BY <1>1 DEF LoginCheck, store, RequestTypeOK, ContextOK, Places, Issued,
              Resetting
<1>2. ASSUME NEW r \in Requests, NEW t \in Tokens, LoginCommit(r, t)
      PROVE  TypeInv'
  <2>1. RequestTypeOK'
    BY <1>2, DoneType DEF LoginCommit
  <2>2. StoreTypeOK'
    BY <1>2 DEF LoginCommit, RequestTypeOK
  <2>3. ContextOK'
    BY <1>2, NoneAssumption
       DEF LoginCommit, Done, ContextOK, RequestTypeOK, Issued, Resetting
  <2> QED BY <2>1, <2>2, <2>3
<1>3. ASSUME NEW r \in Requests, NEW t \in Tokens, RefreshRead(r, t)
      PROVE  TypeInv'
  BY <1>3, NoneAssumption
     DEF RefreshRead, store, RequestTypeOK, ContextOK, Places, Issued, Live,
         Outstanding, Resetting
<1>4. ASSUME NEW r \in Requests, RefreshSelect(r)
      PROVE  TypeInv'
  BY <1>4, NoneAssumption
     DEF RefreshSelect, store, RequestTypeOK, ContextOK, Places, Issued, Live,
         Outstanding, Resetting
<1>5. ASSUME NEW r \in Requests, NEW t \in Tokens, RefreshCommit(r, t)
      PROVE  TypeInv'
  <2>1. RequestTypeOK'
    BY <1>5, DoneType DEF RefreshCommit
  <2>2. StoreTypeOK'
    BY <1>5 DEF RefreshCommit, store, RequestTypeOK, ContextOK, Issued, Resetting
  <2>3. ContextOK'
    BY <1>5, NoneAssumption
       DEF RefreshCommit, store, Done, ContextOK, RequestTypeOK, Issued, Resetting
  <2> QED BY <2>1, <2>2, <2>3
<1>6. ASSUME NEW r \in Requests, RefreshStale(r)
      PROVE  TypeInv'
  <2>1. RequestTypeOK'
    BY <1>6, DoneType DEF RefreshStale
  <2>2. StoreTypeOK'
    BY <1>6 DEF RefreshStale, store, RequestTypeOK, ContextOK, Issued, Resetting
  <2>3. ContextOK'
    BY <1>6, NoneAssumption
       DEF RefreshStale, store, Done, ContextOK, RequestTypeOK, Issued, Resetting
  <2> QED BY <2>1, <2>2, <2>3
<1>7. ASSUME NEW r \in Requests, NEW t \in Tokens, LogoutRead(r, t)
      PROVE  TypeInv'
  BY <1>7, NoneAssumption
     DEF LogoutRead, store, RequestTypeOK, ContextOK, Places, Issued, Live,
         Outstanding, Resetting
<1>8. ASSUME NEW r \in Requests, LogoutSelect(r)
      PROVE  TypeInv'
  BY <1>8, NoneAssumption
     DEF LogoutSelect, store, RequestTypeOK, ContextOK, Places, Issued, Live,
         Outstanding, Resetting
<1>9. ASSUME NEW r \in Requests, LogoutCommit(r)
      PROVE  TypeInv'
  <2>1. RequestTypeOK'
    BY <1>9, DoneType DEF LogoutCommit
  <2>2. StoreTypeOK'
    BY <1>9 DEF LogoutCommit, store, RequestTypeOK, ContextOK, Issued, Resetting
  <2>3. ContextOK'
    BY <1>9, NoneAssumption
       DEF LogoutCommit, store, Done, ContextOK, RequestTypeOK, Issued, Resetting
  <2> QED BY <2>1, <2>2, <2>3
<1>10. ASSUME NEW r \in Requests, NEW u \in Users, ForgotRead(r, u)
      PROVE  TypeInv'
  BY <1>10, NoneAssumption
     DEF ForgotRead, store, RequestTypeOK, ContextOK, Places, Issued, Live,
         Outstanding, Resetting
<1>11. ASSUME NEW r \in Requests, NEW p \in ResetTokens, ForgotCommit(r, p)
      PROVE  TypeInv'
  <2>1. RequestTypeOK'
    BY <1>11, DoneType DEF ForgotCommit
  <2>2. StoreTypeOK'
    BY <1>11 DEF ForgotCommit, store, RequestTypeOK, ContextOK, Issued, Resetting
  <2>3. ContextOK'
    BY <1>11, NoneAssumption
       DEF ForgotCommit, store, Done, ContextOK, RequestTypeOK, Issued, Resetting
  <2> QED BY <2>1, <2>2, <2>3
<1>12. ASSUME NEW r \in Requests, NEW p \in ResetTokens,
             NEW new \in Passwords, ResetRead(r, p, new)
      PROVE  TypeInv'
  BY <1>12, NoneAssumption
     DEF ResetRead, store, RequestTypeOK, ContextOK, Places, Issued, Live,
         Outstanding, Resetting
<1>13. ASSUME NEW r \in Requests, ResetFlush(r)
      PROVE  TypeInv'
  BY <1>13, NoneAssumption
     DEF ResetFlush, store, RequestTypeOK, ContextOK, Places, Issued, Live,
         Outstanding, Resetting
<1>14. ASSUME NEW r \in Requests, NEW t \in Tokens, ResetRevokeRow(r, t)
      PROVE  TypeInv'
  BY <1>14, NoneAssumption
     DEF ResetRevokeRow, store, RequestTypeOK, ContextOK, Places, Issued, Live,
         Outstanding, Resetting
<1>15. ASSUME NEW r \in Requests, ResetDelete(r)
      PROVE  TypeInv'
  BY <1>15, NoneAssumption
     DEF ResetDelete, store, RequestTypeOK, ContextOK, Places, Issued, Live,
         Outstanding, Resetting
<1>16. ASSUME NEW r \in Requests, ResetCommit(r)
      PROVE  TypeInv'
  <2>1. RequestTypeOK'
    BY <1>16, DoneType DEF ResetCommit
  <2>2. StoreTypeOK'
    BY <1>16 DEF ResetCommit, store, RequestTypeOK, ContextOK, Issued, Resetting
  <2>3. ContextOK'
    BY <1>16, NoneAssumption
       DEF ResetCommit, store, Done, ContextOK, RequestTypeOK, Issued, Resetting
  <2> QED BY <2>1, <2>2, <2>3
<1>17. ASSUME NEW r \in Requests, Fail(r)
      PROVE  TypeInv'
  <2>1. RequestTypeOK'
    BY <1>17, DoneType DEF Fail
  <2>2. StoreTypeOK'
    BY <1>17 DEF Fail, store, RequestTypeOK, ContextOK, Issued, Resetting
  <2>3. ContextOK'
    BY <1>17, NoneAssumption
       DEF Fail, store, Done, ContextOK, RequestTypeOK, Issued, Resetting
  <2> QED BY <2>1, <2>2, <2>3
<1>18. ASSUME NEW t \in Tokens \cup ResetTokens, Expire(t)
       PROVE  TypeInv'
  BY <1>18 DEF Expire, store, request, RequestTypeOK, ContextOK, Issued,
               Resetting
<1>19. CASE UNCHANGED vars
  BY <1>19 DEF vars, store, request, RequestTypeOK, ContextOK, Issued, Resetting
<1> QED
  BY <1>1, <1>2, <1>3, <1>4, <1>5, <1>6, <1>7, <1>8, <1>9, <1>10, <1>11, <1>12,
     <1>13, <1>14, <1>15, <1>16, <1>17, <1>18, <1>19
     DEF Next, Receive, Proceed

\* Every variable keeps a value of its column or of its request.
THEOREM TypeCorrect == Spec => []TypeOK
<1>1. TypeInv => TypeOK
  BY DEF TypeInv
<1> QED BY TypeInit, TypeNext, <1>1, PTL DEF Spec
-----------------------------------------------------------------------------
\* Why a committing request never leaves a session on a revoked token: hashes
\* are fresh, so a token that has lost its session never gets one again, and a
\* reset deletes the sessions of the rows it holds after it has revoked them.
SessionInv ==
    /\ revoked \subseteq Issued
    /\ SessionTokenLive
    /\ \A r \in Requests :
        /\ pc[r] \in {"refresh_selected", "logout_selected"} /\ ~ found[r]
             => tok[r] \notin sessions
        /\ pc[r] = "refresh_selected" => mine[r] = {tok[r]}
        /\ pc[r] = "logout_selected" => mine[r] \subseteq {tok[r]}
        /\ pc[r] \in {"logout_read", "logout_revoked", "reset_read"}
             => mine[r] = {}
        /\ Resetting(r) => mine[r] \subseteq seen[r]
        /\ pc[r] = "reset_deleted"
             => /\ seen[r] \subseteq revoked \cup mine[r]
                /\ mine[r] \cap sessions \subseteq gone[r]
        /\ pc[r] = "idle" => mine[r] = {}

LEMMA SessionInit == Init => SessionInv
BY DEF Init, SessionInv, SessionTokenLive, Live, Issued, Resetting

\* found records, for the request that selects, whether the row is there.
LEMMA FoundIsExact ==
    ASSUME RequestTypeOK, NEW r \in Requests,
           found' = [found EXCEPT ![r] = tok[r] \in sessions]
    PROVE  /\ found'[r] <=> tok[r] \in sessions
           /\ \A q \in Requests \ {r} : found'[q] = found[q]
<1>1. found \in [Requests -> BOOLEAN]
  BY DEF RequestTypeOK
<1>2. found'[r] <=> tok[r] \in sessions
  BY <1>1, Zenon
<1> QED BY <1>1, <1>2

LEMMA SessionNext == TypeInv /\ SessionInv /\ [Next]_vars => SessionInv'
<1> SUFFICES ASSUME TypeInv, SessionInv, [Next]_vars PROVE SessionInv'
  OBVIOUS
<1> USE NoneAssumption
    DEF TypeInv, TypeOK, StoreTypeOK, RequestTypeOK, ContextOK, SessionInv,
        SessionTokenLive, Live, Issued, Resetting
<1>1. ASSUME NEW r \in Requests, NEW u \in Users, NEW p \in Passwords,
             LoginCheck(r, u, p)
      PROVE  SessionInv'
  BY <1>1 DEF LoginCheck, store, Done
<1>2. ASSUME NEW r \in Requests, NEW t \in Tokens, LoginCommit(r, t)
      PROVE  SessionInv'
  BY <1>2 DEF LoginCommit, store, Done
<1>3. ASSUME NEW r \in Requests, NEW t \in Tokens, RefreshRead(r, t)
      PROVE  SessionInv'
  BY <1>3 DEF RefreshRead, store, Done
<1>4. ASSUME NEW r \in Requests, RefreshSelect(r)
      PROVE  SessionInv'
  <2>1. /\ found'[r] <=> tok[r] \in sessions
        /\ \A q \in Requests \ {r} : found'[q] = found[q]
    BY <1>4, FoundIsExact DEF RefreshSelect
  <2> QED BY <1>4, <2>1 DEF RefreshSelect, store
<1>5. ASSUME NEW r \in Requests, NEW t \in Tokens, RefreshCommit(r, t)
      PROVE  SessionInv'
  BY <1>5 DEF RefreshCommit, store, Done
<1>6. ASSUME NEW r \in Requests, RefreshStale(r)
      PROVE  SessionInv'
  BY <1>6 DEF RefreshStale, store, Done
<1>7. ASSUME NEW r \in Requests, NEW t \in Tokens, LogoutRead(r, t)
      PROVE  SessionInv'
  BY <1>7 DEF LogoutRead, store, Done
<1>8. ASSUME NEW r \in Requests, LogoutSelect(r)
      PROVE  SessionInv'
  <2>1. /\ found'[r] <=> tok[r] \in sessions
        /\ \A q \in Requests \ {r} : found'[q] = found[q]
    BY <1>8, FoundIsExact DEF LogoutSelect
  <2> QED BY <1>8, <2>1 DEF LogoutSelect, store
<1>9. ASSUME NEW r \in Requests, LogoutCommit(r)
      PROVE  SessionInv'
  BY <1>9 DEF LogoutCommit, store, Done
<1>10. ASSUME NEW r \in Requests, NEW u \in Users, ForgotRead(r, u)
      PROVE  SessionInv'
  BY <1>10 DEF ForgotRead, store, Done
<1>11. ASSUME NEW r \in Requests, NEW p \in ResetTokens, ForgotCommit(r, p)
      PROVE  SessionInv'
  BY <1>11 DEF ForgotCommit, store, Done
<1>12. ASSUME NEW r \in Requests, NEW p \in ResetTokens,
             NEW new \in Passwords, ResetRead(r, p, new)
      PROVE  SessionInv'
  BY <1>12 DEF ResetRead, store, Done
<1>13. ASSUME NEW r \in Requests, ResetFlush(r)
      PROVE  SessionInv'
  BY <1>13 DEF ResetFlush, store, Done
<1>14. ASSUME NEW r \in Requests, NEW t \in Tokens, ResetRevokeRow(r, t)
      PROVE  SessionInv'
  BY <1>14 DEF ResetRevokeRow, store, Done
<1>15. ASSUME NEW r \in Requests, ResetDelete(r)
      PROVE  SessionInv'
  BY <1>15 DEF ResetDelete, store, Done
<1>16. ASSUME NEW r \in Requests, ResetCommit(r)
      PROVE  SessionInv'
  BY <1>16 DEF ResetCommit, store, Done
<1>17. ASSUME NEW r \in Requests, Fail(r)
      PROVE  SessionInv'
  BY <1>17 DEF Fail, store, Done
<1>18. ASSUME NEW t \in Tokens \cup ResetTokens, Expire(t)
       PROVE  SessionInv'
  BY <1>18 DEF Expire, store, request
<1>19. CASE UNCHANGED vars
  BY <1>19 DEF vars, store, request
<1> QED
  BY <1>1, <1>2, <1>3, <1>4, <1>5, <1>6, <1>7, <1>8, <1>9, <1>10, <1>11, <1>12,
     <1>13, <1>14, <1>15, <1>16, <1>17, <1>18, <1>19
     DEF Next, Receive, Proceed

\* No active session is ever listed for a revoked refresh token.
THEOREM SessionsAreLive == Spec => []SessionTokenLive
<1>1. SessionInv => SessionTokenLive
  BY DEF SessionInv
<1> QED
  BY TypeInit, TypeNext, SessionInit, SessionNext, <1>1, PTL DEF Spec
-----------------------------------------------------------------------------
\* A token obtained by rotation belongs to the user of the token it replaced,
\* and that token is revoked.
RotationRetires ==
    \A t \in Tokens : rotatedFrom[t] # None =>
        /\ rotatedFrom[t] \in revoked
        /\ owner[rotatedFrom[t]] = owner[t]

\* The two are written by one commit, and revoked and owner only grow.
LEMMA RotationNext ==
    TypeInv /\ RotationRetires /\ revoked \subseteq Issued /\ [Next]_vars
        => RotationRetires'
<1> SUFFICES ASSUME TypeInv, RotationRetires, revoked \subseteq Issued,
                    [Next]_vars
             PROVE  RotationRetires'
  OBVIOUS
<1> USE NoneAssumption
    DEF TypeInv, TypeOK, StoreTypeOK, RequestTypeOK, ContextOK,
        RotationRetires, Issued
<1>1. ASSUME NEW r \in Requests, NEW t \in Tokens, LoginCommit(r, t)
      PROVE  RotationRetires'
  BY <1>1 DEF LoginCommit
<1>2. ASSUME NEW r \in Requests, NEW t \in Tokens, RefreshCommit(r, t)
      PROVE  RotationRetires'
  BY <1>2 DEF RefreshCommit
<1>3. ASSUME rotatedFrom' = rotatedFrom, owner' = owner,
             revoked \subseteq revoked'
      PROVE  RotationRetires'
  BY <1>3
<1>4. ASSUME NEW r \in Requests, Receive(r) PROVE RotationRetires'
  BY <1>3, <1>4 DEF Receive, LoginCheck, RefreshRead, LogoutRead, ForgotRead,
                    ResetRead, store
<1>5. ASSUME NEW r \in Requests, Proceed(r) PROVE RotationRetires'
  BY <1>1, <1>2, <1>3, <1>5
     DEF Proceed, RefreshSelect, RefreshStale, LogoutSelect, LogoutCommit,
         ForgotCommit, ResetFlush, ResetRevokeRow, ResetDelete, ResetCommit,
         store
<1>6. ASSUME NEW r \in Requests, Fail(r) PROVE RotationRetires'
  BY <1>3, <1>6 DEF Fail, store
<1>7. ASSUME NEW t \in Tokens \cup ResetTokens, Expire(t)
      PROVE  RotationRetires'
  BY <1>3, <1>7 DEF Expire, store
<1>8. CASE UNCHANGED vars
  BY <1>3, <1>8 DEF vars, store
<1> QED BY <1>4, <1>5, <1>6, <1>7, <1>8 DEF Next

-----------------------------------------------------------------------------
\* What a reset had in its snapshot is revoked when it commits, or revoked by
\* it, and SessionInv says that no session is left on either.
LEMMA SnapshotStep ==
    ASSUME TypeInv, SessionInv, [Next]_vars, NEW r \in Requests, ResetCommit(r)
    PROVE  /\ seen[r] \subseteq revoked'
           /\ seen[r] \cap sessions' = {}
           /\ \A t \in revoked' \ revoked : owner[t] = usr[r]
<1> USE DEF TypeInv, TypeOK, RequestTypeOK, StoreTypeOK
<1>1. seen[r] \subseteq revoked \cup mine[r] /\ mine[r] \subseteq seen[r]
  BY DEF ResetCommit, SessionInv, Resetting
<1>2. mine[r] \cap sessions \subseteq gone[r] /\ sessions \cap revoked = {}
  BY DEF ResetCommit, SessionInv, SessionTokenLive, Live
<1>3. seen[r] \subseteq {t \in Issued : owner[t] = usr[r]}
  BY DEF ResetCommit, ContextOK, Resetting
<1> QED BY <1>1, <1>2, <1>3 DEF ResetCommit

\* A reset that commits has revoked every token that was live when its UPDATE
\* began, leaves none of them a session, and revokes nobody else's token.
THEOREM ResetsRevokeTheirSnapshot == Spec => ResetRevokesSnapshot
<1>1. TypeInv /\ SessionInv /\ [Next]_vars
        => [\A r \in Requests : ResetCommit(r) =>
              /\ seen[r] \subseteq revoked'
              /\ seen[r] \cap sessions' = {}
              /\ \A t \in revoked' \ revoked : owner[t] = usr[r]]_vars
  BY SnapshotStep
<1> QED
  BY TypeInit, TypeNext, SessionInit, SessionNext, <1>1, PTL
     DEF Spec, ResetRevokesSnapshot
-----------------------------------------------------------------------------
\* Logins, rotations and logouts by themselves keep the two tables together:
\* the row lock taken before the session is looked up lets one request at a
\* time move or delete it, and a reset touches the rows of its own user, who has
\* asked for a link.
TrackedInv ==
    /\ \A r \in Requests :
        /\ pc[r] = "reset_read" \/ Resetting(r) => resetOwner[rst[r]] = usr[r]
        /\ pc[r] = "reset_deleted" => \A t \in gone[r] : owner[t] = usr[r]
        /\ pc[r] = "logout_revoked" => tok[r] \in revoked
        /\ pc[r] = "logout_selected" => tok[r] \in revoked \cup mine[r]
    /\ \A q, r \in Requests : q # r => mine[q] \cap mine[r] = {}
    /\ LiveTokenTracked
    /\ FoundSessionStays

LEMMA TrackedNext ==
    TypeInv /\ SessionInv /\ TrackedInv /\ [Next]_vars => TrackedInv'
<1> SUFFICES ASSUME TypeInv, SessionInv, TrackedInv, [Next]_vars
             PROVE  TrackedInv'
  OBVIOUS
<1> USE NoneAssumption
    DEF TypeInv, TypeOK, StoreTypeOK, RequestTypeOK, ContextOK, SessionInv,
        SessionTokenLive, Live, Issued, Resetting, TrackedInv,
        LiveTokenTracked, FoundSessionStays, ResetAsked
<1>1. ASSUME NEW r \in Requests, NEW u \in Users, NEW p \in Passwords,
             LoginCheck(r, u, p)
      PROVE  TrackedInv'
  BY <1>1 DEF LoginCheck, store, Done
<1>2. ASSUME NEW r \in Requests, NEW t \in Tokens, LoginCommit(r, t)
      PROVE  TrackedInv'
  BY <1>2 DEF LoginCommit, store, Done
<1>3. ASSUME NEW r \in Requests, NEW t \in Tokens, RefreshRead(r, t)
      PROVE  TrackedInv'
  BY <1>3 DEF RefreshRead, store, Done
<1>4. ASSUME NEW r \in Requests, RefreshSelect(r)
      PROVE  TrackedInv'
  <2>1. /\ found'[r] <=> tok[r] \in sessions
        /\ \A q \in Requests \ {r} : found'[q] = found[q]
    BY <1>4, FoundIsExact DEF RefreshSelect
  <2> QED BY <1>4, <2>1 DEF RefreshSelect, store, TokenLocked
<1>5. ASSUME NEW r \in Requests, NEW t \in Tokens, RefreshCommit(r, t)
      PROVE  TrackedInv'
  <2>1. FoundSessionStays'
    <3> SUFFICES ASSUME NEW q \in Requests, q # r,
                        pc[q] = "refresh_selected", found[q],
                        ~ ResetAsked(usr[q])
                 PROVE  tok[q] \in sessions'
      BY <1>5 DEF RefreshCommit, Done
    <3>1. tok[q] # tok[r]
      <4>1. mine[q] = {tok[q]} /\ mine[r] = {tok[r]}
        BY <1>5 DEF RefreshCommit
      <4>2. mine[q] \cap mine[r] = {}
        OBVIOUS
      <4> QED BY <4>1, <4>2
    <3> QED BY <1>5, <3>1 DEF RefreshCommit
  <2>2. LiveTokenTracked'
    BY <1>5 DEF RefreshCommit
  <2>3. \A q \in Requests :
          /\ pc'[q] = "reset_read" \/ Resetting(q)'
               => resetOwner'[rst'[q]] = usr'[q]
          /\ pc'[q] = "reset_deleted" => \A u \in gone'[q] : owner'[u] = usr'[q]
          /\ pc'[q] = "logout_revoked" => tok'[q] \in revoked'
          /\ pc'[q] = "logout_selected" => tok'[q] \in revoked' \cup mine'[q]
    BY <1>5 DEF RefreshCommit, Done
  <2>4. \A p, q \in Requests : p # q => mine'[p] \cap mine'[q] = {}
    BY <1>5 DEF RefreshCommit, Done
  <2> QED BY <2>1, <2>2, <2>3, <2>4
<1>6. ASSUME NEW r \in Requests, RefreshStale(r)
      PROVE  TrackedInv'
  BY <1>6 DEF RefreshStale, store, Done
<1>7. ASSUME NEW r \in Requests, NEW t \in Tokens, LogoutRead(r, t)
      PROVE  TrackedInv'
  BY <1>7 DEF LogoutRead, store, Done
<1>8. ASSUME NEW r \in Requests, LogoutSelect(r)
      PROVE  TrackedInv'
  <2>1. /\ found'[r] <=> tok[r] \in sessions
        /\ \A q \in Requests \ {r} : found'[q] = found[q]
    BY <1>8, FoundIsExact DEF LogoutSelect
  <2> QED BY <1>8, <2>1 DEF LogoutSelect, store, TokenLocked
<1>9. ASSUME NEW r \in Requests, LogoutCommit(r)
      PROVE  TrackedInv'
  BY <1>9 DEF LogoutCommit, store, Done
<1>10. ASSUME NEW r \in Requests, NEW u \in Users, ForgotRead(r, u)
      PROVE  TrackedInv'
  BY <1>10 DEF ForgotRead, store, Done
<1>11. ASSUME NEW r \in Requests, NEW p \in ResetTokens, ForgotCommit(r, p)
      PROVE  TrackedInv'
  BY <1>11 DEF ForgotCommit, store, Done
<1>12. ASSUME NEW r \in Requests, NEW p \in ResetTokens,
             NEW new \in Passwords, ResetRead(r, p, new)
      PROVE  TrackedInv'
  BY <1>12 DEF ResetRead, store, Done
<1>13. ASSUME NEW r \in Requests, ResetFlush(r)
      PROVE  TrackedInv'
  BY <1>13 DEF ResetFlush, store, Done
<1>14. ASSUME NEW r \in Requests, NEW t \in Tokens, ResetRevokeRow(r, t)
      PROVE  TrackedInv'
  BY <1>14 DEF ResetRevokeRow, store, TokenLocked
<1>15. ASSUME NEW r \in Requests, ResetDelete(r)
      PROVE  TrackedInv'
  BY <1>15 DEF ResetDelete, store, Done
<1>16. ASSUME NEW r \in Requests, ResetCommit(r)
      PROVE  TrackedInv'
  BY <1>16 DEF ResetCommit, store, Done
<1>17. ASSUME NEW r \in Requests, Fail(r)
      PROVE  TrackedInv'
  BY <1>17 DEF Fail, store, Done
<1>18. ASSUME NEW t \in Tokens \cup ResetTokens, Expire(t)
       PROVE  TrackedInv'
  BY <1>18 DEF Expire, store, request
<1>19. CASE UNCHANGED vars
  BY <1>19 DEF vars, store, request
<1> QED
  BY <1>1, <1>2, <1>3, <1>4, <1>5, <1>6, <1>7, <1>8, <1>9, <1>10, <1>11, <1>12,
     <1>13, <1>14, <1>15, <1>16, <1>17, <1>18, <1>19
     DEF Next, Receive, Proceed

LEMMA TrackedHolds == Spec => []TrackedInv
<1>1. Init => TrackedInv
  BY DEF Init, TrackedInv, LiveTokenTracked, FoundSessionStays, Live, Issued,
         Resetting
<1> QED
  BY TypeInit, TypeNext, SessionInit, SessionNext, TrackedNext, <1>1, PTL
     DEF Spec

\* However logins, rotations and logouts overlap, every live refresh token of a
\* user who has asked for no reset is tracked by an active session.
THEOREM TrackedUnlessReset == Spec => []LiveTokenTracked
<1>1. TrackedInv => LiveTokenTracked
  BY DEF TrackedInv
<1> QED BY TrackedHolds, <1>1, PTL

\* Nor does a rotation of such a user fail on a session that has vanished.
THEOREM RotationsFindTheirSession == Spec => []FoundSessionStays
<1>1. TrackedInv => FoundSessionStays
  BY DEF TrackedInv
<1> QED BY TrackedHolds, <1>1, PTL
-----------------------------------------------------------------------------
\* Where in a transaction its locks are taken, and that two resets of one user
\* take the users row one after the other.
LockInv ==
    /\ \A r \in Requests :
        /\ mine[r] # {} => pc[r] \in {"refresh_selected", "logout_selected",
                                      "reset_revoking", "reset_deleted"}
        /\ gone[r] # {} => pc[r] = "reset_deleted"
    /\ \A q, r \in Requests :
        q # r /\ Resetting(q) /\ Resetting(r) => usr[q] # usr[r]

LEMMA LockNext ==
    TypeInv /\ SessionInv /\ LockInv /\ [Next]_vars => LockInv'
<1> SUFFICES ASSUME TypeInv, SessionInv, LockInv, [Next]_vars PROVE LockInv'
  OBVIOUS
<1> USE DEF TypeInv, TypeOK, RequestTypeOK, LockInv, Resetting
<1>1. ASSUME NEW r \in Requests, NEW u \in Users, NEW p \in Passwords, LoginCheck(r, u, p)
      PROVE  LockInv'
  BY <1>1 DEF LoginCheck
<1>2. ASSUME NEW r \in Requests, NEW t \in Tokens, LoginCommit(r, t)
      PROVE  LockInv'
  BY <1>2 DEF LoginCommit, Done
<1>3. ASSUME NEW r \in Requests, NEW t \in Tokens, RefreshRead(r, t)
      PROVE  LockInv'
  BY <1>3 DEF RefreshRead
<1>4. ASSUME NEW r \in Requests, RefreshSelect(r)
      PROVE  LockInv'
  BY <1>4 DEF RefreshSelect
<1>5. ASSUME NEW r \in Requests, NEW t \in Tokens, RefreshCommit(r, t)
      PROVE  LockInv'
  BY <1>5 DEF RefreshCommit, Done
<1>6. ASSUME NEW r \in Requests, RefreshStale(r)
      PROVE  LockInv'
  BY <1>6 DEF RefreshStale, Done
<1>7. ASSUME NEW r \in Requests, NEW t \in Tokens, LogoutRead(r, t)
      PROVE  LockInv'
  BY <1>7 DEF LogoutRead
<1>8. ASSUME NEW r \in Requests, LogoutSelect(r)
      PROVE  LockInv'
  BY <1>8 DEF LogoutSelect
<1>9. ASSUME NEW r \in Requests, LogoutCommit(r)
      PROVE  LockInv'
  BY <1>9 DEF LogoutCommit, Done
<1>10. ASSUME NEW r \in Requests, NEW u \in Users, ForgotRead(r, u)
      PROVE  LockInv'
  BY <1>10 DEF ForgotRead
<1>11. ASSUME NEW r \in Requests, NEW p \in ResetTokens, ForgotCommit(r, p)
      PROVE  LockInv'
  BY <1>11 DEF ForgotCommit, Done
<1>12. ASSUME NEW r \in Requests, NEW p \in ResetTokens,
             NEW new \in Passwords, ResetRead(r, p, new)
      PROVE  LockInv'
  BY <1>12 DEF ResetRead
<1>13. ASSUME NEW r \in Requests, ResetFlush(r)
      PROVE  LockInv'
  BY <1>13 DEF ResetFlush, UserLocked
<1>14. ASSUME NEW r \in Requests, NEW t \in Tokens, ResetRevokeRow(r, t)
      PROVE  LockInv'
  BY <1>14 DEF ResetRevokeRow
<1>15. ASSUME NEW r \in Requests, ResetDelete(r)
      PROVE  LockInv'
  BY <1>15 DEF ResetDelete
<1>16. ASSUME NEW r \in Requests, ResetCommit(r)
      PROVE  LockInv'
  BY <1>16 DEF ResetCommit, Done
<1>17. ASSUME NEW r \in Requests, Fail(r)
      PROVE  LockInv'
  BY <1>17 DEF Fail, Done
<1>18. ASSUME NEW t \in Tokens \cup ResetTokens, Expire(t)
       PROVE  LockInv'
  BY <1>18 DEF Expire, request
<1>19. CASE UNCHANGED vars
  BY <1>19 DEF vars, request
<1> QED
  BY <1>1, <1>2, <1>3, <1>4, <1>5, <1>6, <1>7, <1>8, <1>9, <1>10, <1>11, <1>12, <1>13, <1>14, <1>15, <1>16, <1>17, <1>18, <1>19
     DEF Next, Receive, Proceed

\* Whoever is waited for is further on: a session row is held by a request that
\* only has to commit, a token row by one that can wait for a session row alone
\* or by a reset, and a reset waits for no reset.
LEMMA WaitsAhead ==
    ASSUME TypeInv, SessionInv, LockInv,
           NEW r \in Requests, NEW q \in WaitsFor(r)
    PROVE  /\ pc[r] \notin {"reset_deleted", "idle"}
           /\ pc[r] \in {"refresh_selected", "logout_selected"}
                => pc[q] = "reset_deleted"
           /\ pc[r] = "reset_revoking"
                => pc[q] \in {"refresh_selected", "logout_selected", "reset_deleted"}
           /\ pc[q] \in {"refresh_selected", "logout_selected",
                         "reset_revoking", "reset_deleted"}
<1>1. q \in Requests /\ q # r
  BY DEF WaitsFor
<1>2. ASSUME pc[r] = "reset_revoking"
      PROVE  pc[q] # "reset_revoking"
  <2>1. PICK t : t \in seen[r] /\ t \in mine[q]
    BY <1>2 DEF WaitsFor
  <2>2. CASE pc[q] = "reset_revoking"
    <3>1. t \in seen[q]
      BY <2>1, <2>2, <1>1 DEF SessionInv, Resetting
    <3>2. owner[t] = usr[q] /\ owner[t] = usr[r]
      BY <2>1, <3>1, <2>2, <1>1, <1>2 DEF TypeInv, ContextOK, Resetting
    <3> QED BY <3>2, <2>2, <1>1, <1>2 DEF LockInv, Resetting
  <2> QED BY <2>2
<1> QED BY <1>1, <1>2 DEF WaitsFor, LockInv, Resetting

\* However many requests there are, none wait for each other in a circle.
THEOREM LocksAreOrdered == Spec => []NoCircle
<1>1. Init => LockInv
  BY DEF Init, LockInv, Resetting
<1>2. TypeInv /\ SessionInv /\ LockInv => NoCircle
  <2> SUFFICES ASSUME TypeInv, SessionInv, LockInv,
                      NEW S \in SUBSET Requests, S # {},
                      \A r \in S : WaitsFor(r) \cap S # {}
               PROVE  FALSE
    BY DEF NoCircle
  <2>1. ASSUME NEW r \in S PROVE \E q \in S : q \in WaitsFor(r)
    OBVIOUS
  <2>2. \A r \in S : pc[r] # "reset_deleted"
    BY <2>1, WaitsAhead
  <2>3. \A r \in S : pc[r] \notin {"refresh_selected", "logout_selected"}
    BY <2>1, <2>2, WaitsAhead
  <2>4. \A r \in S : pc[r] # "reset_revoking"
    BY <2>1, <2>2, <2>3, WaitsAhead
  <2> QED BY <2>1, <2>2, <2>3, <2>4, WaitsAhead
<1> QED
  BY TypeInit, TypeNext, SessionInit, SessionNext, LockNext, <1>1, <1>2, PTL
     DEF Spec
-----------------------------------------------------------------------------
(* Users whose own requests have not overlapped.                            *)

\* What a request writes belongs to the user it acts for.
LinkInv ==
    \A r \in Requests :
        /\ pc[r] = "forgot_read" => \A p \in seen[r] : resetOwner[p] = usr[r]
        /\ pc[r] = "reset_read" \/ Resetting(r) => resetOwner[rst[r]] = usr[r]

\* The one request of such a user still has what it read: nothing else writes
\* the user's rows.
Undisturbed(r) ==
    /\ pc[r] \in {"refresh_read", "refresh_selected"} => tok[r] \in Live
    /\ pc[r] = "forgot_read" => Outstanding(usr[r]) \subseteq seen[r]
    /\ pc[r] = "reset_read" \/ Resetting(r) => rst[r] \notin used
    /\ Resetting(r) => {t \in Live : owner[t] = usr[r]} \subseteq seen[r]

Kept(u) ==
    /\ \A r \in Requests : usr[r] = u => Undisturbed(r)
    /\ OneSuccessor(u)
    /\ OneOutstanding(u)

AloneInv == \A u \in Users \ raced : ~ Overlaps(u) /\ Kept(u)

LEMMA LinkNext == TypeInv /\ LinkInv /\ [Next]_vars => LinkInv'
<1> SUFFICES ASSUME TypeInv, LinkInv, [Next]_vars PROVE LinkInv'
  OBVIOUS
<1> USE NoneAssumption
    DEF TypeInv, TypeOK, StoreTypeOK, RequestTypeOK, ContextOK, LinkInv,
        Outstanding, Resetting
<1>1. ASSUME NEW r \in Requests, NEW u \in Users, NEW p \in Passwords, LoginCheck(r, u, p)
      PROVE  LinkInv'
  BY <1>1 DEF LoginCheck, store
<1>2. ASSUME NEW r \in Requests, NEW t \in Tokens, LoginCommit(r, t)
      PROVE  LinkInv'
  BY <1>2 DEF LoginCommit, store, Done
<1>3. ASSUME NEW r \in Requests, NEW t \in Tokens, RefreshRead(r, t)
      PROVE  LinkInv'
  BY <1>3 DEF RefreshRead, store
<1>4. ASSUME NEW r \in Requests, RefreshSelect(r)
      PROVE  LinkInv'
  BY <1>4 DEF RefreshSelect, store
<1>5. ASSUME NEW r \in Requests, NEW t \in Tokens, RefreshCommit(r, t)
      PROVE  LinkInv'
  BY <1>5 DEF RefreshCommit, store, Done
<1>6. ASSUME NEW r \in Requests, RefreshStale(r)
      PROVE  LinkInv'
  BY <1>6 DEF RefreshStale, store, Done
<1>7. ASSUME NEW r \in Requests, NEW t \in Tokens, LogoutRead(r, t)
      PROVE  LinkInv'
  BY <1>7 DEF LogoutRead, store
<1>8. ASSUME NEW r \in Requests, LogoutSelect(r)
      PROVE  LinkInv'
  BY <1>8 DEF LogoutSelect, store
<1>9. ASSUME NEW r \in Requests, LogoutCommit(r)
      PROVE  LinkInv'
  BY <1>9 DEF LogoutCommit, store, Done
<1>10. ASSUME NEW r \in Requests, NEW u \in Users, ForgotRead(r, u)
      PROVE  LinkInv'
  BY <1>10 DEF ForgotRead, store
<1>11. ASSUME NEW r \in Requests, NEW p \in ResetTokens, ForgotCommit(r, p)
      PROVE  LinkInv'
  BY <1>11 DEF ForgotCommit, store, Done
<1>12. ASSUME NEW r \in Requests, NEW p \in ResetTokens, NEW new \in Passwords, ResetRead(r, p, new)
      PROVE  LinkInv'
  BY <1>12 DEF ResetRead, store
<1>13. ASSUME NEW r \in Requests, ResetFlush(r)
      PROVE  LinkInv'
  BY <1>13 DEF ResetFlush, store
<1>14. ASSUME NEW r \in Requests, NEW t \in Tokens, ResetRevokeRow(r, t)
      PROVE  LinkInv'
  BY <1>14 DEF ResetRevokeRow, store
<1>15. ASSUME NEW r \in Requests, ResetDelete(r)
      PROVE  LinkInv'
  BY <1>15 DEF ResetDelete, store
<1>16. ASSUME NEW r \in Requests, ResetCommit(r)
      PROVE  LinkInv'
  BY <1>16 DEF ResetCommit, store, Done
<1>17. ASSUME NEW r \in Requests, Fail(r)
      PROVE  LinkInv'
  BY <1>17 DEF Fail, store, Done
<1>18. ASSUME NEW t \in Tokens \cup ResetTokens, Expire(t)
       PROVE  LinkInv'
  BY <1>18 DEF Expire, store, request
<1>19. CASE UNCHANGED vars
  BY <1>19 DEF vars, store, request
<1> QED
  BY <1>1, <1>2, <1>3, <1>4, <1>5, <1>6, <1>7, <1>8, <1>9, <1>10, <1>11, <1>12, <1>13, <1>14, <1>15, <1>16, <1>17, <1>18, <1>19
     DEF Next, Receive, Proceed

LEMMA KeptNext ==
    ASSUME TypeInv, SessionInv, RotationRetires, LinkInv, [Next]_vars,
           NEW u \in Users, ~ Overlaps(u), Kept(u), ~ Overlaps(u)'
    PROVE  Kept(u)'
<1> USE NoneAssumption
    DEF TypeInv, TypeOK, StoreTypeOK, RequestTypeOK, ContextOK, SessionInv,
        RotationRetires, LinkInv, Overlaps, Kept, Undisturbed, OneSuccessor,
        OneOutstanding, Outstanding, Live, Issued, Resetting
<1>1. ASSUME NEW r \in Requests, NEW v \in Users, NEW p \in Passwords, LoginCheck(r, v, p)
      PROVE  Kept(u)'
  BY <1>1 DEF LoginCheck, store
<1>2. ASSUME NEW r \in Requests, NEW t \in Tokens, LoginCommit(r, t)
      PROVE  Kept(u)'
  BY <1>2 DEF LoginCommit, store, Done
<1>3. ASSUME NEW r \in Requests, NEW t \in Tokens, RefreshRead(r, t)
      PROVE  Kept(u)'
  BY <1>3 DEF RefreshRead, store
<1>4. ASSUME NEW r \in Requests, RefreshSelect(r)
      PROVE  Kept(u)'
  BY <1>4 DEF RefreshSelect, store
<1>5. ASSUME NEW r \in Requests, NEW t \in Tokens, RefreshCommit(r, t)
      PROVE  Kept(u)'
  BY <1>5 DEF RefreshCommit, store, Done
<1>6. ASSUME NEW r \in Requests, RefreshStale(r)
      PROVE  Kept(u)'
  BY <1>6 DEF RefreshStale, store, Done
<1>7. ASSUME NEW r \in Requests, NEW t \in Tokens, LogoutRead(r, t)
      PROVE  Kept(u)'
  BY <1>7 DEF LogoutRead, store
<1>8. ASSUME NEW r \in Requests, LogoutSelect(r)
      PROVE  Kept(u)'
  BY <1>8 DEF LogoutSelect, store
<1>9. ASSUME NEW r \in Requests, LogoutCommit(r)
      PROVE  Kept(u)'
  BY <1>9 DEF LogoutCommit, store, Done
<1>10. ASSUME NEW r \in Requests, NEW v \in Users, ForgotRead(r, v)
      PROVE  Kept(u)'
  BY <1>10 DEF ForgotRead, store
<1>11. ASSUME NEW r \in Requests, NEW p \in ResetTokens, ForgotCommit(r, p)
      PROVE  Kept(u)'
  BY <1>11 DEF ForgotCommit, store, Done
<1>12. ASSUME NEW r \in Requests, NEW p \in ResetTokens, NEW new \in Passwords, ResetRead(r, p, new)
      PROVE  Kept(u)'
  BY <1>12 DEF ResetRead, store
<1>13. ASSUME NEW r \in Requests, ResetFlush(r)
      PROVE  Kept(u)'
  BY <1>13 DEF ResetFlush, store
<1>14. ASSUME NEW r \in Requests, NEW t \in Tokens, ResetRevokeRow(r, t)
      PROVE  Kept(u)'
  BY <1>14 DEF ResetRevokeRow, store
<1>15. ASSUME NEW r \in Requests, ResetDelete(r)
      PROVE  Kept(u)'
  BY <1>15 DEF ResetDelete, store
<1>16. ASSUME NEW r \in Requests, ResetCommit(r)
      PROVE  Kept(u)'
  BY <1>16 DEF ResetCommit, store, Done
<1>17. ASSUME NEW r \in Requests, Fail(r)
      PROVE  Kept(u)'
  BY <1>17 DEF Fail, store, Done
<1>18. ASSUME NEW t \in Tokens \cup ResetTokens, Expire(t)
       PROVE  Kept(u)'
  BY <1>18 DEF Expire, store, request
<1>19. CASE UNCHANGED vars
  BY <1>19 DEF vars, store, request
<1> QED
  BY <1>1, <1>2, <1>3, <1>4, <1>5, <1>6, <1>7, <1>8, <1>9, <1>10, <1>11, <1>12, <1>13, <1>14, <1>15, <1>16, <1>17, <1>18, <1>19
     DEF Next, Receive, Proceed

\* What all of this history's theorems rest on.
HistoryInv ==
    TypeInv /\ SessionInv /\ RotationRetires /\ LinkInv /\ AloneInv

LEMMA HistoryStart == HistoryInit => HistoryInv
<1> SUFFICES ASSUME HistoryInit PROVE HistoryInv
  OBVIOUS
<1>1. TypeInv /\ SessionInv
  BY TypeInit, SessionInit DEF HistoryInit
<1>2. RotationRetires /\ LinkInv
  BY DEF HistoryInit, Init, RotationRetires, LinkInv, Resetting
<1>3. AloneInv
  BY NoneAssumption
     DEF HistoryInit, Init, AloneInv, Overlaps, Kept, OneSuccessor,
         OneOutstanding, Outstanding, Issued
<1> QED BY <1>1, <1>2, <1>3 DEF HistoryInv

LEMMA HistoryStep ==
    HistoryInv /\ [HistoryNext]_<<vars, raced>> => HistoryInv'
<1> SUFFICES ASSUME HistoryInv, [HistoryNext]_<<vars, raced>>
             PROVE  HistoryInv'
  OBVIOUS
<1>1. [Next]_vars
  BY DEF HistoryNext
<1>2. TypeInv' /\ SessionInv' /\ LinkInv'
  BY <1>1, TypeNext, SessionNext, LinkNext DEF HistoryInv
<1>3. RotationRetires'
  BY <1>1, RotationNext DEF HistoryInv, SessionInv
<1>4. ASSUME NEW u \in Users \ raced', ~ Overlaps(u)'
      PROVE  Kept(u)'
  <2>1. u \notin raced
    BY DEF HistoryNext
  <2> QED BY <1>1, <1>4, <2>1, KeptNext DEF HistoryInv, AloneInv
<1>5. ASSUME NEW u \in Users \ raced' PROVE ~ Overlaps(u)'
  <2>1. CASE HistoryNext
    BY <2>1 DEF HistoryNext
  <2>2. CASE UNCHANGED <<vars, raced>>
    BY <2>2 DEF HistoryInv, AloneInv, Overlaps, vars, request
  <2> QED BY <2>1, <2>2
<1>6. AloneInv'
  BY <1>4, <1>5 DEF AloneInv
<1> QED BY <1>2, <1>3, <1>6 DEF HistoryInv

\* A user whose own requests do not overlap gets one successor for a token,
\* whatever overlaps for other users.
THEOREM TokensRotateOnce == HistorySpec => []RotatesOnce
<1>1. HistoryInv => RotatesOnce
  BY DEF HistoryInv, AloneInv, Kept, RotatesOnce
<1> QED BY HistoryStart, HistoryStep, <1>1, PTL DEF HistorySpec

\* Such a user has one reset link that works at most.
THEOREM LinksReplaceEachOther == HistorySpec => []OneLinkWorks
<1>1. HistoryInv => OneLinkWorks
  BY DEF HistoryInv, AloneInv, Kept, OneLinkWorks
<1> QED BY HistoryStart, HistoryStep, <1>1, PTL DEF HistorySpec

\* A password changes in the commit of a reset of its user.
LEMMA PasswordStep ==
    ASSUME HistoryInv, [Next]_vars, NEW u \in Users,
           password'[u] # password[u]
    PROVE  \E r \in Requests : ResetCommit(r) /\ usr[r] = u
<1>1. PICK r \in Requests : ResetCommit(r)
  BY DEF Next, Receive, Proceed, LoginCheck, RefreshRead, LogoutRead,
         ForgotRead, ResetRead, LoginCommit, RefreshSelect, RefreshCommit,
         RefreshStale, LogoutSelect, LogoutCommit, ForgotCommit, ResetFlush,
         ResetRevokeRow, ResetDelete, Fail, Expire, store, request, vars
<1>2. usr[r] = u
  BY <1>1 DEF ResetCommit, HistoryInv, TypeInv, TypeOK, StoreTypeOK
<1> QED BY <1>1, <1>2

\* The reset of such a user revokes all its tokens, deletes all its sessions and
\* spends a link that was good until then.
THEOREM ResetsAreComplete == HistorySpec => ResetIsComplete
<1>1. ASSUME HistoryInv, HistoryInv', [Next]_vars,
             NEW u \in Users \ raced
      PROVE  SpendsAToken(u)
  <2> SUFFICES ASSUME password'[u] # password[u]
               PROVE  \E p \in used' \ used : resetOwner[p] = u
    BY DEF SpendsAToken
  <2>1. PICK r \in Requests : ResetCommit(r) /\ usr[r] = u
    BY <1>1, PasswordStep
  <2>2. rst[r] \notin used /\ resetOwner[rst[r]] = u
    BY <1>1, <2>1
       DEF ResetCommit, HistoryInv, AloneInv, Kept, Undisturbed, LinkInv,
           Resetting
  <2> QED BY <2>1, <2>2 DEF ResetCommit
<1>2. ASSUME HistoryInv, HistoryInv', [Next]_vars, NEW u \in Users \ raced,
             NEW r \in Requests, ResetCommit(r), usr[r] = u
      PROVE  EndsEverySession(u)
  <2>1. seen[r] \subseteq revoked'
    BY <1>2, SnapshotStep DEF HistoryInv
  <2>2. owner' = owner /\ revoked \subseteq revoked'
    BY <1>2 DEF ResetCommit
  <2>3. {t \in Live : owner[t] = u} \subseteq seen[r]
    BY <1>2 DEF ResetCommit, HistoryInv, AloneInv, Kept, Undisturbed, Resetting
  <2>4. ASSUME NEW t \in Tokens, owner'[t] = u PROVE t \in revoked'
    BY <2>1, <2>2, <2>3, <2>4, NoneAssumption DEF Live, Issued
  <2>5. sessions' \cap revoked' = {}
    BY <1>2 DEF HistoryInv, SessionInv, SessionTokenLive, Live
  <2> QED BY <2>4, <2>5 DEF EndsEverySession
<1>3. HistoryInv /\ HistoryInv' /\ [HistoryNext]_<<vars, raced>>
        => [\A u \in Users \ raced :
              /\ SpendsAToken(u)
              /\ \A r \in Requests :
                    ResetCommit(r) /\ usr[r] = u => EndsEverySession(u)]_vars
  BY <1>1, <1>2 DEF HistoryNext
<1> QED
  BY HistoryStart, HistoryStep, <1>3, PTL DEF HistorySpec, ResetIsComplete

-----------------------------------------------------------------------------
(* Requests as they are promised: each at one moment, for one user.         *)

Atomic == INSTANCE AtomicSessions

\* The sessions that a reset has deleted are those of its user, and the links
\* that a forgotten password has read are its user's; a logout that has written
\* no token was given one that is revoked.
OwnRowsInv ==
    \A r \in Requests :
        /\ pc[r] = "logout_revoked" => tok[r] \in revoked
        /\ pc[r] = "logout_selected" /\ mine[r] = {} => tok[r] \in revoked
        /\ pc[r] = "reset_deleted" =>
              gone[r] \subseteq {t \in Tokens : owner[t] = usr[r]}
        /\ pc[r] = "forgot_read" =>
              seen[r] \subseteq {p \in ResetTokens : resetOwner[p] = usr[r]}
        /\ pc[r] = "reset_read" \/ Resetting(r) => resetOwner[rst[r]] = usr[r]

\* A row once written keeps its user.
LEMMA OwnersStay ==
    ASSUME TypeInv, [Next]_vars
    PROVE  /\ \A t \in Tokens : owner[t] # None => owner'[t] = owner[t]
           /\ \A p \in ResetTokens :
                 resetOwner[p] # None => resetOwner'[p] = resetOwner[p]
<1> USE DEF TypeInv, TypeOK, StoreTypeOK
<1>1. ASSUME NEW r \in Requests, NEW t \in Tokens,
             LoginCommit(r, t) \/ RefreshCommit(r, t)
      PROVE  /\ resetOwner' = resetOwner
             /\ \A s \in Tokens : owner[s] # None => owner'[s] = owner[s]
  BY <1>1 DEF LoginCommit, RefreshCommit
<1>2. ASSUME NEW r \in Requests, NEW p \in ResetTokens, ForgotCommit(r, p)
      PROVE  /\ owner' = owner
             /\ \A q \in ResetTokens :
                   resetOwner[q] # None => resetOwner'[q] = resetOwner[q]
  BY <1>2 DEF ForgotCommit
<1>3. ASSUME ~ \E r \in Requests, t \in Tokens :
                   LoginCommit(r, t) \/ RefreshCommit(r, t),
             ~ \E r \in Requests, p \in ResetTokens : ForgotCommit(r, p)
      PROVE  UNCHANGED <<owner, resetOwner>>
  BY <1>3 DEF Next, Receive, Proceed, LoginCheck, RefreshRead, LogoutRead,
              ForgotRead, ResetRead, RefreshSelect, RefreshStale, LogoutSelect,
              LogoutCommit, ResetFlush, ResetRevokeRow, ResetDelete,
              ResetCommit, Fail, Expire, store, request, vars
<1> QED BY <1>1, <1>2, <1>3

\* A request comes to one of these places by reading the rows, and stays there
\* with what it knows.
LEMMA OwnRowsNext == TypeInv /\ OwnRowsInv /\ [Next]_vars => OwnRowsInv'
<1> SUFFICES ASSUME TypeInv, OwnRowsInv, [Next]_vars, NEW r \in Requests
             PROVE  /\ pc'[r] = "logout_revoked" => tok'[r] \in revoked'
                    /\ pc'[r] = "logout_selected" /\ mine'[r] = {} =>
                          tok'[r] \in revoked'
                    /\ pc'[r] = "reset_deleted" =>
                          gone'[r] \subseteq {t \in Tokens : owner'[t] = usr'[r]}
                    /\ pc'[r] = "forgot_read" =>
                          seen'[r] \subseteq
                              {p \in ResetTokens : resetOwner'[p] = usr'[r]}
                    /\ pc'[r] = "reset_read" \/ Resetting(r)' =>
                          resetOwner'[rst'[r]] = usr'[r]
  BY DEF OwnRowsInv
<1> DEFINE Same == /\ usr'[r] = usr[r] /\ rst'[r] = rst[r]
                   /\ tok'[r] = tok[r] /\ mine'[r] = mine[r]
                   /\ gone'[r] = gone[r] /\ seen'[r] = seen[r]
           Known == {"idle", "logout_revoked", "logout_selected",
                     "forgot_read", "reset_read", "reset_revoking",
                     "reset_deleted"}
<1>1. \/ pc'[r] = pc[r] /\ Same
      \/ pc'[r] = "idle"
      \/ \E t \in Tokens : ResetRevokeRow(r, t)
      \/ ResetDelete(r) \/ ResetFlush(r)
      \/ \E u \in Users : ForgotRead(r, u)
      \/ \E p \in ResetTokens, new \in Passwords : ResetRead(r, p, new)
      \/ \E t \in Tokens : LogoutRead(r, t)
      \/ LogoutSelect(r)
      \/ pc'[r] \notin Known
  <2> USE DEF TypeInv, TypeOK, RequestTypeOK
  <2>1. ASSUME NEW q \in Requests, Done(q)
        PROVE  pc'[r] = "idle" \/ (pc'[r] = pc[r] /\ Same)
    BY <2>1 DEF Done
  <2>2. ASSUME NEW q \in Requests,
               \/ \E t \in Tokens : LoginCommit(q, t) \/ RefreshCommit(q, t)
               \/ RefreshStale(q) \/ LogoutCommit(q) \/ ResetCommit(q) \/ Fail(q)
               \/ \E p \in ResetTokens : ForgotCommit(q, p)
        PROVE  Done(q)
    BY <2>2 DEF LoginCommit, RefreshCommit, RefreshStale, LogoutCommit,
                ResetCommit, Fail, ForgotCommit
  <2>3. ASSUME NEW q \in Requests,
               \/ \E u \in Users, p \in Passwords : LoginCheck(q, u, p)
               \/ \E t \in Tokens : RefreshRead(q, t)
               \/ RefreshSelect(q)
        PROVE  (pc'[r] = pc[r] /\ Same) \/ pc'[r] \notin Known
    BY <2>3 DEF LoginCheck, RefreshRead, RefreshSelect
  <2>4. ASSUME NEW q \in Requests \ {r},
               \/ \E u \in Users : ForgotRead(q, u)
               \/ \E p \in ResetTokens, new \in Passwords : ResetRead(q, p, new)
               \/ ResetFlush(q) \/ ResetDelete(q) \/ LogoutSelect(q)
               \/ \E t \in Tokens : ResetRevokeRow(q, t) \/ LogoutRead(q, t)
        PROVE  pc'[r] = pc[r] /\ Same
    BY <2>4 DEF ForgotRead, ResetRead, ResetFlush, ResetDelete, ResetRevokeRow,
                LogoutSelect, LogoutRead
  <2>5. ASSUME UNCHANGED vars \/ \E t \in Tokens \cup ResetTokens : Expire(t)
        PROVE  pc'[r] = pc[r] /\ Same
    BY <2>5 DEF vars, request, Expire
  <2> QED BY <2>1, <2>2, <2>3, <2>4, <2>5 DEF Next, Receive, Proceed
<1>2. /\ \A t \in Tokens : owner[t] \in Users => owner'[t] = owner[t]
      /\ \A p \in ResetTokens : resetOwner[p] \in Users =>
                                    resetOwner'[p] = resetOwner[p]
  BY OwnersStay, NoneAssumption
<1>3. /\ pc[r] # "idle" => usr[r] \in Users
      /\ pc[r] = "reset_read" \/ Resetting(r) => rst[r] \in ResetTokens
  BY DEF TypeInv, ContextOK
<1>4. revoked \subseteq revoked'
  BY DEF Next, Receive, Proceed, LoginCheck, RefreshRead, LogoutRead,
         ForgotRead, ResetRead, LoginCommit, RefreshSelect, RefreshCommit,
         RefreshStale, LogoutSelect, LogoutCommit, ForgotCommit, ResetFlush,
         ResetRevokeRow, ResetDelete, ResetCommit, Fail, Expire, store,
         request, vars
<1>5. CASE \E t \in Tokens : LogoutRead(r, t)
  BY <1>5 DEF LogoutRead, Resetting, store, TypeInv, TypeOK, RequestTypeOK,
               StoreTypeOK
<1>6. CASE LogoutSelect(r)
  BY <1>6 DEF LogoutSelect, OwnRowsInv, Resetting, store, TypeInv, TypeOK,
               RequestTypeOK, StoreTypeOK
<1>7. CASE pc'[r] = pc[r] /\ Same
  <2>1. CASE pc[r] = "reset_deleted"
    BY <1>2, <1>3, <1>7, <2>1 DEF OwnRowsInv, Resetting
  <2>2. CASE pc[r] = "forgot_read"
    BY <1>2, <1>3, <1>7, <2>2 DEF OwnRowsInv, Resetting
  <2>3. CASE pc[r] \in {"reset_read", "reset_revoking"}
    BY <1>2, <1>3, <1>7, <2>3 DEF OwnRowsInv, Resetting
  <2>4. CASE pc[r] \in {"logout_revoked", "logout_selected"}
    BY <1>7, <1>4, <2>4 DEF OwnRowsInv, Resetting
  <2> QED BY <1>7, <2>1, <2>2, <2>3, <2>4 DEF Resetting
<1>8. CASE ResetDelete(r) \/ ResetFlush(r) \/ \E t \in Tokens : ResetRevokeRow(r, t)
  BY <1>2, <1>3, <1>8
     DEF OwnRowsInv, ResetDelete, ResetFlush, ResetRevokeRow, Resetting, store,
         TypeInv, TypeOK, RequestTypeOK, StoreTypeOK
<1>9. CASE \E u \in Users : ForgotRead(r, u)
  BY <1>9 DEF ForgotRead, Outstanding, Resetting, store, TypeInv, TypeOK,
              RequestTypeOK, StoreTypeOK
<1>10. CASE \E p \in ResetTokens, new \in Passwords : ResetRead(r, p, new)
  BY <1>10 DEF ResetRead, Resetting, store, TypeInv, TypeOK, RequestTypeOK,
              StoreTypeOK
<1>11. CASE pc'[r] = "idle" \/ pc'[r] \notin Known
  BY <1>11 DEF Resetting
<1> QED BY <1>1, <1>5, <1>6, <1>7, <1>8, <1>9, <1>10, <1>11

\* The commits are the requests of the abstract store; nothing else is visible.
LEMMA StepIsAtomic ==
    ASSUME TypeInv, SessionInv, OwnRowsInv, [Next]_vars
    PROVE  [Atomic!Next]_(Atomic!vars)
<1> USE DEF TypeInv, TypeOK, StoreTypeOK
<1>1. ASSUME NEW r \in Requests, NEW t \in Tokens, LoginCommit(r, t)
      PROVE  Atomic!Next
  <2>1. usr[r] \in Users /\ Atomic!Login(usr[r], t)
    BY <1>1 DEF LoginCommit, ContextOK, Atomic!Login
  <2> QED BY <2>1 DEF Atomic!Next
<1>2. ASSUME NEW r \in Requests, NEW t \in Tokens, RefreshCommit(r, t)
      PROVE  Atomic!Next
  <2>1. usr[r] \in Users /\ tok[r] \in Tokens
    BY <1>2 DEF RefreshCommit, ContextOK, Issued
  <2>2. Atomic!Refresh(usr[r], tok[r], t)
    BY <1>2 DEF RefreshCommit, ContextOK, Issued, Atomic!Refresh,
                Atomic!TokensOf
  <2> QED BY <2>1, <2>2 DEF Atomic!Next
<1>3. ASSUME NEW r \in Requests, LogoutCommit(r)
      PROVE  Atomic!Next
  <2>1. usr[r] \in Users /\ tok[r] \in Tokens /\ owner[tok[r]] = usr[r]
    BY <1>3 DEF LogoutCommit, ContextOK, Issued
  <2>2. mine[r] = {tok[r]} \/ (mine[r] = {} /\ tok[r] \in revoked)
    BY <1>3 DEF LogoutCommit, SessionInv, OwnRowsInv
  <2>3. sessions' = sessions \ {tok[r]}
    BY <1>3 DEF LogoutCommit, SessionInv
  <2>4. Atomic!Logout(usr[r], tok[r])
    BY <1>3, <2>1, <2>2, <2>3 DEF LogoutCommit, Atomic!Logout, Atomic!TokensOf
  <2> QED BY <2>1, <2>4 DEF Atomic!Next
<1>4. ASSUME NEW r \in Requests, NEW p \in ResetTokens, ForgotCommit(r, p)
      PROVE  Atomic!Next
  <2>1. usr[r] \in Users /\ seen[r] \in SUBSET ResetTokens
    BY <1>4 DEF ForgotCommit, ContextOK
  <2>2. Atomic!Forgot(usr[r], p, seen[r])
    BY <1>4 DEF ForgotCommit, OwnRowsInv, Atomic!Forgot, Atomic!LinksOf
  <2> QED BY <2>1, <2>2 DEF Atomic!Next
<1>5. ASSUME NEW r \in Requests, ResetCommit(r)
      PROVE  Atomic!Next
  <2>1. /\ usr[r] \in Users /\ rst[r] \in ResetTokens
        /\ newPassword[r] \in Passwords
        /\ mine[r] \in SUBSET Tokens /\ gone[r] \in SUBSET Tokens
    BY <1>5 DEF ResetCommit, ContextOK, Resetting, RequestTypeOK
  <2>2. /\ mine[r] \subseteq {t \in Tokens : owner[t] = usr[r]}
        /\ mine[r] \cap sessions \subseteq gone[r]
    BY <1>5 DEF ResetCommit, SessionInv, ContextOK, Resetting, Issued
  <2>3. /\ gone[r] \subseteq {t \in Tokens : owner[t] = usr[r]}
        /\ resetOwner[rst[r]] = usr[r]
    BY <1>5 DEF ResetCommit, OwnRowsInv, Resetting
  <2>4. Atomic!Reset(usr[r], rst[r], newPassword[r], mine[r], gone[r])
    BY <1>5, <2>1, <2>2, <2>3
       DEF ResetCommit, Atomic!Reset, Atomic!TokensOf, Atomic!LinksOf
  <2> QED BY <2>1, <2>4 DEF Atomic!Next
<1>6. \/ \E r \in Requests :
            \/ \E t \in Tokens : LoginCommit(r, t) \/ RefreshCommit(r, t)
            \/ LogoutCommit(r) \/ ResetCommit(r)
            \/ \E p \in ResetTokens : ForgotCommit(r, p)
      \/ UNCHANGED store
  BY DEF Next, Receive, Proceed, LoginCheck, RefreshRead, LogoutRead,
         ForgotRead, ResetRead, RefreshSelect, RefreshStale, LogoutSelect,
         ResetFlush, ResetRevokeRow, ResetDelete, Fail, Expire, vars
<1>7. UNCHANGED store => UNCHANGED Atomic!vars
  BY DEF store, Atomic!vars
<1> QED BY <1>1, <1>2, <1>3, <1>4, <1>5, <1>6, <1>7

\* Whatever overlaps, and whichever request fails half-way, the store goes
\* through states that logins, refreshes, logouts, forgotten passwords and
\* resets would produce one at a time, each with all its writes at once and on
\* the rows of its own user (services/auth.py, db/session.py).
THEOREM RequestsAreAtomic == Spec => Atomic!Spec
<1>1. Init => Atomic!Init /\ OwnRowsInv
  BY DEF Init, Atomic!Init, OwnRowsInv, Resetting
<1>2. TypeInv /\ SessionInv /\ OwnRowsInv /\ [Next]_vars
        => [Atomic!Next]_(Atomic!vars)
  BY StepIsAtomic
<1> QED
  BY <1>1, <1>2, TypeInit, TypeNext, SessionInit, SessionNext, OwnRowsNext, PTL
     DEF Spec, Atomic!Spec
=============================================================================
