--------------------------- MODULE Accounts_proofs ---------------------------
(* Theorems about Accounts, for any emails, Google accounts, tokens and      *)
(* requests.                                                                *)
EXTENDS AccountHistory, TLAPS

-----------------------------------------------------------------------------
(* The inductive invariant.                                                 *)

HasInserted == {"signup_inserted", "signup_scanned", "google_inserted"}
Scanned     == {"signup_scanned", "resend_scanned"}

\* What each request knows of the row it is about to write.
RequestOK(r) ==
    /\ pc[r] # "idle" => email[r] \in Emails
    /\ pc[r] \in HasInserted => account[email[r]] = "none"
    /\ pc[r] \in {"resend_read", "resend_scanned"} => account[email[r]] = "password"
    /\ pc[r] \in Scanned => /\ tok[r] \in Tokens
                            /\ owner[tok[r]] = None
                            /\ \A t \in seen[r] : owner[t] = email[r]
    /\ pc[r] \in {"signup_committed", "mailing"} =>
          tok[r] \in Tokens /\ owner[tok[r]] # None
    /\ pc[r] \in {"verify_read", "verify_flushed"} =>
          tok[r] \in mailed /\ owner[tok[r]] = email[r]
    /\ pc[r] \in {"google_unlinked", "google_checked", "google_inserted"} =>
          google[r] \in GoogleIds

\* Two requests never insert one email, nor hold one new token.
Apart(q, r) ==
    /\ pc[q] \in HasInserted /\ pc[r] \in HasInserted => email[q] # email[r]
    /\ pc[q] \in Scanned => tok[q] # tok[r]

RequestInv ==
    /\ \A r \in Requests : RequestOK(r)
    /\ \A q, r \in Requests : q # r => Apart(q, r)

\* A token nobody owns is unused and unmailed; the others are of accounts with
\* a password.
TokensOK ==
    \A t \in Tokens :
        IF owner[t] = None THEN t \notin used /\ t \notin mailed
                           ELSE account[owner[t]] = "password"

NoneUnverified == \A e \in verified : account[e] # "none"

StoreInv ==
    /\ TokensOK
    /\ NoneUnverified
    /\ SeparateAccounts
    /\ VerifiedByOwnLink
    /\ NeverWithoutLink

Inv == TypeOK /\ RequestInv /\ StoreInv

-----------------------------------------------------------------------------
\* A step that writes nothing disturbs nothing that was stored.
LEMMA Unwritten ==
    ASSUME Inv, UNCHANGED <<store, mailed>>
    PROVE  StoreInv'
<1> USE DEF store, users, Inv, StoreInv
<1>1. TokensOK'
  BY DEF TokensOK
<1>2. NoneUnverified'
  BY DEF NoneUnverified
<1>3. SeparateAccounts'
  BY DEF SeparateAccounts
<1>4. VerifiedByOwnLink'
  BY DEF VerifiedByOwnLink
<1>5. NeverWithoutLink'
  BY DEF NeverWithoutLink, Outstanding
<1> QED BY <1>1, <1>2, <1>3, <1>4, <1>5

\* A request that has just ended knows nothing.
LEMMA Ended ==
    ASSUME Inv, NEW r \in Requests, Done(r)
    PROVE  /\ RequestOK(r)'
           /\ \A q \in Requests \ {r} :
                 /\ pc'[q] = pc[q] /\ email'[q] = email[q] /\ google'[q] = google[q]
                 /\ tok'[q] = tok[q] /\ seen'[q] = seen[q]
                 /\ Apart(q, r)' /\ Apart(r, q)'
<1>1. pc'[r] = "idle" /\ tok'[r] = None
  BY DEF Done, Inv, TypeOK
<1>2. RequestOK(r)'
  BY <1>1 DEF RequestOK, HasInserted, Scanned
<1>3. ASSUME NEW q \in Requests \ {r}
      PROVE  /\ pc'[q] = pc[q] /\ email'[q] = email[q] /\ google'[q] = google[q]
             /\ tok'[q] = tok[q] /\ seen'[q] = seen[q]
  BY DEF Done, Inv, TypeOK
<1>4. ASSUME NEW q \in Requests \ {r}
      PROVE  Apart(q, r)' /\ Apart(r, q)'
  <2>1. pc[q] \in Scanned => tok[q] \in Tokens
    BY DEF Inv, RequestInv, RequestOK
  <2> QED BY <1>1, <1>3, <2>1, AccountAssumption DEF Apart, HasInserted, Scanned
<1> QED BY <1>2, <1>3, <1>4

\* A request that has not moved still knows what it knew, as long as its rows
\* are as they were.
LEMMA Unmoved ==
    ASSUME Inv, NEW q \in Requests,
           pc'[q] = pc[q], email'[q] = email[q], google'[q] = google[q],
           tok'[q] = tok[q], seen'[q] = seen[q],
           mailed \subseteq mailed',
           pc[q] \in HasInserted \cup {"resend_read", "resend_scanned"} =>
               account'[email[q]] = account[email[q]],
           pc[q] \in Scanned => owner'[tok[q]] = owner[tok[q]],
           \A t \in Tokens : owner[t] # None => owner'[t] = owner[t]
    PROVE  RequestOK(q)'
<1>1. RequestOK(q)
  BY DEF Inv, RequestInv
<1>2. \A t \in seen[q] : t \in Tokens
  BY DEF Inv, TypeOK
<1>3. mailed \subseteq Tokens
  BY DEF Inv, TypeOK
<1>4. pc[q] \in Scanned => \A t \in seen'[q] : owner'[t] = email'[q]
  <2> SUFFICES ASSUME pc[q] \in Scanned, NEW t \in seen[q]
               PROVE  owner'[t] = email[q]
    OBVIOUS
  <2>1. owner[t] = email[q] /\ email[q] \in Emails
    BY <1>1 DEF RequestOK, Scanned
  <2> QED BY <2>1, <1>2, AccountAssumption
<1>5. pc[q] \in {"verify_read", "verify_flushed"} => owner'[tok[q]] = email[q]
  <2> SUFFICES ASSUME pc[q] \in {"verify_read", "verify_flushed"}
               PROVE  owner'[tok[q]] = email[q]
    OBVIOUS
  <2>1. tok[q] \in Tokens /\ owner[tok[q]] = email[q] /\ email[q] \in Emails
    BY <1>1, <1>3 DEF RequestOK
  <2> QED BY <2>1, AccountAssumption
<1> QED BY <1>1, <1>4, <1>5 DEF RequestOK, HasInserted, Scanned

-----------------------------------------------------------------------------
LEMMA TypeStep == Inv /\ [Next]_vars => TypeOK'
<1> SUFFICES ASSUME Inv, [Next]_vars PROVE TypeOK'
  OBVIOUS
<1>0. TypeOK /\ RequestInv
  BY DEF Inv
<1> USE DEF TypeOK, Places
<1>1. ASSUME NEW r \in Requests, Done(r)
      PROVE  /\ pc' \in [Requests -> Places]
             /\ email' \in [Requests -> Emails \cup {None}]
             /\ google' \in [Requests -> GoogleIds \cup {None}]
             /\ tok' \in [Requests -> Tokens \cup {None}]
             /\ seen' \in [Requests -> SUBSET Tokens]
  BY <1>0, <1>1 DEF Done
<1>2. ASSUME NEW r \in Requests, NEW e \in Emails, SignupCheck(r, e)
      PROVE  TypeOK'
  BY <1>0, <1>2 DEF SignupCheck, store, users
<1>3. ASSUME NEW r \in Requests, NEW e \in Emails, ResendRead(r, e)
      PROVE  TypeOK'
  BY <1>0, <1>3 DEF ResendRead, store, users
<1>4. ASSUME NEW r \in Requests, NEW t \in Tokens, TokenScan(r, t)
      PROVE  TypeOK'
  BY <1>0, <1>4 DEF TokenScan, store, users, Outstanding
<1>5. ASSUME NEW r \in Requests, NEW t \in Tokens, VerifyRead(r, t)
      PROVE  TypeOK'
  BY <1>0, <1>5 DEF VerifyRead, store, users
<1>6. ASSUME NEW r \in Requests, NEW g \in GoogleIds, GoogleRead(r, g)
      PROVE  TypeOK'
  BY <1>0, <1>6, AccountAssumption DEF GoogleRead, store, users
<1>7. ASSUME NEW r \in Requests, \/ SignupInsert(r) \/ SignupFinish(r)
                                 \/ VerifyFlush(r) \/ GoogleCheck(r)
                                 \/ GoogleInsert(r)
      PROVE  TypeOK'
  BY <1>0, <1>7
     DEF SignupInsert, SignupFinish, VerifyFlush, GoogleCheck, GoogleInsert,
         store, users
<1>8. ASSUME NEW r \in Requests, TokenCommit(r)
      PROVE  TypeOK'
  <2>1. email[r] \in Emails /\ tok[r] \in Tokens
    BY <1>0, <1>8 DEF TokenCommit, RequestInv, RequestOK, Scanned
  <2> QED BY <1>0, <1>8, <2>1 DEF TokenCommit
<1>9. ASSUME NEW r \in Requests, Mail(r)
      PROVE  TypeOK'
  <2>1. tok[r] \in Tokens
    BY <1>0, <1>9 DEF Mail, RequestInv, RequestOK
  <2> QED BY <1>0, <1>1, <1>9, <2>1 DEF Mail, store, users
<1>10. ASSUME NEW r \in Requests, VerifyCommit(r)
      PROVE  TypeOK'
  <2>1. email[r] \in Emails /\ tok[r] \in Tokens
    BY <1>0, <1>10 DEF VerifyCommit, RequestInv, RequestOK
  <2> QED BY <1>0, <1>1, <1>10, <2>1 DEF VerifyCommit
<1>11. ASSUME NEW r \in Requests, GoogleCommit(r)
      PROVE  TypeOK'
  <2>1. email[r] \in Emails /\ google[r] \in GoogleIds
    BY <1>0, <1>11 DEF GoogleCommit, RequestInv, RequestOK
  <2> QED BY <1>0, <1>1, <1>11, <2>1 DEF GoogleCommit
<1>12. ASSUME NEW r \in Requests, Refuse(r) \/ Fail(r)
      PROVE  TypeOK'
  BY <1>0, <1>1, <1>12 DEF Refuse, Fail, store, users
<1>13. ASSUME NEW t \in Tokens, Expire(t)
      PROVE  TypeOK'
  BY <1>0, <1>13 DEF Expire, store, users, request
<1>14. CASE UNCHANGED vars
  BY <1>0, <1>14 DEF vars, store, users, request
<1> QED BY <1>2, <1>3, <1>4, <1>5, <1>6, <1>7, <1>8, <1>9, <1>10, <1>11, <1>12,
      <1>13, <1>14 DEF Next

-----------------------------------------------------------------------------
\* A token that is committed is another one for its account, next to those that
\* are retired.
LEMMA TokenCommitStore ==
    ASSUME Inv, NEW r \in Requests, TokenCommit(r)
    PROVE  StoreInv'
<1> DEFINE e == email[r]
           n == tok[r]
<1>0. /\ TypeOK /\ StoreInv
      /\ RequestOK(r)
  BY DEF Inv, RequestInv
<1>1. /\ e \in Emails /\ n \in Tokens /\ owner[n] = None
      /\ account[e] \in {"none", "password"}
      /\ \A t \in seen[r] : owner[t] = e
      /\ e # None
  BY <1>0, AccountAssumption DEF TokenCommit, RequestOK, Scanned, HasInserted
<1>2. /\ account' = [account EXCEPT ![e] = "password"]
      /\ owner' = [owner EXCEPT ![n] = e]
      /\ used' = used \cup seen[r]
      /\ UNCHANGED <<verified, links, mailed>>
  <2>1. pc[r] = "resend_scanned" => account[e] = "password"
    BY <1>0 DEF RequestOK
  <2>2. account \in [Emails -> {"none", "password", "google"}]
    BY <1>0 DEF TypeOK
  <2> QED BY <2>1, <2>2, <1>1 DEF TokenCommit
<1> HIDE DEF e, n
<1>3. /\ n \notin used /\ n \notin mailed /\ n \notin seen[r]
      /\ \A t \in Tokens \ {n} : owner'[t] = owner[t]
      /\ owner'[n] = e
      /\ \A f \in Emails \ {e} : account'[f] = account[f]
      /\ account'[e] = "password"
  BY <1>0, <1>1, <1>2, AccountAssumption DEF StoreInv, TokensOK, TypeOK
<1>4. TokensOK'
  <2> SUFFICES ASSUME NEW t \in Tokens
               PROVE  IF owner'[t] = None THEN t \notin used' /\ t \notin mailed'
                                          ELSE account'[owner'[t]] = "password"
    BY DEF TokensOK
  <2>1. CASE t = n
    BY <2>1, <1>1, <1>3
  <2>2. CASE t # n /\ owner[t] = None
    BY <2>2, <1>0, <1>1, <1>2, <1>3 DEF StoreInv, TokensOK
  <2>3. CASE t # n /\ owner[t] # None
    <3>1. owner[t] \in Emails /\ account[owner[t]] = "password"
      BY <2>3, <1>0 DEF StoreInv, TokensOK, TypeOK
    <3> QED BY <2>3, <3>1, <1>3
  <2> QED BY <2>1, <2>2, <2>3
<1>5. NoneUnverified'
  <2>1. verified \subseteq Emails
    BY <1>0 DEF TypeOK
  <2> QED BY <2>1, <1>0, <1>2, <1>3 DEF StoreInv, NoneUnverified
<1>6. SeparateAccounts'
  <2>1. \A g \in GoogleIds : <<g, e>> \notin links
    BY <1>0, <1>1 DEF StoreInv, SeparateAccounts
  <2>2. ASSUME NEW f \in Emails, f # e, account[f] = "google", NEW t \in Tokens
        PROVE  owner'[t] # f
    BY <2>2, <1>0, <1>3 DEF StoreInv, SeparateAccounts
  <2> QED BY <2>1, <2>2, <1>0, <1>2, <1>3 DEF StoreInv, SeparateAccounts
<1>7. VerifiedByOwnLink'
  <2> SUFFICES ASSUME NEW f \in verified
               PROVE  account'[f] = "google" \/ \E t \in mailed \cap used' : owner'[t] = f
    BY <1>2 DEF VerifiedByOwnLink
  <2>0. f \in Emails /\ mailed \subseteq Tokens
    BY <1>0 DEF TypeOK
  <2>1. CASE \E t \in mailed \cap used : owner[t] = f
    BY <2>0, <2>1, <1>2, <1>3
  <2>2. CASE account[f] = "google"
    BY <2>0, <2>2, <1>1, <1>3
  <2> QED BY <2>1, <2>2, <1>0 DEF StoreInv, VerifiedByOwnLink
<1>8. NeverWithoutLink'
  <2> SUFFICES ASSUME NEW f \in Emails, account'[f] # "none", f \notin verified
               PROVE  \E t \in Tokens : owner'[t] = f /\ t \notin used'
    BY <1>2 DEF NeverWithoutLink, Outstanding
  <2>1. CASE f = e
    BY <2>1, <1>1, <1>2, <1>3
  <2>2. CASE f # e
    <3>1. PICK t \in Tokens : owner[t] = f /\ t \notin used
      BY <2>2, <1>0, <1>3 DEF StoreInv, NeverWithoutLink, Outstanding
    <3>2. t # n /\ t \notin seen[r]
      BY <2>2, <3>1, <1>1, AccountAssumption
    <3> QED BY <3>1, <3>2, <1>2, <1>3
  <2> QED BY <2>1, <2>2
<1> QED BY <1>4, <1>5, <1>6, <1>7, <1>8 DEF StoreInv

\* A mail carries a token that is stored.
LEMMA MailStore ==
    ASSUME Inv, NEW r \in Requests, Mail(r)
    PROVE  StoreInv'
<1>0. /\ StoreInv /\ owner[tok[r]] # None
      /\ mailed' = mailed \cup {tok[r]} /\ UNCHANGED store
  BY DEF Inv, RequestInv, RequestOK, Mail
<1>1. TokensOK'
  BY <1>0 DEF StoreInv, TokensOK, store, users
<1>2. NoneUnverified' /\ SeparateAccounts'
  BY <1>0 DEF StoreInv, NoneUnverified, SeparateAccounts, store, users
<1>3. VerifiedByOwnLink'
  BY <1>0 DEF StoreInv, VerifiedByOwnLink, store, users
<1>4. NeverWithoutLink'
  BY <1>0 DEF StoreInv, NeverWithoutLink, Outstanding, store, users
<1> QED BY <1>1, <1>2, <1>3, <1>4 DEF StoreInv

\* The token that is spent was mailed to the account that it verifies.
LEMMA VerifyCommitStore ==
    ASSUME Inv, NEW r \in Requests, VerifyCommit(r)
    PROVE  StoreInv'
<1> DEFINE e == email[r]
           n == tok[r]
<1>0. TypeOK /\ StoreInv /\ RequestOK(r)
  BY DEF Inv, RequestInv
<1>1. e \in Emails /\ n \in mailed /\ n \in Tokens /\ owner[n] = e /\ e # None
  BY <1>0, AccountAssumption DEF VerifyCommit, RequestOK, TypeOK
<1>2. /\ used' = used \cup {n} /\ verified' = verified \cup {e}
      /\ UNCHANGED <<account, links, owner, mailed>>
  BY DEF VerifyCommit
<1> HIDE DEF e, n
<1>3. account[e] = "password"
  BY <1>0, <1>1 DEF StoreInv, TokensOK
<1>4. TokensOK'
  BY <1>0, <1>1, <1>2 DEF StoreInv, TokensOK
<1>5. NoneUnverified'
  BY <1>0, <1>2, <1>3 DEF StoreInv, NoneUnverified
<1>6. SeparateAccounts'
  BY <1>0, <1>2 DEF StoreInv, SeparateAccounts
<1>7. VerifiedByOwnLink'
  BY <1>0, <1>1, <1>2 DEF StoreInv, VerifiedByOwnLink
<1>8. NeverWithoutLink'
  BY <1>0, <1>1, <1>2 DEF StoreInv, NeverWithoutLink, Outstanding
<1> QED BY <1>4, <1>5, <1>6, <1>7, <1>8 DEF StoreInv

\* An account made by Google is new, verified, linked once and without tokens.
LEMMA GoogleCommitStore ==
    ASSUME Inv, NEW r \in Requests, GoogleCommit(r)
    PROVE  StoreInv'
<1> DEFINE e == email[r]
           g == google[r]
<1>0. TypeOK /\ StoreInv /\ RequestOK(r)
  BY DEF Inv, RequestInv
<1>1. e \in Emails /\ g \in GoogleIds /\ account[e] = "none"
  BY <1>0 DEF GoogleCommit, RequestOK, HasInserted
<1>2. /\ account' = [account EXCEPT ![e] = "google"]
      /\ verified' = verified \cup {e} /\ links' = links \cup {<<g, e>>}
      /\ UNCHANGED <<owner, used, mailed>>
  BY DEF GoogleCommit
<1> HIDE DEF e, g
<1>3. /\ \A f \in Emails \ {e} : account'[f] = account[f]
      /\ account'[e] = "google"
  BY <1>0, <1>1, <1>2 DEF TypeOK
<1>4. \A t \in Tokens : owner[t] \in Emails \cup {None} /\ owner[t] # e
  BY <1>0, <1>1, AccountAssumption DEF StoreInv, TokensOK, TypeOK
<1>5. TokensOK'
  BY <1>0, <1>2, <1>3, <1>4 DEF StoreInv, TokensOK
<1>6. NoneUnverified'
  <2>1. verified \subseteq Emails
    BY <1>0 DEF TypeOK
  <2> QED BY <2>1, <1>0, <1>2, <1>3 DEF StoreInv, NoneUnverified
<1>7. SeparateAccounts'
  <2> SUFFICES ASSUME NEW f \in Emails
               PROVE  LET linked == {h \in GoogleIds : <<h, f>> \in links'} IN
                      IF account'[f] = "google"
                      THEN /\ f \in verified'
                           /\ \E h \in GoogleIds : linked = {h}
                           /\ \A t \in Tokens : owner[t] # f
                      ELSE linked = {}
    BY <1>2 DEF SeparateAccounts
  <2>1. CASE f = e
    <3>1. {h \in GoogleIds : <<h, e>> \in links} = {}
      BY <1>0, <1>1 DEF StoreInv, SeparateAccounts
    <3>2. {h \in GoogleIds : <<h, e>> \in links'} = {g}
      BY <3>1, <1>1, <1>2
    <3> QED BY <2>1, <3>2, <1>1, <1>2, <1>3, <1>4
  <2>2. CASE f # e
    <3>1. {h \in GoogleIds : <<h, f>> \in links'} = {h \in GoogleIds : <<h, f>> \in links}
      BY <2>2, <1>2
    <3> QED BY <2>2, <3>1, <1>0, <1>2, <1>3 DEF StoreInv, SeparateAccounts
  <2> QED BY <2>1, <2>2
<1>8. VerifiedByOwnLink'
  <2>1. verified \subseteq Emails
    BY <1>0 DEF TypeOK
  <2> QED BY <2>1, <1>0, <1>1, <1>2, <1>3 DEF StoreInv, VerifiedByOwnLink
<1>9. NeverWithoutLink'
  BY <1>0, <1>2, <1>3 DEF StoreInv, NeverWithoutLink, Outstanding
<1> QED BY <1>5, <1>6, <1>7, <1>8, <1>9 DEF StoreInv

LEMMA StoreStep == Inv /\ [Next]_vars => StoreInv'
<1> SUFFICES ASSUME Inv, [Next]_vars PROVE StoreInv'
  OBVIOUS
<1>1. CASE \E r \in Requests : TokenCommit(r)
  BY <1>1, TokenCommitStore
<1>2. CASE \E r \in Requests : Mail(r)
  BY <1>2, MailStore
<1>3. CASE \E r \in Requests : VerifyCommit(r)
  BY <1>3, VerifyCommitStore
<1>4. CASE \E r \in Requests : GoogleCommit(r)
  BY <1>4, GoogleCommitStore
<1>5. CASE \/ UNCHANGED vars
           \/ \E t \in Tokens : Expire(t)
           \/ \E r \in Requests :
                \/ \E e \in Emails : SignupCheck(r, e) \/ ResendRead(r, e)
                \/ \E t \in Tokens : TokenScan(r, t) \/ VerifyRead(r, t)
                \/ \E g \in GoogleIds : GoogleRead(r, g)
                \/ SignupInsert(r) \/ SignupFinish(r) \/ VerifyFlush(r)
                \/ GoogleCheck(r) \/ GoogleInsert(r) \/ Refuse(r) \/ Fail(r)
  <2>1. UNCHANGED <<store, mailed>>
    BY <1>5 DEF vars, Expire, SignupCheck, ResendRead, TokenScan, VerifyRead,
                GoogleRead, SignupInsert, SignupFinish, VerifyFlush,
                GoogleCheck, GoogleInsert, Refuse, Fail
  <2> QED BY <2>1, Unwritten
<1> QED BY <1>1, <1>2, <1>3, <1>4, <1>5 DEF Next

-----------------------------------------------------------------------------
\* When r moves, it is enough to look at r, if the rows of the others stay.
LEMMA OneMoves ==
    ASSUME Inv, NEW r \in Requests,
           \A q \in Requests \ {r} :
               /\ pc'[q] = pc[q] /\ email'[q] = email[q] /\ google'[q] = google[q]
               /\ tok'[q] = tok[q] /\ seen'[q] = seen[q]
               /\ RequestOK(q)'
               /\ Apart(q, r)' /\ Apart(r, q)',
           RequestOK(r)'
    PROVE  RequestInv'
<1>1. \A q \in Requests : RequestOK(q)'
  OBVIOUS
<1>2. ASSUME NEW p \in Requests, NEW q \in Requests, p # q
      PROVE  Apart(p, q)'
  <2>1. CASE p = r \/ q = r
    BY <1>2, <2>1
  <2>2. CASE p # r /\ q # r
    <3>1. Apart(p, q)
      BY <1>2 DEF Inv, RequestInv
    <3> QED BY <2>2, <3>1 DEF Apart
  <2> QED BY <2>1, <2>2
<1> QED BY <1>1, <1>2 DEF RequestInv

\* A request that has not moved keeps what it knew when nothing is written.
LEMMA UnmovedQuiet ==
    ASSUME Inv, UNCHANGED <<store, mailed>>, NEW q \in Requests,
           pc'[q] = pc[q], email'[q] = email[q], google'[q] = google[q],
           tok'[q] = tok[q], seen'[q] = seen[q]
    PROVE  RequestOK(q)'
  BY DEF Inv, RequestInv, RequestOK, store, users

\* What a step of r that writes nothing has to show.
LEMMA QuietMove ==
    ASSUME Inv, NEW r \in Requests, UNCHANGED <<store, mailed>>,
           \A q \in Requests \ {r} :
               /\ pc'[q] = pc[q] /\ email'[q] = email[q] /\ google'[q] = google[q]
               /\ tok'[q] = tok[q] /\ seen'[q] = seen[q]
               /\ Apart(q, r)' /\ Apart(r, q)',
           RequestOK(r)'
    PROVE  RequestInv'
  BY UnmovedQuiet, OneMoves

\* A request that has ended leaves the others alone.
LEMMA EndedQuiet ==
    ASSUME Inv, NEW r \in Requests, Done(r), UNCHANGED <<store, mailed>>
    PROVE  RequestInv'
  BY Ended, QuietMove

\* Only its place, and that not to a write, is new for r.
LEMMA Advance ==
    ASSUME Inv, NEW r \in Requests, NEW p \in Places \ (HasInserted \cup Scanned),
           pc' = [pc EXCEPT ![r] = p],
           UNCHANGED <<store, mailed, email, google, tok, seen>>,
           RequestOK(r)'
    PROVE  RequestInv'
<1>1. pc'[r] = p /\ \A q \in Requests \ {r} : pc'[q] = pc[q]
  BY DEF Inv, TypeOK
<1>2. ASSUME NEW q \in Requests \ {r}
      PROVE  Apart(q, r)' /\ Apart(r, q)'
  <2>1. Apart(q, r) /\ Apart(r, q)
    BY DEF Inv, RequestInv
  <2> QED BY <1>1, <2>1 DEF Apart
<1> QED BY <1>1, <1>2, QuietMove

-----------------------------------------------------------------------------
\* A request that starts is told apart by having written nothing.
LEMMA StartStep ==
    ASSUME Inv, NEW r \in Requests,
           \/ \E e \in Emails : SignupCheck(r, e) \/ ResendRead(r, e)
           \/ \E g \in GoogleIds : GoogleRead(r, g)
           \/ \E t \in Tokens : VerifyRead(r, t)
    PROVE  RequestInv'
<1>0. TypeOK /\ StoreInv
  BY DEF Inv
<1>1. UNCHANGED <<store, mailed>>
  BY DEF SignupCheck, ResendRead, GoogleRead, VerifyRead
<1>2. /\ pc'[r] \in {"signup_checked", "resend_read", "google_unlinked", "verify_read"}
      /\ \A q \in Requests \ {r} :
            /\ pc'[q] = pc[q] /\ email'[q] = email[q] /\ google'[q] = google[q]
            /\ tok'[q] = tok[q] /\ seen'[q] = seen[q]
  BY <1>0 DEF TypeOK, SignupCheck, ResendRead, GoogleRead, VerifyRead
<1>3. RequestOK(r)'
  <2>1. ASSUME NEW e \in Emails, SignupCheck(r, e)
        PROVE  RequestOK(r)'
    BY <2>1, <1>0 DEF TypeOK, SignupCheck, RequestOK, HasInserted, Scanned
  <2>2. ASSUME NEW e \in Emails, ResendRead(r, e)
        PROVE  RequestOK(r)'
    <3>1. account[e] = "password"
      BY <2>2, <1>0 DEF ResendRead, StoreInv, SeparateAccounts, TypeOK
    <3> QED BY <2>2, <3>1, <1>0, <1>1
            DEF TypeOK, ResendRead, RequestOK, HasInserted, Scanned, store, users
  <2>3. ASSUME NEW g \in GoogleIds, GoogleRead(r, g)
        PROVE  RequestOK(r)'
    BY <2>3, <1>0, AccountAssumption
       DEF TypeOK, GoogleRead, RequestOK, HasInserted, Scanned
  <2>4. ASSUME NEW t \in Tokens, VerifyRead(r, t)
        PROVE  RequestOK(r)'
    BY <2>4, <1>0, <1>1
       DEF TypeOK, VerifyRead, RequestOK, HasInserted, Scanned, store
  <2> QED BY <2>1, <2>2, <2>3, <2>4
<1>4. ASSUME NEW q \in Requests \ {r}
      PROVE  Apart(q, r)' /\ Apart(r, q)'
  <2>1. pc[q] \in Scanned => tok'[r] # tok[q]
    <3> SUFFICES ASSUME pc[q] \in Scanned
                 PROVE  tok'[r] # tok[q]
      OBVIOUS
    <3>1. Apart(q, r) /\ tok[q] \in Tokens /\ owner[tok[q]] = None
      BY DEF Inv, RequestInv, RequestOK
    <3>2. CASE tok'[r] = tok[r]
      BY <3>1, <3>2 DEF Apart
    <3>3. ASSUME NEW t \in Tokens, VerifyRead(r, t)
          PROVE  tok'[r] # tok[q]
      BY <3>1, <3>3, <1>0 DEF VerifyRead, TypeOK
    <3> QED BY <3>2, <3>3 DEF SignupCheck, ResendRead, GoogleRead
  <2> QED BY <2>1, <1>2 DEF Apart, HasInserted, Scanned
<1> QED BY <1>1, <1>2, <1>3, <1>4, QuietMove

\* An INSERT of a users row finds no other one for its email.
LEMMA InsertStep ==
    ASSUME Inv, NEW r \in Requests, SignupInsert(r) \/ GoogleInsert(r)
    PROVE  RequestInv'
<1>0. TypeOK /\ RequestOK(r)
  BY DEF Inv, RequestInv
<1>1. /\ UNCHANGED <<store, mailed, email, google, tok, seen>>
      /\ account[email[r]] = "none" /\ ~ Inserting(email[r])
      /\ pc'[r] \in {"signup_inserted", "google_inserted"}
      /\ \A q \in Requests \ {r} : pc'[q] = pc[q]
  BY <1>0 DEF SignupInsert, GoogleInsert, TypeOK
<1>2. RequestOK(r)'
  BY <1>0, <1>1 DEF SignupInsert, GoogleInsert, RequestOK, HasInserted, Scanned,
                    store, users, TypeOK
<1>3. ASSUME NEW q \in Requests \ {r}
      PROVE  Apart(q, r)' /\ Apart(r, q)'
  <2>1. Apart(q, r)
    BY DEF Inv, RequestInv
  <2>2. pc[q] \in HasInserted => email[q] # email[r]
    BY <1>1 DEF Inserting, HasInserted
  <2> QED BY <2>1, <2>2, <1>1 DEF Apart, Scanned
<1> QED BY <1>1, <1>2, <1>3, QuietMove

\* A generated token is new, and what was read belongs to the account.
LEMMA ScanStep ==
    ASSUME Inv, NEW r \in Requests, NEW t \in Tokens, TokenScan(r, t)
    PROVE  RequestInv'
<1>0. TypeOK /\ RequestOK(r)
  BY DEF Inv, RequestInv
<1>1. /\ UNCHANGED <<store, mailed, email, google>>
      /\ tok'[r] = t /\ owner[t] = None /\ \A q \in Requests : tok[q] # t
      /\ seen'[r] = Outstanding(email[r])
      /\ \/ pc[r] = "signup_inserted" /\ pc'[r] = "signup_scanned"
         \/ pc[r] = "resend_read" /\ pc'[r] = "resend_scanned"
      /\ \A q \in Requests \ {r} :
            pc'[q] = pc[q] /\ tok'[q] = tok[q] /\ seen'[q] = seen[q]
  BY <1>0 DEF TokenScan, TypeOK
<1>2. RequestOK(r)'
  BY <1>0, <1>1 DEF RequestOK, HasInserted, Scanned, Outstanding, store, users
<1>3. ASSUME NEW q \in Requests \ {r}
      PROVE  Apart(q, r)' /\ Apart(r, q)'
  <2>1. Apart(q, r) /\ Apart(r, q)
    BY DEF Inv, RequestInv
  <2> QED BY <2>1, <1>1 DEF Apart, HasInserted
<1> QED BY <1>1, <1>2, <1>3, QuietMove

\* The rows that a commit of a token writes are in no other request's way.
LEMMA TokenCommitStep ==
    ASSUME Inv, NEW r \in Requests, TokenCommit(r)
    PROVE  RequestInv'
<1>0. TypeOK /\ RequestOK(r) /\ StoreInv
  BY DEF Inv, RequestInv
<1>1. /\ email[r] \in Emails /\ tok[r] \in Tokens /\ owner[tok[r]] = None
      /\ owner' = [owner EXCEPT ![tok[r]] = email[r]]
      /\ UNCHANGED <<mailed, email, google, tok, seen>>
      /\ \/ pc[r] = "signup_scanned" /\ pc'[r] = "signup_committed"
         \/ pc[r] = "resend_scanned" /\ pc'[r] = "mailing"
      /\ \A q \in Requests \ {r} : pc'[q] = pc[q]
  BY <1>0 DEF TokenCommit, TypeOK, RequestOK, Scanned
<1>2. /\ owner'[tok[r]] = email[r]
      /\ \A t \in Tokens : owner[t] # None => owner'[t] = owner[t]
      /\ email[r] # None
  BY <1>0, <1>1, AccountAssumption DEF TypeOK
<1>3. RequestOK(r)'
  BY <1>1, <1>2 DEF RequestOK, HasInserted, Scanned
<1>4. ASSUME NEW q \in Requests \ {r}
      PROVE  RequestOK(q)' /\ Apart(q, r)' /\ Apart(r, q)'
  <2>1. Apart(q, r) /\ Apart(r, q) /\ RequestOK(q)
    BY DEF Inv, RequestInv
  <2>2. pc[q] \in Scanned => owner'[tok[q]] = owner[tok[q]]
    BY <2>1, <1>0, <1>1 DEF Apart, RequestOK, TypeOK
  <2>3. pc[q] \in HasInserted \cup {"resend_read", "resend_scanned"} =>
            account'[email[q]] = account[email[q]]
    <3> SUFFICES ASSUME pc[q] \in HasInserted \cup {"resend_read", "resend_scanned"}
                 PROVE  account'[email[q]] = account[email[q]]
      OBVIOUS
    <3>1. email[q] \in Emails
      BY <2>1 DEF RequestOK, HasInserted
    <3>2. pc[r] = "signup_scanned" => email[q] # email[r]
      BY <2>1, <1>0 DEF Apart, RequestOK, HasInserted
    <3> QED BY <3>1, <3>2, <1>0 DEF TokenCommit, TypeOK
  <2>4. RequestOK(q)'
    BY <2>2, <2>3, <1>1, <1>2, Unmoved
  <2>5. Apart(q, r)' /\ Apart(r, q)'
    BY <2>1, <1>1 DEF Apart, HasInserted, Scanned
  <2> QED BY <2>4, <2>5
<1> QED BY <1>1, <1>3, <1>4, OneMoves

\* A mail, a verification and a new Google account end their request and write
\* no row that another one has read.
LEMMA CommitStep ==
    ASSUME Inv, NEW r \in Requests, Mail(r) \/ VerifyCommit(r) \/ GoogleCommit(r)
    PROVE  RequestInv'
<1>0. TypeOK /\ RequestOK(r)
  BY DEF Inv, RequestInv
<1>1. Done(r) /\ mailed \subseteq mailed' /\ owner' = owner
  BY DEF Mail, VerifyCommit, GoogleCommit, store
<1>2. ASSUME NEW q \in Requests \ {r},
             pc[q] \in HasInserted \cup {"resend_read", "resend_scanned"}
      PROVE  account'[email[q]] = account[email[q]]
  <2>1. CASE Mail(r) \/ VerifyCommit(r)
    BY <2>1 DEF Mail, VerifyCommit, store, users
  <2>2. CASE GoogleCommit(r)
    <3>1. Apart(q, r) /\ RequestOK(q) /\ email[q] \in Emails
      BY <1>2 DEF Inv, RequestInv, RequestOK, HasInserted
    <3>2. email[q] # email[r]
      BY <2>2, <3>1, <1>0, <1>2 DEF GoogleCommit, Apart, RequestOK, HasInserted
    <3> QED BY <2>2, <3>1, <3>2, <1>0 DEF GoogleCommit, TypeOK
  <2> QED BY <2>1, <2>2
<1>3. \A q \in Requests \ {r} : RequestOK(q)'
  BY <1>1, <1>2, Ended, Unmoved
<1> QED BY <1>1, <1>3, Ended, OneMoves

LEMMA RequestStep == Inv /\ [Next]_vars => RequestInv'
<1> SUFFICES ASSUME Inv, [Next]_vars PROVE RequestInv'
  OBVIOUS
<1>0. TypeOK /\ RequestInv
  BY DEF Inv
<1>1. ASSUME NEW r \in Requests, SignupFinish(r)
      PROVE  RequestInv'
  <2>1. RequestOK(r)'
    BY <1>0, <1>1 DEF SignupFinish, RequestInv, RequestOK, HasInserted, Scanned,
                      store, users, TypeOK
  <2> QED BY <1>1, <2>1, Advance DEF SignupFinish, Places, HasInserted, Scanned
<1>2. ASSUME NEW r \in Requests, VerifyFlush(r)
      PROVE  RequestInv'
  <2>1. RequestOK(r)'
    BY <1>0, <1>2 DEF VerifyFlush, RequestInv, RequestOK, HasInserted, Scanned,
                      store, users, TypeOK
  <2> QED BY <1>2, <2>1, Advance DEF VerifyFlush, Places, HasInserted, Scanned
<1>3. ASSUME NEW r \in Requests, GoogleCheck(r)
      PROVE  RequestInv'
  <2>1. RequestOK(r)'
    BY <1>0, <1>3 DEF GoogleCheck, RequestInv, RequestOK, HasInserted, Scanned,
                      store, users, TypeOK
  <2> QED BY <1>3, <2>1, Advance DEF GoogleCheck, Places, HasInserted, Scanned
<1>4. ASSUME NEW r \in Requests, Refuse(r) \/ Fail(r)
      PROVE  RequestInv'
  BY <1>4, EndedQuiet DEF Refuse, Fail
<1>5. CASE UNCHANGED vars \/ \E t \in Tokens : Expire(t)
  <2>1. UNCHANGED <<store, mailed, pc, email, google, tok, seen>>
    BY <1>5 DEF vars, Expire, request
  <2>2. \A q \in Requests : RequestOK(q)'
    BY <2>1, UnmovedQuiet
  <2>3. ASSUME NEW p \in Requests, NEW q \in Requests, p # q
        PROVE  Apart(p, q)'
    BY <2>1, <2>3, <1>0 DEF RequestInv, Apart
  <2> QED BY <2>2, <2>3 DEF RequestInv
<1> QED BY <1>1, <1>2, <1>3, <1>4, <1>5, StartStep, InsertStep, ScanStep,
           TokenCommitStep, CommitStep DEF Next

-----------------------------------------------------------------------------
LEMMA InitInv == Init => Inv
<1> SUFFICES ASSUME Init PROVE Inv
  OBVIOUS
<1> USE AccountAssumption DEF Init
<1>1. TypeOK
  BY DEF TypeOK, Places
<1>2. RequestInv
  BY DEF RequestInv, RequestOK, Apart, HasInserted, Scanned
<1>3. StoreInv
  BY DEF StoreInv, TokensOK, NoneUnverified, SeparateAccounts, VerifiedByOwnLink,
         NeverWithoutLink
<1> QED BY <1>1, <1>2, <1>3 DEF Inv

\* The invariant is inductive.
THEOREM InductiveInvariant == Spec => []Inv
<1>1. Inv /\ [Next]_vars => Inv'
  BY TypeStep, RequestStep, StoreStep DEF Inv
<1> QED BY InitInv, <1>1, PTL DEF Spec

\* Every variable keeps its type (services/verification_service.py).
THEOREM TypeCorrect == Spec => []TypeOK
<1>1. Inv => TypeOK
  BY DEF Inv
<1> QED BY InductiveInvariant, <1>1, PTL

\* An email has one account, made by a signup or by Google and never both, and
\* only the latter has a link, exactly one (create_user, find_or_create_user).
THEOREM AccountsStaySeparate == Spec => []SeparateAccounts
<1>1. Inv => SeparateAccounts
  BY DEF Inv, StoreInv
<1> QED BY InductiveInvariant, <1>1, PTL

\* Nobody is verified by a link mailed to someone else (verify_email).
THEOREM OwnLinkVerifies == Spec => []VerifiedByOwnLink
<1>1. Inv => VerifiedByOwnLink
  BY DEF Inv, StoreInv
<1> QED BY InductiveInvariant, <1>1, PTL

\* Whatever resends, signups and verifications overlap or fail, an unverified
\* account has a link that is not spent (create_verification_token).
THEOREM LinkRemains == Spec => []NeverWithoutLink
<1>1. Inv => NeverWithoutLink
  BY DEF Inv, StoreInv
<1> QED BY InductiveInvariant, <1>1, PTL

\* A mail never carries a token that is not stored (create_verification_token).
THEOREM MailsAreStored == Spec => []MailedIsStored
<1>1. Inv => MailedIsStored
  BY DEF Inv, TypeOK, StoreInv, TokensOK, MailedIsStored
<1> QED BY InductiveInvariant, <1>1, PTL

-----------------------------------------------------------------------------
(* Accounts whose own requests have not overlapped.                         *)

\* The one request of such an account has read every outstanding link.
Kept(e) ==
    /\ \A r \in Requests :
          email[r] = e /\ pc[r] \in Scanned => Outstanding(e) \subseteq seen[r]
    /\ OneOutstanding(e)

AloneInv == \A e \in Emails \ raced : ~ Overlaps(e) /\ Kept(e)

LEMMA KeptNext ==
    ASSUME Inv, [Next]_vars, NEW e \in Emails,
           ~ Overlaps(e), Kept(e), ~ Overlaps(e)'
    PROVE  Kept(e)'
<1> USE AccountAssumption
    DEF Inv, TypeOK, RequestInv, RequestOK, Kept, Overlaps, OneOutstanding,
        Outstanding, Scanned
<1>1. ASSUME NEW r \in Requests, NEW t \in Tokens, TokenScan(r, t)
      PROVE  Kept(e)'
  BY <1>1 DEF TokenScan, store
<1>2. ASSUME NEW r \in Requests, TokenCommit(r)
      PROVE  Kept(e)'
  BY <1>2 DEF TokenCommit
<1>3. ASSUME NEW r \in Requests, VerifyCommit(r)
      PROVE  Kept(e)'
  BY <1>3 DEF VerifyCommit, Done
<1>4. ASSUME NEW r \in Requests, GoogleCommit(r)
      PROVE  Kept(e)'
  BY <1>4 DEF GoogleCommit, Done
<1>5. ASSUME NEW r \in Requests, NEW f \in Emails,
             SignupCheck(r, f) \/ ResendRead(r, f)
      PROVE  Kept(e)'
  BY <1>5 DEF SignupCheck, ResendRead, store
<1>6. ASSUME NEW r \in Requests, NEW t \in Tokens, VerifyRead(r, t)
      PROVE  Kept(e)'
  BY <1>6 DEF VerifyRead, store
<1>7. ASSUME NEW r \in Requests, NEW g \in GoogleIds, GoogleRead(r, g)
      PROVE  Kept(e)'
  BY <1>7 DEF GoogleRead, store
<1>8. ASSUME NEW r \in Requests,
             \/ SignupInsert(r) \/ SignupFinish(r) \/ VerifyFlush(r)
             \/ GoogleCheck(r) \/ GoogleInsert(r)
      PROVE  Kept(e)'
  BY <1>8 DEF SignupInsert, SignupFinish, VerifyFlush, GoogleCheck,
              GoogleInsert, store
<1>9. ASSUME NEW r \in Requests, Mail(r) \/ Refuse(r) \/ Fail(r)
      PROVE  Kept(e)'
  BY <1>9 DEF Mail, Refuse, Fail, Done, store
<1>10. ASSUME NEW t \in Tokens, Expire(t)
      PROVE  Kept(e)'
  BY <1>10 DEF Expire, store, request
<1>11. CASE UNCHANGED vars
  BY <1>11 DEF vars, store, request
<1> QED BY <1>1, <1>2, <1>3, <1>4, <1>5, <1>6, <1>7, <1>8, <1>9, <1>10, <1>11
           DEF Next

LEMMA AloneNext ==
    Inv /\ AloneInv /\ [HistoryNext]_<<vars, raced>> => AloneInv'
<1> SUFFICES ASSUME Inv, AloneInv, [HistoryNext]_<<vars, raced>>,
                    NEW e \in Emails \ raced'
             PROVE  ~ Overlaps(e)' /\ Kept(e)'
  BY DEF AloneInv
<1>1. e \notin raced /\ [Next]_vars
  BY DEF HistoryNext
<1>2. ~ Overlaps(e)'
  BY DEF HistoryNext, AloneInv, Overlaps, vars, request
<1> QED BY <1>1, <1>2, KeptNext DEF AloneInv

\* An account whose own requests come one after another has one outstanding
\* link at most, whatever overlaps for the other accounts.
THEOREM LinksReplaceEachOther == HistorySpec => []OneActiveLink
<1>1. HistoryInit => Inv /\ AloneInv
  <2>1. Init => \A e \in Emails : ~ Overlaps(e) /\ Kept(e)
    BY AccountAssumption
       DEF Init, Overlaps, Kept, OneOutstanding, Outstanding, Scanned
  <2> QED BY <2>1, InitInv DEF HistoryInit, AloneInv
<1>2. Inv /\ AloneInv /\ [HistoryNext]_<<vars, raced>> => Inv' /\ AloneInv'
  <2>1. [HistoryNext]_<<vars, raced>> => [Next]_vars
    BY DEF HistoryNext
  <2>2. Inv /\ [Next]_vars => Inv'
    BY TypeStep, RequestStep, StoreStep DEF Inv
  <2> QED BY <2>1, <2>2, AloneNext
<1>3. AloneInv => OneActiveLink
  BY DEF AloneInv, Kept, OneActiveLink
<1> QED BY <1>1, <1>2, <1>3, PTL DEF HistorySpec

-----------------------------------------------------------------------------
(* Requests as they are promised: each at one moment, on one account.       *)

Atomic == INSTANCE AtomicAccounts

\* A callback acts on the account of its profile's email, and a signup has read
\* no link, since there was none.
OwnRequestInv ==
    \A r \in Requests :
        /\ pc[r] \in {"google_unlinked", "google_checked", "google_inserted"} =>
              email[r] = EmailOf[google[r]]
        /\ pc[r] = "signup_scanned" => seen[r] = {}

\* A request gets there from a place where it knew as much, or by reading it.
LEMMA OwnRequestNext == Inv /\ OwnRequestInv /\ [Next]_vars => OwnRequestInv'
<1> SUFFICES ASSUME Inv, OwnRequestInv, [Next]_vars, NEW r \in Requests
             PROVE  /\ pc'[r] \in {"google_unlinked", "google_checked",
                                   "google_inserted"} =>
                          email'[r] = EmailOf[google'[r]]
                    /\ pc'[r] = "signup_scanned" => seen'[r] = {}
  BY DEF OwnRequestInv
<1> USE DEF Inv, TypeOK
<1> DEFINE Googling == {"google_unlinked", "google_checked", "google_inserted"}
           Same == email'[r] = email[r] /\ google'[r] = google[r] /\ seen'[r] = seen[r]
           Fine == \/ pc'[r] = pc[r] /\ Same
                   \/ pc'[r] \notin Googling \cup {"signup_scanned"}
<1>1. ASSUME NEW q \in Requests, Done(q)
      PROVE  Fine
  BY <1>1 DEF Done
<1>2. ASSUME NEW q \in Requests,
             \/ \E e \in Emails : SignupCheck(q, e) \/ ResendRead(q, e)
             \/ \E t \in Tokens : VerifyRead(q, t)
             \/ SignupInsert(q) \/ TokenCommit(q) \/ SignupFinish(q)
             \/ VerifyFlush(q)
      PROVE  Fine
  BY <1>2 DEF SignupCheck, ResendRead, VerifyRead, SignupInsert, TokenCommit,
              SignupFinish, VerifyFlush
<1>3. ASSUME NEW q \in Requests,
             Mail(q) \/ VerifyCommit(q) \/ GoogleCommit(q) \/ Refuse(q) \/ Fail(q)
      PROVE  Done(q)
  BY <1>3 DEF Mail, VerifyCommit, GoogleCommit, Refuse, Fail
<1>4. ASSUME NEW q \in Requests \ {r},
             \/ \E t \in Tokens : TokenScan(q, t)
             \/ \E g \in GoogleIds : GoogleRead(q, g)
             \/ GoogleCheck(q) \/ GoogleInsert(q)
      PROVE  Fine
  BY <1>4 DEF TokenScan, GoogleRead, GoogleCheck, GoogleInsert
<1>5. ASSUME UNCHANGED vars \/ \E t \in Tokens : Expire(t)
      PROVE  Fine
  BY <1>5 DEF vars, request, Expire
<1>6. CASE Fine
  BY <1>6 DEF OwnRequestInv
<1>7. CASE \E t \in Tokens : TokenScan(r, t)
  <2>1. PICK t \in Tokens : TokenScan(r, t)
    BY <1>7
  <2>2. CASE pc[r] = "signup_inserted"
    <3>1. account[email[r]] = "none" /\ email[r] \in Emails
      BY <2>2 DEF RequestInv, RequestOK, HasInserted
    <3>2. Outstanding(email[r]) = {}
      BY <3>1, AccountAssumption DEF StoreInv, TokensOK, Outstanding
    <3> QED BY <2>1, <2>2, <3>2 DEF TokenScan
  <2>3. CASE pc[r] = "resend_read"
    BY <2>1, <2>3 DEF TokenScan
  <2> QED BY <2>1, <2>2, <2>3 DEF TokenScan
<1>8. CASE \E g \in GoogleIds : GoogleRead(r, g)
  BY <1>8 DEF GoogleRead
<1>9. CASE GoogleCheck(r) \/ GoogleInsert(r)
  BY <1>9 DEF GoogleCheck, GoogleInsert, OwnRequestInv
<1> HIDE DEF Inv, TypeOK, Fine
<1> QED BY <1>1, <1>2, <1>3, <1>4, <1>5, <1>6, <1>7, <1>8, <1>9 DEF Next

\* The commits are the requests of the abstract store; nothing else is visible.
LEMMA StepIsAtomic ==
    ASSUME Inv, OwnRequestInv, [Next]_vars
    PROVE  [Atomic!Next]_(Atomic!vars)
<1> USE DEF Inv, TypeOK
<1>1. ASSUME NEW r \in Requests, TokenCommit(r)
      PROVE  Atomic!Next
  <2>1. /\ email[r] \in Emails /\ tok[r] \in Tokens /\ owner[tok[r]] = None
        /\ seen[r] \in SUBSET Tokens
        /\ \A t \in seen[r] : owner[t] = email[r]
    BY <1>1 DEF TokenCommit, RequestInv, RequestOK, Scanned
  <2>2. CASE pc[r] = "signup_scanned"
    <3>1. account[email[r]] = "none" /\ seen[r] = {}
      BY <2>2 DEF RequestInv, RequestOK, HasInserted, OwnRequestInv
    <3>2. Atomic!SignUp(email[r], tok[r])
      BY <1>1, <2>1, <2>2, <3>1
         DEF TokenCommit, Atomic!SignUp, Atomic!Issue
    <3> QED BY <2>1, <3>2 DEF Atomic!Next
  <2>3. CASE pc[r] = "resend_scanned"
    <3>1. account[email[r]] = "password" /\ account' = account
      BY <1>1, <2>1, <2>3 DEF RequestInv, RequestOK, TokenCommit
    <3>2. Atomic!Resend(email[r], tok[r], seen[r])
      BY <1>1, <2>1, <2>3, <3>1
         DEF TokenCommit, Atomic!Resend, Atomic!Issue, Atomic!TokensOf
    <3> QED BY <2>1, <3>2 DEF Atomic!Next
  <2> QED BY <1>1, <2>2, <2>3 DEF TokenCommit
<1>2. ASSUME NEW r \in Requests, VerifyCommit(r)
      PROVE  Atomic!Next
  <2>1. email[r] \in Emails /\ tok[r] \in Tokens /\ owner[tok[r]] = email[r]
    BY <1>2 DEF VerifyCommit, RequestInv, RequestOK
  <2>2. account[email[r]] = "password"
    BY <2>1, AccountAssumption DEF StoreInv, TokensOK
  <2>3. Atomic!Verify(email[r], tok[r])
    BY <1>2, <2>1, <2>2 DEF VerifyCommit, Atomic!Verify, Atomic!TokensOf
  <2> QED BY <2>1, <2>3 DEF Atomic!Next
<1>3. ASSUME NEW r \in Requests, GoogleCommit(r)
      PROVE  Atomic!Next
  <2>1. /\ google[r] \in GoogleIds /\ email[r] = EmailOf[google[r]]
        /\ account[email[r]] = "none"
    BY <1>3 DEF GoogleCommit, RequestInv, RequestOK, HasInserted, OwnRequestInv
  <2>2. Atomic!Google(google[r])
    BY <1>3, <2>1 DEF GoogleCommit, Atomic!Google
  <2> QED BY <2>1, <2>2 DEF Atomic!Next
<1>4. \/ \E r \in Requests : TokenCommit(r) \/ VerifyCommit(r) \/ GoogleCommit(r)
      \/ UNCHANGED store
  BY DEF Next, SignupCheck, ResendRead, TokenScan, VerifyRead, GoogleRead,
         SignupInsert, SignupFinish, Mail, VerifyFlush, GoogleCheck,
         GoogleInsert, Refuse, Fail, Expire, vars
<1>5. UNCHANGED store => UNCHANGED Atomic!vars
  BY DEF store, users, Atomic!vars
<1> QED BY <1>1, <1>2, <1>3, <1>4, <1>5

\* Whatever overlaps, and whichever request fails half-way, the tables go
\* through states that signups, resends, verifications and Google callbacks
\* would produce one at a time, each with all its writes at once and on its own
\* account (create_user, create_verification_token, find_or_create_user).
THEOREM RequestsAreAtomic == Spec => Atomic!Spec
<1>1. Init => Atomic!Init /\ OwnRequestInv
  BY DEF Init, Atomic!Init, OwnRequestInv
<1>2. Inv /\ OwnRequestInv /\ [Next]_vars => [Atomic!Next]_(Atomic!vars)
  BY StepIsAtomic
<1>3. Inv /\ OwnRequestInv /\ [Next]_vars => OwnRequestInv'
  BY OwnRequestNext
<1> QED
  BY <1>1, <1>2, <1>3, InductiveInvariant, PTL DEF Spec, Atomic!Spec
=============================================================================
