------------------------- MODULE Onboarding_proofs -------------------------
(* Theorems about AccessTokens, and about the handlers of Onboarding that    *)
(* run in the requests it admits, for any tokens, requests and times.        *)
EXTENDS OnboardingHistory, TLAPS

-----------------------------------------------------------------------------
(* Seconds and ticks.                                                       *)

\* Whole seconds, rounded down, are not more than the ticks they come from.
LEMMA RoundedDown ==
    ASSUME NEW n \in Nat, NEW t \in Nat \ {0}
    PROVE  n \div t \in Nat /\ (n \div t) * t <= n
OBVIOUS

\* A TTL worked out at tick n reaches to the end of second e at least.
LEMMA ReachesTheEnd ==
    ASSUME NEW n \in Nat, NEW t \in Nat \ {0}, NEW e \in Nat
    PROVE  (e - n \div t) * t + n >= e * t
<1> DEFINE s == n \div t
<1>1. s \in Nat /\ s * t <= n
  BY RoundedDown
<1> HIDE DEF s
<1>2. (e - s) * t = e * t - s * t
  BY <1>1
<1>3. e * t \in Int /\ s * t \in Int
  BY <1>1
<1>4. (e - s) * t + n >= e * t
  BY <1>1, <1>2, <1>3
<1> QED BY <1>4 DEF s

-----------------------------------------------------------------------------
\* The key of a closed token lasts until the token expires: it is stored with
\* a time that reached to the end when it was worked out, and nothing shortens
\* it.  So a look-up that misses it comes after the expiry.
KeyInv ==
    /\ \A k \in closed : /\ exp[k] > 0
                         /\ Expired(k) \/ keyEnds[k] >= exp[k] * TicksPerSecond
    /\ \A r \in Requests :
        /\ pc[r] # "idle" => tok[r] \in Tokens /\ exp[tok[r]] > 0
        /\ pc[r] = "logged_out" =>
              ttl[r] * TicksPerSecond + now >= exp[tok[r]] * TicksPerSecond
        /\ late[r] => pc[r] = "checked" /\ Expired(tok[r])

TokenInv == TypeOK /\ KeyInv

LEMMA InitToken == Init => TokenInv
BY DEF Init, TokenInv, TypeOK, KeyInv

\* A flag of one request is set to a truth value, and the others keep theirs.
LEMMA FlagSet ==
    ASSUME NEW r \in Requests, late \in [Requests -> BOOLEAN],
           NEW b \in BOOLEAN, late' = [late EXCEPT ![r] = b]
    PROVE  /\ late' \in [Requests -> BOOLEAN]
           /\ late'[r] = b
           /\ \A q \in Requests \ {r} : late'[q] = late[q]
BY Zenon

\* The end of a request, whatever else a step does to the keys.
LEMMA DoneToken ==
    ASSUME TokenInv, NEW r \in Requests, Done(r),
           now' = now, exp' = exp, keyEnds' \in [Tokens -> Nat], closed' \subseteq Tokens,
           \A k \in closed' : /\ exp[k] > 0
                              /\ Expired(k) \/ keyEnds'[k] >= exp[k] * TicksPerSecond
    PROVE  TokenInv'
<1>1. /\ late' \in [Requests -> BOOLEAN]
      /\ late'[r] = FALSE
      /\ \A q \in Requests \ {r} : late'[q] = late[q]
  BY FlagSet DEF TokenInv, TypeOK, Done
<1>2. TypeOK'
  BY <1>1 DEF TokenInv, TypeOK, Done
<1>3. ASSUME NEW q \in Requests
      PROVE  /\ pc'[q] # "idle" => tok'[q] \in Tokens /\ exp'[tok'[q]] > 0
             /\ pc'[q] = "logged_out" =>
                   ttl'[q] * TicksPerSecond + now' >= exp'[tok'[q]] * TicksPerSecond
             /\ late'[q] => pc'[q] = "checked" /\ Expired(tok[q]) /\ tok'[q] = tok[q]
  <2>1. CASE q = r
    BY <2>1, <1>1 DEF TokenInv, TypeOK, Done
  <2>2. CASE q # r
    <3>1. pc'[q] = pc[q] /\ tok'[q] = tok[q] /\ ttl'[q] = ttl[q]
      BY <2>2 DEF TokenInv, TypeOK, Done
    <3> QED BY <3>1, <2>2, <1>1 DEF TokenInv, KeyInv
  <2> QED BY <2>1, <2>2
<1>4. KeyInv'
  BY <1>3 DEF KeyInv, Expired
<1> QED BY <1>2, <1>4 DEF TokenInv

LEMMA IssueToken ==
    ASSUME TokenInv, NEW k \in Tokens, Issue(k)
    PROVE  TokenInv'
<1>1. Second \in Nat /\ Lifetime \in Nat
  BY TokenAssumption, RoundedDown DEF TokenInv, TypeOK, Second
<1>2. TypeOK'
  BY <1>1 DEF TokenInv, TypeOK, Issue
<1>3. \A j \in Tokens : exp[j] > 0 => exp'[j] = exp[j]
  BY DEF TokenInv, TypeOK, Issue
<1>4. KeyInv'
  BY <1>3 DEF TokenInv, TypeOK, KeyInv, Issue, Expired
<1> QED BY <1>2, <1>4 DEF TokenInv

\* The look-up: an answer that misses the key of a closed token comes after
\* the token has expired.
LEMMA CheckToken ==
    ASSUME TokenInv, NEW r \in Requests, NEW k \in Tokens, Check(r, k)
    PROVE  TokenInv'
<1>1. /\ late' \in [Requests -> BOOLEAN]
      /\ late'[r] = (k \in closed)
      /\ \A q \in Requests \ {r} : late'[q] = late[q]
  BY FlagSet DEF TokenInv, TypeOK, Check
<1>2. TypeOK'
  BY <1>1 DEF TokenInv, TypeOK, Check
<1>3. k \in closed => Expired(k)
  <2>1. keyEnds[k] <= now
    BY DEF Check, Blacklisted, TokenInv, TypeOK
  <2>2. exp[k] * TicksPerSecond \in Int
    BY TokenAssumption DEF TokenInv, TypeOK
  <2> QED BY <2>1, <2>2 DEF TokenInv, KeyInv, TypeOK, Expired
<1>4. ASSUME NEW q \in Requests
      PROVE  /\ pc'[q] # "idle" => tok'[q] \in Tokens /\ exp[tok'[q]] > 0
             /\ pc'[q] = "logged_out" =>
                   ttl'[q] * TicksPerSecond + now >= exp[tok'[q]] * TicksPerSecond
             /\ late'[q] => pc'[q] = "checked" /\ Expired(tok'[q])
  <2>1. CASE q = r
    BY <2>1, <1>1, <1>3 DEF TokenInv, TypeOK, Check, Issued
  <2>2. CASE q # r
    <3>1. pc'[q] = pc[q] /\ tok'[q] = tok[q] /\ ttl'[q] = ttl[q]
      BY <2>2 DEF TokenInv, TypeOK, Check
    <3> QED BY <3>1, <2>2, <1>1 DEF TokenInv, KeyInv
  <2> QED BY <2>1, <2>2
<1>5. KeyInv'
  BY <1>4 DEF KeyInv, Expired, Check, TokenInv
<1> QED BY <1>2, <1>5 DEF TokenInv

\* Steps of a request that only move it on, none of them from a look-up that
\* was late to a handler.
LEMMA MoveToken ==
    ASSUME TokenInv, NEW r \in Requests,
           NEW k \in Tokens, exp[k] > 0, NEW to \in {"checked", "serving"},
           pc' = [pc EXCEPT ![r] = to], tok' = [tok EXCEPT ![r] = k],
           ~ late[r],
           UNCHANGED <<now, exp, keyEnds, closed, ttl, late>>
    PROVE  TokenInv'
<1>1. TypeOK'
  BY DEF TokenInv, TypeOK
<1>2. KeyInv'
  BY DEF TokenInv, TypeOK, KeyInv, Expired
<1> QED BY <1>1, <1>2 DEF TokenInv

\* What logout works out covers the rest of the token's life.
LEMMA LogoutCommitToken ==
    ASSUME TokenInv, NEW r \in Requests, NEW k \in Tokens, LogoutCommit(r, k)
    PROVE  TokenInv'
<1>1. Second \in Nat /\ exp[k] \in Nat /\ exp[k] > 0 /\ now \in Nat
  BY TokenAssumption, RoundedDown DEF TokenInv, TypeOK, Second, LogoutCommit, Issued
<1>2. TypeOK'
  BY <1>1 DEF TokenInv, TypeOK, LogoutCommit
<1>3. (exp[k] - Second) * TicksPerSecond + now >= exp[k] * TicksPerSecond
  BY <1>1, TokenAssumption, ReachesTheEnd DEF Second
<1>4. ttl'[r] = exp[k] - Second /\ tok'[r] = k /\ pc'[r] = "logged_out" /\ ~ late'[r]
  BY DEF TokenInv, TypeOK, KeyInv, LogoutCommit
<1>5. ASSUME NEW q \in Requests
      PROVE  /\ pc'[q] # "idle" => tok'[q] \in Tokens /\ exp[tok'[q]] > 0
             /\ pc'[q] = "logged_out" =>
                   ttl'[q] * TicksPerSecond + now >= exp[tok'[q]] * TicksPerSecond
             /\ late'[q] => pc'[q] = "checked" /\ Expired(tok'[q])
  <2>1. CASE q = r
    BY <2>1, <1>1, <1>3, <1>4
  <2>2. CASE q # r
    <3>1. /\ pc'[q] = pc[q] /\ tok'[q] = tok[q] /\ ttl'[q] = ttl[q]
          /\ late'[q] = late[q]
      BY <2>2 DEF TokenInv, TypeOK, LogoutCommit
    <3> QED BY <3>1 DEF TokenInv, KeyInv
  <2> QED BY <2>1, <2>2
<1>6. KeyInv'
  BY <1>5 DEF KeyInv, Expired, LogoutCommit, TokenInv
<1> QED BY <1>2, <1>6 DEF TokenInv

\* The key is stored until then, or there was nothing left of the token.
LEMMA BlacklistToken ==
    ASSUME TokenInv, NEW r \in Requests, Blacklist(r)
    PROVE  TokenInv'
<1> DEFINE k == tok[r]
           rest == ttl[r] * TicksPerSecond
           end == exp[k] * TicksPerSecond
<1>1. /\ k \in Tokens /\ exp[k] \in Nat /\ exp[k] > 0 /\ ttl[r] \in Int
      /\ now \in Nat /\ TicksPerSecond \in Nat \ {0} /\ rest + now >= end
  BY TokenAssumption DEF TokenInv, TypeOK, KeyInv, Blacklist
<1>2. /\ rest \in Int /\ end \in Int
      /\ ttl[r] > 0 => rest > 0
      /\ ~ (ttl[r] > 0) => rest <= 0
  BY <1>1
<1>3. keyEnds' \in [Tokens -> Nat]
  BY <1>1, <1>2 DEF TokenInv, TypeOK, Blacklist
<1>4. Expired(k) \/ keyEnds'[k] >= end
  <2>1. CASE ttl[r] > 0
    <3>1. keyEnds'[k] = now + rest
      BY <1>1, <2>1 DEF Blacklist, TokenInv, TypeOK
    <3> HIDE DEF rest, end
    <3> QED BY <3>1, <1>1, <1>2
  <2>2. CASE ~ (ttl[r] > 0)
    <3>1. end <= now
      <4> HIDE DEF rest, end
      <4> QED BY <2>2, <1>1, <1>2
    <3> QED BY <3>1 DEF Expired
  <2> QED BY <2>1, <2>2
<1>5. \A j \in Tokens \ {k} : keyEnds'[j] = keyEnds[j]
  BY DEF Blacklist, TokenInv, TypeOK
<1>6. closed' = closed \cup {k} /\ now' = now /\ exp' = exp /\ Done(r)
  BY DEF Blacklist
<1>7. closed' \subseteq Tokens
  BY <1>1, <1>6 DEF TokenInv, TypeOK
<1>8. \A j \in closed' : /\ exp[j] > 0
                         /\ Expired(j) \/ keyEnds'[j] >= exp[j] * TicksPerSecond
  BY <1>1, <1>4, <1>5, <1>6, <1>7 DEF TokenInv, KeyInv
<1> HIDE DEF k, rest, end
<1> QED BY <1>3, <1>6, <1>7, <1>8, DoneToken

LEMMA TickToken ==
    ASSUME TokenInv, Tick
    PROVE  TokenInv'
<1>1. TypeOK'
  BY DEF TokenInv, TypeOK, Tick
<1>2. \A k \in Tokens : exp[k] * TicksPerSecond \in Int
  BY TokenAssumption DEF TokenInv, TypeOK
<1>3. \A k \in Tokens : Expired(k) => Expired(k)'
  BY <1>2 DEF Tick, Expired, TokenInv, TypeOK
<1>4. \A r \in Requests : ttl[r] * TicksPerSecond \in Int
  BY TokenAssumption DEF TokenInv, TypeOK
<1>5. \A r \in Requests :
        pc[r] = "logged_out" =>
          ttl[r] * TicksPerSecond + now' >= exp[tok[r]] * TicksPerSecond
  <2> TAKE r \in Requests
  <2> HAVE pc[r] = "logged_out"
  <2>1. tok[r] \in Tokens /\ ttl[r] * TicksPerSecond + now >= exp[tok[r]] * TicksPerSecond
    BY DEF TokenInv, KeyInv
  <2> QED BY <2>1, <1>2, <1>4 DEF Tick, TokenInv, TypeOK
<1>6. KeyInv'
  <2>1. UNCHANGED <<exp, keyEnds, closed, pc, tok, ttl, late>>
    BY DEF Tick
  <2>2. \A k \in closed : /\ exp[k] > 0
                          /\ Expired(k)' \/ keyEnds[k] >= exp[k] * TicksPerSecond
    BY <1>3 DEF TokenInv, TypeOK, KeyInv
  <2>3. \A r \in Requests :
          /\ pc[r] # "idle" => tok[r] \in Tokens /\ exp[tok[r]] > 0
          /\ late[r] => pc[r] = "checked" /\ Expired(tok[r])'
    <3> TAKE r \in Requests
    <3>1. pc[r] # "idle" => tok[r] \in Tokens /\ exp[tok[r]] > 0
      BY DEF TokenInv, KeyInv
    <3>2. late[r] => pc[r] = "checked" /\ Expired(tok[r])
      BY DEF TokenInv, KeyInv
    <3>3. tok[r] \in Tokens /\ Expired(tok[r]) => Expired(tok[r])'
      BY <1>3, <2>1 DEF Expired
    <3> QED BY <3>1, <3>2, <3>3
  <2> QED BY <2>1, <2>2, <2>3, <1>5 DEF KeyInv, Expired
<1> QED BY <1>1, <1>6 DEF TokenInv

LEMMA EndToken ==
    ASSUME TokenInv, NEW r \in Requests, Done(r), UNCHANGED <<now, exp, keyEnds, closed>>
    PROVE  TokenInv'
<1>1. keyEnds' \in [Tokens -> Nat] /\ closed' \subseteq Tokens
  BY DEF TokenInv, TypeOK
<1>2. \A k \in closed' : /\ exp[k] > 0
                         /\ Expired(k) \/ keyEnds'[k] >= exp[k] * TicksPerSecond
  BY DEF TokenInv, KeyInv
<1> QED BY <1>1, <1>2, DoneToken

LEMMA StutterToken ==
    ASSUME TokenInv, UNCHANGED vars
    PROVE  TokenInv'
BY DEF TokenInv, TypeOK, KeyInv, Expired, vars

LEMMA NextToken ==
    ASSUME TokenInv, [Next]_vars
    PROVE  TokenInv'
<1>1. ASSUME NEW k \in Tokens, Issue(k)
      PROVE  TokenInv'
  BY <1>1, IssueToken
<1>2. ASSUME NEW r \in Requests, NEW k \in Tokens, Check(r, k)
      PROVE  TokenInv'
  BY <1>2, CheckToken
<1>3. ASSUME NEW r \in Requests, NEW k \in Tokens, CheckFails(r, k)
      PROVE  TokenInv'
  <2>1. ~ late[r] /\ exp[k] > 0
    BY <1>3 DEF TokenInv, KeyInv, CheckFails, Issued
  <2> QED BY <1>3, <2>1, MoveToken DEF CheckFails
<1>4. ASSUME NEW r \in Requests, NEW k \in Tokens, LogoutCommit(r, k)
      PROVE  TokenInv'
  BY <1>4, LogoutCommitToken
<1>5. ASSUME NEW r \in Requests, Admit(r)
      PROVE  TokenInv'
  <2>1. ~ late[r] /\ tok[r] \in Tokens /\ exp[tok[r]] > 0
    BY <1>5 DEF TokenInv, KeyInv, Admit
  <2>2. tok' = [tok EXCEPT ![r] = tok[r]]
    BY <1>5 DEF TokenInv, TypeOK, Admit
  <2>3. "serving" \in {"checked", "serving"}
    OBVIOUS
  <2> QED BY <1>5, <2>1, <2>2, <2>3, MoveToken DEF Admit
<1>6. ASSUME NEW r \in Requests, Refuse(r) \/ Serve(r) \/ Fail(r)
      PROVE  TokenInv'
  BY <1>6, EndToken DEF Refuse, Serve, Fail
<1>7. ASSUME NEW r \in Requests, Blacklist(r)
      PROVE  TokenInv'
  BY <1>7, BlacklistToken
<1>8. CASE Tick
  BY <1>8, TickToken
<1>9. CASE UNCHANGED vars
  BY <1>9, StutterToken
<1> QED BY <1>1, <1>2, <1>3, <1>4, <1>5, <1>6, <1>7, <1>8, <1>9 DEF Next

LEMMA TokenHolds == TokenInv => LogoutHolds
BY DEF TokenInv, KeyInv, LogoutHolds

\* The variables of access tokens keep their types (core/redis.py, api/deps.py).
THEOREM TypeCorrect == Spec => []TypeOK
<1>1. TokenInv => TypeOK
  BY DEF TokenInv
<1> QED BY InitToken, NextToken, <1>1, PTL DEF Spec

\* Whatever the clock, a request that asks Redis after a logout has stored its
\* key, and is answered, is not admitted, the second in which the key vanishes
\* included (services/auth.py, blacklist_access_token; core/middleware.py).
THEOREM LogoutStops == Spec => []LogoutHolds
<1> QED BY InitToken, NextToken, TokenHolds, PTL DEF Spec

-----------------------------------------------------------------------------
(* The handlers of Onboarding run inside the requests of AccessTokens.       *)

\* A step of the onboarding handlers is a step of their requests, or leaves
\* them where they are.
LEMMA HandlersAreRequests == [ONext]_<<vars, ovars>> => [Next]_vars
<1> SUFFICES ASSUME ONext PROVE Next \/ UNCHANGED vars
  BY DEF vars
<1>1. ASSUME NEW r \in Requests, Enter(r) PROVE Next
  BY <1>1 DEF Enter, Next
<1>2. ASSUME NEW r \in Requests, Abort(r) PROVE Next
  BY <1>2 DEF Abort, Next
<1>3. ASSUME NEW r \in Requests, Serve(r) PROVE Next
  BY <1>3 DEF Next
<1>4. ASSUME NEW r \in Requests, NEW v \in Values, SetRole(r, v) PROVE Next
  BY <1>3, <1>4 DEF SetRole
<1>5. ASSUME NEW r \in Requests,
             CompleteSubmission(r) \/ PrefsCommit(r) \/ IntegrationCommit(r)
      PROVE Next
  BY <1>3, <1>5 DEF CompleteSubmission, PrefsCommit, IntegrationCommit
<1>6. ASSUME NEW r \in Requests, NEW v \in Values, NEW x \in Rows, PrefsRead(r, v, x)
      PROVE UNCHANGED vars
  BY <1>6 DEF PrefsRead
<1>7. ASSUME NEW r \in Requests, NEW y \in Rows, PrefsFlush(r, y) PROVE UNCHANGED vars
  BY <1>7 DEF PrefsFlush
<1>8. ASSUME NEW r \in Requests, NEW p \in Platforms, IntegrationRead(r, p)
      PROVE UNCHANGED vars
  BY <1>8 DEF IntegrationRead
<1>9. ASSUME NEW k \in Tokens, Issue(k) PROVE Next
  BY <1>9 DEF Next
<1>10. ASSUME NEW r \in Requests, NEW k \in Tokens,
              Check(r, k) \/ CheckFails(r, k) \/ LogoutCommit(r, k)
       PROVE Next
  BY <1>10 DEF Next
<1>11. ASSUME NEW r \in Requests, Refuse(r) \/ Blacklist(r) PROVE Next
  BY <1>11 DEF Next
<1>12. CASE Tick
  BY <1>12 DEF Next
<1> QED BY <1>1, <1>2, <1>4, <1>5, <1>6, <1>7, <1>8, <1>9, <1>10, <1>11, <1>12 DEF ONext

\* The handlers leave the variables of access tokens to the requests, so what
\* holds of those holds of the composition.
LEMMA HandlersKeepTheRules == OSpec => Spec
<1>1. OInit => Init
  BY DEF OInit
<1> QED BY <1>1, HandlersAreRequests, PTL DEF OSpec, Spec

\* So no onboarding form of a logged-out user is stored either, unless its token
\* was looked up before the logout or while Redis did not answer.
THEOREM LogoutStopsHandlers == OSpec => []LogoutHolds
BY LogoutStops, HandlersKeepTheRules, PTL

-----------------------------------------------------------------------------
(* Users whose own handlers have not overlapped.                            *)

Prefs == [usr : Users, val : Values]
Held  == [row : Rows, old : Values \cup {None}]

Steps == {"none", "prefs_read", "prefs_flushed", "integration_found",
          "integration_missing"}

HandlerTypeOK ==
    /\ role \in [Users -> Values \cup {None}]
    /\ meeting \in [Rows -> Prefs \cup {None}]
    /\ interview \in [Rows -> Prefs \cup {None}]
    /\ answered \in [Users -> [role : Values \cup {None}, prefs : Values \cup {None}]]
    /\ step \in [Requests -> Steps]
    /\ loaded \in [Requests -> Values \cup {None}]
    /\ form \in [Requests -> Values \cup Platforms \cup {None}]
    /\ mrow \in [Requests -> Held \cup {None}]
    /\ irow \in [Requests -> Held \cup {None}]

\* The row a request is to write is new, or one of its user.
Claims(table, held, r) ==
    held[r] # None =>
        \/ table[held[r].row] = None
        \/ table[held[r].row].usr = User(r)

HandlerOK(r) ==
    /\ step[r] # "none" => pc[r] = "serving"
    /\ pc[r] = "serving" => tok[r] \in Tokens
    /\ mrow[r] # None <=> step[r] \in {"prefs_read", "prefs_flushed"}
    /\ irow[r] # None <=> step[r] = "prefs_flushed"
    /\ mrow[r] # None => form[r] \in Values
    /\ Claims(meeting, mrow, r)
    /\ Claims(interview, irow, r)

\* Requests of two users are never to write one row.
Apart(held) ==
    \A q, r \in Requests :
        held[q] # None /\ held[r] # None /\ held[q].row = held[r].row
            => User(q) = User(r)

HandlerInv ==
    /\ HandlerTypeOK
    /\ \A r \in Requests : HandlerOK(r)
    /\ Apart(mrow)
    /\ Apart(irow)

\* The one handler of a user has the row it found, as it still is, or a new
\* one and there is none.
Fresh(table, held, r) ==
    held[r] # None =>
        /\ RowsOf(table, User(r)) \subseteq {held[r].row}
        /\ held[r].old = IF table[held[r].row] = None THEN None
                                                     ELSE table[held[r].row].val

Kept(u) ==
    /\ \A r \in Acting(u) : /\ loaded[r] = role[u]
                            /\ Fresh(meeting, mrow, r)
                            /\ Fresh(interview, irow, r)
    /\ OneRow(meeting, u) /\ OneRow(interview, u)
    /\ role[u] = answered[u].role
    /\ \A x \in RowsOf(meeting, u)   : meeting[x].val   = answered[u].prefs
    /\ \A x \in RowsOf(interview, u) : interview[x].val = answered[u].prefs

AloneInv == \A u \in Users \ raced : ~ Overlaps(u) /\ Kept(u)

\* A table before and after one request has written its row.
LEMMA WrittenRow ==
    ASSUME NEW table \in [Rows -> Prefs \cup {None}], NEW r \in Requests,
           NEW m \in Held, User(r) \in Users, form[r] \in Values,
           table[m.row] = None \/ table[m.row].usr = User(r)
    PROVE  /\ Written(table, r, m) \in [Rows -> Prefs \cup {None}]
           /\ \A x \in Rows \ {m.row} : Written(table, r, m)[x] = table[x]
           /\ \/ Written(table, r, m)[m.row] = table[m.row]
              \/ Written(table, r, m)[m.row] = [usr |-> User(r), val |-> form[r]]
           /\ m.old # form[r] =>
                Written(table, r, m)[m.row] = [usr |-> User(r), val |-> form[r]]
<1>1. m.row \in Rows /\ [usr |-> User(r), val |-> form[r]] \in Prefs
  BY DEF Held, Prefs
<1> QED BY <1>1 DEF Written

\* Requests that take no part in a step keep what they know.
LEMMA HandlersWait ==
    ASSUME HandlerInv, UNCHANGED ovars,
           \A r \in Requests : pc[r] = "serving" \/ pc'[r] = "serving" =>
               pc'[r] = pc[r] /\ tok'[r] = tok[r]
    PROVE  /\ HandlerInv'
           /\ \A u \in Users : Kept(u) => Kept(u)'
<1> USE DEF ovars, store, handler
<1>1. HandlerTypeOK'
  BY DEF HandlerInv, HandlerTypeOK
<1>2. \A r \in Requests : User(r)' = User(r) \/ pc[r] # "serving"
  BY DEF User
<1>3. \A r \in Requests : HandlerOK(r)'
  BY <1>2 DEF HandlerInv, HandlerOK, Claims
<1>4. Apart(mrow)' /\ Apart(irow)'
  BY <1>2 DEF HandlerInv, HandlerOK, Apart
<1>5. ASSUME NEW u \in Users, Kept(u) PROVE Kept(u)'
  <2>1. Acting(u)' = Acting(u)
    BY <1>2 DEF Acting
  <2>2. \A r \in Acting(u) : User(r)' = u /\ User(r) = u
    BY <1>2 DEF Acting
  <2> QED BY <1>5, <2>1, <2>2 DEF Kept, Fresh, OneRow, RowsOf
<1> QED BY <1>1, <1>3, <1>4, <1>5 DEF HandlerInv


\* A request that ends may have written the rows it was to write.
Writes(table, after, held, r) ==
    \A x \in Rows :
        after[x] # table[x] => /\ held[r] # None /\ x = held[r].row
                               /\ after[x] # None /\ after[x].usr = User(r)

LEMMA HandlerEnds ==
    ASSUME TypeOK, HandlerInv, NEW r \in Requests, Done(r), Ended(r),
           role' \in [Users -> Values \cup {None}],
           answered' \in [Users -> [role : Values \cup {None},
                                    prefs : Values \cup {None}]],
           meeting' \in [Rows -> Prefs \cup {None}],
           interview' \in [Rows -> Prefs \cup {None}],
           Writes(meeting, meeting', mrow, r),
           Writes(interview, interview', irow, r)
    PROVE  HandlerInv'
<1>1. HandlerTypeOK'
  BY DEF HandlerInv, HandlerTypeOK, Ended, Steps
<1>2. /\ pc'[r] = "idle" /\ step'[r] = "none" /\ mrow'[r] = None /\ irow'[r] = None
      /\ \A q \in Requests \ {r} :
            /\ pc'[q] = pc[q] /\ tok'[q] = tok[q] /\ step'[q] = step[q]
            /\ form'[q] = form[q] /\ mrow'[q] = mrow[q] /\ irow'[q] = irow[q]
            /\ User(q)' = User(q)
  BY DEF TypeOK, HandlerInv, HandlerTypeOK, Done, Ended, User
<1>3. \A q \in Requests : /\ mrow[q] # None => mrow[q].row \in Rows
                          /\ irow[q] # None => irow[q].row \in Rows
  BY DEF HandlerInv, HandlerTypeOK, Held
<1>4. ASSUME NEW q \in Requests \ {r}
      PROVE  Claims(meeting, mrow, q)' /\ Claims(interview, irow, q)'
  BY <1>2, <1>3 DEF HandlerInv, HandlerOK, Claims, Apart, Writes
<1>5. \A q \in Requests : HandlerOK(q)'
  BY <1>2, <1>4 DEF HandlerInv, HandlerOK, Claims
<1>6. Apart(mrow)' /\ Apart(irow)'
  BY <1>2 DEF HandlerInv, Apart
<1> QED BY <1>1, <1>5, <1>6 DEF HandlerInv

\* What it writes is its own user's, so the other users are as they were.
LEMMA OthersKept ==
    ASSUME TypeOK, HandlerInv, NEW r \in Requests, Done(r), Ended(r),
           meeting \in [Rows -> Prefs \cup {None}],
           Writes(meeting, meeting', mrow, r),
           Writes(interview, interview', irow, r),
           NEW u \in Users, r \notin Acting(u), Kept(u),
           role'[u] = role[u], answered'[u] = answered[u]
    PROVE  Kept(u)'
<1>1. /\ pc'[r] = "idle"
      /\ \A q \in Requests \ {r} :
            /\ pc'[q] = pc[q] /\ loaded'[q] = loaded[q]
            /\ mrow'[q] = mrow[q] /\ irow'[q] = irow[q]
            /\ User(q)' = User(q)
  BY DEF TypeOK, HandlerInv, HandlerTypeOK, Done, Ended, User
<1>2. Acting(u)' = Acting(u)
  BY <1>1 DEF Acting
<1>3. /\ mrow[r] # None => User(r) # u
      /\ irow[r] # None => User(r) # u
  BY DEF HandlerInv, HandlerOK, Acting
<1>4. \A x \in Rows :
        /\ meeting'[x] # meeting[x] =>
             /\ meeting'[x].usr # u
             /\ meeting[x] = None \/ meeting[x].usr # u
             /\ meeting'[x] # None
        /\ interview'[x] # interview[x] =>
             /\ interview'[x].usr # u
             /\ interview[x] = None \/ interview[x].usr # u
             /\ interview'[x] # None
  BY <1>3 DEF Writes, HandlerInv, HandlerOK, Claims
<1>5. /\ RowsOf(meeting, u)' = RowsOf(meeting, u)
      /\ RowsOf(interview, u)' = RowsOf(interview, u)
      /\ \A x \in RowsOf(meeting, u) : meeting'[x] = meeting[x]
      /\ \A x \in RowsOf(interview, u) : interview'[x] = interview[x]
  BY <1>4 DEF RowsOf
<1>6. ASSUME NEW q \in Acting(u)
      PROVE  /\ loaded'[q] = role'[u]
             /\ Fresh(meeting, mrow, q)'
             /\ Fresh(interview, irow, q)'
  <2>1. q \in Requests \ {r} /\ User(q) = u
    BY DEF Acting
  <2>2. /\ loaded[q] = role[u] /\ Fresh(meeting, mrow, q)
        /\ Fresh(interview, irow, q)
    BY DEF Kept
  <2>3. /\ mrow[q] # None => meeting'[mrow[q].row] = meeting[mrow[q].row]
        /\ irow[q] # None => interview'[irow[q].row] = interview[irow[q].row]
    <3>1. /\ mrow[q] # None => mrow[q].row \in Rows
          /\ irow[q] # None => irow[q].row \in Rows
      BY <2>1 DEF HandlerInv, HandlerTypeOK, Held
    <3> QED BY <2>1, <1>3, <3>1 DEF Writes, HandlerInv, Apart
  <2> QED BY <1>1, <1>5, <2>1, <2>2, <2>3 DEF Fresh
<1> QED BY <1>2, <1>5, <1>6 DEF Kept, OneRow

-----------------------------------------------------------------------------
(* The steps of the handlers.                                               *)

LEMMA EnterKept ==
    ASSUME TokenInv, HandlerInv, NEW r \in Requests, Enter(r)
    PROVE  /\ HandlerInv'
           /\ \A u \in Users : Kept(u) => Kept(u)'
<1>1. /\ pc[r] = "checked" /\ pc'[r] = "serving" /\ tok' = tok
      /\ loaded'[r] = role[User(r)]
      /\ \A q \in Requests \ {r} : pc'[q] = pc[q] /\ loaded'[q] = loaded[q]
      /\ UNCHANGED <<store, step, form, mrow, irow>>
  BY DEF Enter, Admit, TokenInv, TypeOK, HandlerInv, HandlerTypeOK
<1>2. mrow[r] = None /\ irow[r] = None /\ step[r] = "none"
  BY <1>1 DEF HandlerInv, HandlerOK
<1>3. tok[r] \in Tokens /\ User(r) \in Users
  BY <1>1, OnboardingAssumption DEF TokenInv, KeyInv, User
<1>4. HandlerTypeOK'
  BY <1>3 DEF HandlerInv, HandlerTypeOK, Enter, store
<1>5. \A q \in Requests : User(q)' = User(q)
  BY <1>1 DEF User
<1>6. \A q \in Requests : HandlerOK(q)'
  BY <1>1, <1>2, <1>3, <1>5 DEF HandlerInv, HandlerOK, Claims, store
<1>7. Apart(mrow)' /\ Apart(irow)'
  BY <1>1, <1>5 DEF HandlerInv, Apart
<1>8. ASSUME NEW u \in Users, Kept(u) PROVE Kept(u)'
  BY <1>1, <1>2, <1>8 DEF Kept, Acting, User, Fresh, OneRow, RowsOf, store
<1> QED BY <1>4, <1>6, <1>7, <1>8 DEF HandlerInv

\* The end of the one handler of a user leaves none.
LEMMA LastEnds ==
    ASSUME TypeOK, NEW r \in Requests, Done(r), NEW u \in Users,
           r \in Acting(u), ~ Overlaps(u)
    PROVE  Acting(u)' = {}
BY DEF TypeOK, Done, Acting, Overlaps, User

LEMMA SetRoleKept ==
    ASSUME TokenInv, HandlerInv, NEW r \in Requests, NEW v \in Values,
           SetRole(r, v)
    PROVE  /\ HandlerInv'
           /\ \A u \in Users : Kept(u) /\ ~ Overlaps(u) => Kept(u)'
<1>1. /\ pc[r] = "serving" /\ Done(r) /\ Ended(r) /\ TypeOK /\ HandlerTypeOK
      /\ UNCHANGED <<meeting, interview>>
  BY DEF SetRole, Starting, Serve, TokenInv, HandlerInv
<1>2. User(r) \in Users
  BY <1>1, OnboardingAssumption DEF HandlerInv, HandlerOK, User
<1>3. /\ role' \in [Users -> Values \cup {None}]
      /\ answered' \in [Users -> [role : Values \cup {None}, prefs : Values \cup {None}]]
      /\ \A u \in Users \ {User(r)} : role'[u] = role[u] /\ answered'[u] = answered[u]
      /\ answered'[User(r)].role = v
      /\ answered'[User(r)].prefs = answered[User(r)].prefs
      /\ loaded[r] = role[User(r)] => role'[User(r)] = v
  BY <1>1, <1>2 DEF SetRole, HandlerTypeOK
<1>4. /\ Writes(meeting, meeting', mrow, r) /\ Writes(interview, interview', irow, r)
      /\ meeting' \in [Rows -> Prefs \cup {None}]
      /\ interview' \in [Rows -> Prefs \cup {None}]
  BY <1>1 DEF Writes, HandlerTypeOK
<1>5. HandlerInv'
  BY <1>1, <1>3, <1>4, HandlerEnds
<1>6. ASSUME NEW u \in Users, Kept(u), ~ Overlaps(u) PROVE Kept(u)'
  <2>1. CASE u # User(r)
    <3>1. r \notin Acting(u)
      BY <2>1 DEF Acting
    <3>2. role'[u] = role[u] /\ answered'[u] = answered[u]
      BY <2>1, <1>3
    <3> QED BY <1>1, <1>4, <1>6, <3>1, <3>2, OthersKept DEF HandlerTypeOK
  <2>2. CASE u = User(r)
    <3>1. r \in Acting(u)
      BY <2>2, <1>1 DEF Acting
    <3>2. Acting(u)' = {}
      BY <1>1, <1>6, <3>1, LastEnds
    <3> QED BY <1>1, <1>3, <1>6, <2>2, <3>1, <3>2 DEF Kept, OneRow, RowsOf
  <2> QED BY <2>1, <2>2
<1> QED BY <1>5, <1>6

\* A handler that ends and changes no role and no form.
LEMMA QuietEnd ==
    ASSUME TokenInv, HandlerInv, NEW r \in Requests, Done(r), Ended(r),
           UNCHANGED <<role, answered, meeting, interview>>
    PROVE  /\ HandlerInv'
           /\ \A u \in Users : Kept(u) /\ ~ Overlaps(u) => Kept(u)'
<1>1. TypeOK /\ HandlerTypeOK
  BY DEF TokenInv, HandlerInv
<1>2. /\ Writes(meeting, meeting', mrow, r) /\ Writes(interview, interview', irow, r)
      /\ meeting' \in [Rows -> Prefs \cup {None}]
      /\ interview' \in [Rows -> Prefs \cup {None}]
      /\ role' \in [Users -> Values \cup {None}]
      /\ answered' \in [Users -> [role : Values \cup {None}, prefs : Values \cup {None}]]
  BY <1>1 DEF Writes, HandlerTypeOK
<1>3. HandlerInv'
  BY <1>1, <1>2, HandlerEnds
<1>4. ASSUME NEW u \in Users, Kept(u), ~ Overlaps(u) PROVE Kept(u)'
  <2>1. CASE r \notin Acting(u)
    BY <1>1, <1>2, <1>4, <2>1, OthersKept DEF HandlerTypeOK
  <2>2. CASE r \in Acting(u)
    <3>1. Acting(u)' = {}
      BY <1>1, <1>4, <2>2, LastEnds
    <3> QED BY <1>4, <3>1 DEF Kept, OneRow, RowsOf
  <2> QED BY <2>1, <2>2
<1> QED BY <1>3, <1>4

\* Both rows are written with the form, and no other row of the user is there.
LEMMA PrefsCommitKept ==
    ASSUME TokenInv, HandlerInv, NEW r \in Requests, PrefsCommit(r)
    PROVE  /\ HandlerInv'
           /\ \A u \in Users : Kept(u) /\ ~ Overlaps(u) => Kept(u)'
<1> DEFINE v == User(r)
           m == mrow[r]
           i == irow[r]
<1>1. /\ pc[r] = "serving" /\ Done(r) /\ Ended(r) /\ TypeOK /\ HandlerTypeOK
      /\ step[r] = "prefs_flushed"
      /\ meeting' = Written(meeting, r, m) /\ interview' = Written(interview, r, i)
      /\ role' = role /\ answered' = [answered EXCEPT ![v].prefs = form[r]]
  BY DEF PrefsCommit, Serve, TokenInv, HandlerInv
<1>2. v \in Users /\ m \in Held /\ i \in Held /\ form[r] \in Values /\ m # None /\ i # None
  BY <1>1, OnboardingAssumption DEF HandlerInv, HandlerTypeOK, HandlerOK, User
<1>3. /\ meeting[m.row] = None \/ meeting[m.row].usr = v
      /\ interview[i.row] = None \/ interview[i.row].usr = v
  BY <1>2 DEF HandlerInv, HandlerOK, Claims
<1> HIDE DEF v, m, i
<1>4. /\ meeting' \in [Rows -> Prefs \cup {None}]
      /\ \A x \in Rows \ {m.row} : meeting'[x] = meeting[x]
      /\ \/ meeting'[m.row] = meeting[m.row]
         \/ meeting'[m.row] = [usr |-> v, val |-> form[r]]
      /\ m.old # form[r] => meeting'[m.row] = [usr |-> v, val |-> form[r]]
  BY <1>1, <1>2, <1>3, WrittenRow DEF HandlerTypeOK, v
<1>5. /\ interview' \in [Rows -> Prefs \cup {None}]
      /\ \A x \in Rows \ {i.row} : interview'[x] = interview[x]
      /\ \/ interview'[i.row] = interview[i.row]
         \/ interview'[i.row] = [usr |-> v, val |-> form[r]]
      /\ i.old # form[r] => interview'[i.row] = [usr |-> v, val |-> form[r]]
  BY <1>1, <1>2, <1>3, WrittenRow DEF HandlerTypeOK, v
<1>6. [usr |-> v, val |-> form[r]] # None
  BY <1>2, OnboardingAssumption
<1>7. Writes(meeting, meeting', mrow, r) /\ Writes(interview, interview', irow, r)
  BY <1>2, <1>4, <1>5, <1>6 DEF Writes, m, i, v
<1>8. /\ role' \in [Users -> Values \cup {None}]
      /\ answered' \in [Users -> [role : Values \cup {None}, prefs : Values \cup {None}]]
      /\ \A u \in Users \ {v} : answered'[u] = answered[u]
      /\ answered'[v].prefs = form[r] /\ answered'[v].role = answered[v].role
  BY <1>1, <1>2 DEF HandlerTypeOK
<1>9. HandlerInv'
  BY <1>1, <1>4, <1>5, <1>7, <1>8, HandlerEnds
<1>10. ASSUME NEW u \in Users, Kept(u), ~ Overlaps(u) PROVE Kept(u)'
  <2>1. CASE u # v
    <3>1. r \notin Acting(u)
      BY <2>1 DEF Acting, v
    <3>2. role'[u] = role[u] /\ answered'[u] = answered[u]
      BY <2>1, <1>1, <1>8
    <3> QED BY <1>1, <1>7, <1>10, <3>1, <3>2, OthersKept DEF HandlerTypeOK
  <2>2. CASE u = v
    <3>1. r \in Acting(u)
      BY <2>2, <1>1 DEF Acting, v
    <3>2. Acting(u)' = {}
      BY <1>1, <1>10, <3>1, LastEnds
    <3>3. Fresh(meeting, mrow, r) /\ Fresh(interview, irow, r)
      BY <1>10, <3>1 DEF Kept
    <3>4. RowsOf(meeting, v) \subseteq {m.row} /\ RowsOf(interview, v) \subseteq {i.row}
      BY <1>2, <3>3 DEF Fresh, m, i, v
    <3>5. /\ m.old = form[r] => meeting[m.row].val = form[r]
          /\ i.old = form[r] => interview[i.row].val = form[r]
      BY <1>2, <3>3, OnboardingAssumption DEF Fresh, m, i, v
    <3>6. /\ RowsOf(meeting, u)' \subseteq {m.row}
          /\ RowsOf(interview, u)' \subseteq {i.row}
      BY <2>2, <1>4, <1>5, <3>4 DEF RowsOf
    <3>7. meeting'[m.row].val = form[r] /\ interview'[i.row].val = form[r]
      BY <1>4, <1>5, <3>5
    <3>8. role'[u] = answered'[u].role
      BY <1>1, <1>8, <1>10, <2>2 DEF Kept
    <3>9. OneRow(meeting, u)' /\ OneRow(interview, u)'
      BY <2>2, <3>6 DEF OneRow, RowsOf
    <3>10. /\ \A x \in RowsOf(meeting, u)' : meeting'[x].val = answered'[u].prefs
           /\ \A x \in RowsOf(interview, u)' : interview'[x].val = answered'[u].prefs
      BY <2>2, <1>8, <3>6, <3>7 DEF RowsOf
    <3> QED BY <3>2, <3>8, <3>9, <3>10 DEF Kept
  <2> QED BY <2>1, <2>2
<1> QED BY <1>9, <1>10

\* The row a handler goes on with.
LEMMA ChosenRow ==
    ASSUME NEW table \in [Rows -> Prefs \cup {None}],
           NEW held \in [Requests -> Held \cup {None}],
           NEW r \in Requests, NEW x \in Rows, Chosen(table, held, r, x),
           \A q \in Requests : Claims(table, held, q)
    PROVE  /\ Loaded(table, x) \in Held
           /\ Loaded(table, x) # None
           /\ Loaded(table, x).row = x
           /\ Loaded(table, x).old = IF table[x] = None THEN None ELSE table[x].val
           /\ table[x] = None \/ table[x].usr = User(r)
           /\ RowsOf(table, User(r)) \subseteq {x}
           /\ \A q \in Requests : held[q] # None /\ held[q].row = x => User(q) = User(r)
<1>1. Loaded(table, x) = [row |-> x, old |-> IF table[x] = None THEN None
                                                              ELSE table[x].val]
  BY DEF Loaded
<1>2. (IF table[x] = None THEN None ELSE table[x].val) \in Values \cup {None}
  BY DEF Prefs
<1>3. Loaded(table, x) \in Held
  BY <1>1, <1>2 DEF Held
<1>4. Loaded(table, x) # None
  BY <1>3, OnboardingAssumption DEF Held
<1>5. /\ table[x] = None \/ table[x].usr = User(r)
      /\ RowsOf(table, User(r)) \subseteq {x}
  BY DEF Chosen, RowsOf
<1>6. \A q \in Requests : held[q] # None /\ held[q].row = x => User(q) = User(r)
  BY DEF Chosen, RowsOf, Claims
<1> QED BY <1>1, <1>3, <1>4, <1>5, <1>6

LEMMA PrefsReadKept ==
    ASSUME TokenInv, HandlerInv, NEW r \in Requests, NEW v \in Values,
           NEW x \in Rows, PrefsRead(r, v, x)
    PROVE  /\ HandlerInv'
           /\ \A u \in Users : Kept(u) => Kept(u)'
<1> DEFINE h == Loaded(meeting, x)
<1>1. /\ UNCHANGED <<vars, store, loaded, irow>> /\ pc[r] = "serving" /\ HandlerTypeOK
      /\ step[r] = "none" /\ Chosen(meeting, mrow, r, x)
      /\ mrow' = [mrow EXCEPT ![r] = h] /\ form' = [form EXCEPT ![r] = v]
      /\ step' = [step EXCEPT ![r] = "prefs_read"]
  BY DEF PrefsRead, Starting, HandlerInv
<1>2. /\ meeting \in [Rows -> Prefs \cup {None}]
      /\ mrow \in [Requests -> Held \cup {None}]
      /\ Chosen(meeting, mrow, r, x)
      /\ \A q \in Requests : Claims(meeting, mrow, q)
  BY <1>1 DEF HandlerInv, HandlerOK, HandlerTypeOK
<1>3. /\ h \in Held /\ h # None /\ h.row = x
      /\ h.old = IF meeting[x] = None THEN None ELSE meeting[x].val
      /\ meeting[x] = None \/ meeting[x].usr = User(r)
      /\ RowsOf(meeting, User(r)) \subseteq {x}
      /\ \A q \in Requests : mrow[q] # None /\ mrow[q].row = x => User(q) = User(r)
  BY <1>2, ChosenRow
<1> HIDE DEF h
<1>4. /\ mrow'[r] = h /\ form'[r] = v /\ step'[r] = "prefs_read"
      /\ \A q \in Requests \ {r} :
            mrow'[q] = mrow[q] /\ form'[q] = form[q] /\ step'[q] = step[q]
      /\ UNCHANGED <<pc, tok, irow, loaded, role, answered, meeting, interview>>
      /\ irow[r] = None
  BY <1>1 DEF HandlerTypeOK, HandlerInv, HandlerOK, vars, store
<1>5. HandlerTypeOK'
  BY <1>1, <1>3, <1>4 DEF HandlerTypeOK, Steps
<1>6. \A q \in Requests : HandlerOK(q)'
  BY <1>1, <1>3, <1>4 DEF HandlerInv, HandlerOK, Claims, User
<1>7. Apart(mrow)' /\ Apart(irow)'
  BY <1>3, <1>4 DEF HandlerInv, Apart, User
<1>8. ASSUME NEW u \in Users, Kept(u) PROVE Kept(u)'
  <2>1. Acting(u)' = Acting(u)
    BY <1>4 DEF Acting, User
  <2>2. ASSUME NEW q \in Acting(u)
        PROVE  Fresh(meeting, mrow, q)' /\ Fresh(interview, irow, q)'
    <3>1. Fresh(meeting, mrow, q) /\ Fresh(interview, irow, q) /\ q \in Requests
      BY <1>8 DEF Kept, Acting
    <3> QED BY <3>1, <1>3, <1>4 DEF Fresh, RowsOf, User
  <2> QED BY <1>4, <1>8, <2>1, <2>2 DEF Kept, OneRow, RowsOf
<1> QED BY <1>5, <1>6, <1>7, <1>8 DEF HandlerInv

LEMMA PrefsFlushKept ==
    ASSUME TokenInv, HandlerInv, NEW r \in Requests, NEW y \in Rows,
           PrefsFlush(r, y)
    PROVE  /\ HandlerInv'
           /\ \A u \in Users : Kept(u) => Kept(u)'
<1> DEFINE h == Loaded(interview, y)
<1>1. /\ UNCHANGED <<vars, store, loaded, form, mrow>> /\ HandlerTypeOK
      /\ step[r] = "prefs_read" /\ Chosen(interview, irow, r, y)
      /\ irow' = [irow EXCEPT ![r] = h]
      /\ step' = [step EXCEPT ![r] = "prefs_flushed"]
  BY DEF PrefsFlush, HandlerInv
<1>2. /\ interview \in [Rows -> Prefs \cup {None}]
      /\ irow \in [Requests -> Held \cup {None}]
      /\ Chosen(interview, irow, r, y)
      /\ \A q \in Requests : Claims(interview, irow, q)
  BY <1>1 DEF HandlerInv, HandlerOK, HandlerTypeOK
<1>3. /\ h \in Held /\ h # None /\ h.row = y
      /\ h.old = IF interview[y] = None THEN None ELSE interview[y].val
      /\ interview[y] = None \/ interview[y].usr = User(r)
      /\ RowsOf(interview, User(r)) \subseteq {y}
      /\ \A q \in Requests : irow[q] # None /\ irow[q].row = y => User(q) = User(r)
  BY <1>2, ChosenRow
<1> HIDE DEF h
<1>4. /\ irow'[r] = h /\ step'[r] = "prefs_flushed"
      /\ \A q \in Requests \ {r} : irow'[q] = irow[q] /\ step'[q] = step[q]
      /\ UNCHANGED <<pc, tok, mrow, form, loaded, role, answered, meeting, interview>>
  BY <1>1 DEF HandlerTypeOK, HandlerInv, HandlerOK, vars, store
<1>5. HandlerTypeOK'
  BY <1>1, <1>3, <1>4 DEF HandlerTypeOK, Steps
<1>6. \A q \in Requests : HandlerOK(q)'
  BY <1>1, <1>3, <1>4 DEF HandlerInv, HandlerOK, Claims, User
<1>7. Apart(mrow)' /\ Apart(irow)'
  BY <1>3, <1>4 DEF HandlerInv, Apart, User
<1>8. ASSUME NEW u \in Users, Kept(u) PROVE Kept(u)'
  <2>1. Acting(u)' = Acting(u)
    BY <1>4 DEF Acting, User
  <2>2. ASSUME NEW q \in Acting(u)
        PROVE  Fresh(meeting, mrow, q)' /\ Fresh(interview, irow, q)'
    <3>1. Fresh(meeting, mrow, q) /\ Fresh(interview, irow, q) /\ q \in Requests
      BY <1>8 DEF Kept, Acting
    <3> QED BY <3>1, <1>3, <1>4 DEF Fresh, RowsOf, User
  <2> QED BY <1>4, <1>8, <2>1, <2>2 DEF Kept, OneRow, RowsOf
<1> QED BY <1>5, <1>6, <1>7, <1>8 DEF HandlerInv

LEMMA IntegrationReadKept ==
    ASSUME HandlerInv, NEW r \in Requests, NEW p \in Platforms,
           IntegrationRead(r, p)
    PROVE  /\ HandlerInv'
           /\ \A u \in Users : Kept(u) => Kept(u)'
<1>1. /\ UNCHANGED <<pc, tok, role, meeting, interview, answered, loaded, mrow, irow>>
      /\ pc[r] = "serving" /\ step[r] = "none"
      /\ form' = [form EXCEPT ![r] = p]
      /\ step'[r] \in {"integration_found", "integration_missing"}
      /\ \A q \in Requests \ {r} : form'[q] = form[q] /\ step'[q] = step[q]
      /\ step' \in [Requests -> Steps]
  BY DEF IntegrationRead, Starting, HandlerInv, HandlerTypeOK, Steps, vars, store
<1>2. HandlerTypeOK'
  BY <1>1 DEF HandlerInv, HandlerTypeOK
<1>3. \A q \in Requests : HandlerOK(q)'
  BY <1>1 DEF HandlerInv, HandlerOK, Claims, User
<1>4. Apart(mrow)' /\ Apart(irow)'
  BY <1>1 DEF HandlerInv, Apart, User
<1>5. ASSUME NEW u \in Users, Kept(u) PROVE Kept(u)'
  BY <1>1, <1>5 DEF Kept, Acting, User, Fresh, OneRow, RowsOf
<1> QED BY <1>2, <1>3, <1>4, <1>5 DEF HandlerInv

-----------------------------------------------------------------------------
LEMMA HandlerNext ==
    ASSUME TokenInv, HandlerInv, [ONext]_<<vars, ovars>>
    PROVE  /\ HandlerInv'
           /\ \A u \in Users : Kept(u) /\ ~ Overlaps(u) => Kept(u)'
<1> DEFINE Goal == /\ HandlerInv'
                   /\ \A u \in Users : Kept(u) /\ ~ Overlaps(u) => Kept(u)'
<1>1. ASSUME UNCHANGED ovars,
             \A r \in Requests : pc[r] = "serving" \/ pc'[r] = "serving" =>
                 pc'[r] = pc[r] /\ tok'[r] = tok[r]
      PROVE  Goal
  BY <1>1, HandlersWait
<1>2. ASSUME UNCHANGED ovars,
             \/ \E k \in Tokens : Issue(k)
             \/ \E r \in Requests :
                  \/ \E k \in Tokens : \/ Check(r, k) \/ CheckFails(r, k)
                                       \/ LogoutCommit(r, k)
                  \/ Refuse(r) \/ Blacklist(r)
             \/ Tick \/ UNCHANGED vars
      PROVE  Goal
  <2>1. \A r \in Requests : pc[r] = "serving" \/ pc'[r] = "serving" =>
            pc'[r] = pc[r] /\ tok'[r] = tok[r]
    BY <1>2 DEF TokenInv, TypeOK, Issue, Check, CheckFails, LogoutCommit, Refuse,
                Blacklist, Tick, Done, vars
  <2> QED BY <1>1, <1>2, <2>1
<1>3. ASSUME NEW r \in Requests, Enter(r) PROVE Goal
  BY <1>3, EnterKept
<1>4. ASSUME NEW r \in Requests, NEW v \in Values, SetRole(r, v) PROVE Goal
  BY <1>4, SetRoleKept
<1>5. ASSUME NEW r \in Requests,
             Abort(r) \/ CompleteSubmission(r) \/ IntegrationCommit(r)
      PROVE  Goal
  <2>1. /\ Done(r) /\ Ended(r)
        /\ UNCHANGED <<role, answered, meeting, interview>>
    BY <1>5 DEF Abort, CompleteSubmission, IntegrationCommit, Serve, Fail, store
  <2> QED BY <2>1, QuietEnd
<1>6. ASSUME NEW r \in Requests, PrefsCommit(r) PROVE Goal
  BY <1>6, PrefsCommitKept
<1>7. ASSUME NEW r \in Requests, NEW v \in Values, NEW x \in Rows,
             PrefsRead(r, v, x)
      PROVE  Goal
  BY <1>7, PrefsReadKept
<1>8. ASSUME NEW r \in Requests, NEW y \in Rows, PrefsFlush(r, y) PROVE Goal
  BY <1>8, PrefsFlushKept
<1>9. ASSUME NEW r \in Requests, NEW p \in Platforms, IntegrationRead(r, p)
      PROVE  Goal
  BY <1>9, IntegrationReadKept
<1> HIDE DEF Goal
<1>10. Goal
  BY <1>2, <1>3, <1>4, <1>5, <1>6, <1>7, <1>8, <1>9 DEF ONext, vars, ovars
<1> QED BY <1>10 DEF Goal

\* A request that writes its row leaves those of other users alone.
LEMMA OthersRows ==
    ASSUME NEW table \in [Rows -> Prefs \cup {None}], NEW r \in Requests,
           NEW m \in Held, User(r) \in Users, form[r] \in Values,
           table[m.row] = None \/ table[m.row].usr = User(r),
           NEW u \in Users, u # User(r), NEW after, after = Written(table, r, m)
    PROVE  /\ RowsOf(after, u) = RowsOf(table, u)
           /\ \A x \in RowsOf(table, u) : after[x] = table[x]
<1>1. /\ \A x \in Rows \ {m.row} : after[x] = table[x]
      /\ \/ after[m.row] = table[m.row]
         \/ after[m.row] = [usr |-> User(r), val |-> form[r]]
      /\ after \in [Rows -> Prefs \cup {None}]
  BY WrittenRow
<1>2. m.row \in Rows /\ m.row \notin RowsOf(table, u)
  BY OnboardingAssumption DEF Held, RowsOf
<1>3. m.row \notin RowsOf(after, u)
  BY <1>1, <1>2 DEF RowsOf
<1> QED BY <1>1, <1>2, <1>3 DEF RowsOf

\* What a step stores it stores for the user of the request it answers.
LEMMA ProfileStep ==
    ASSUME TokenInv, HandlerInv, [ONext]_<<vars, ovars>>,
           NEW u \in Users, Profile(u)' # Profile(u)
    PROVE  \E r \in Requests : /\ pc[r] = "serving" /\ pc'[r] = "idle"
                               /\ User(r) = u /\ ~ late[r]
<1> DEFINE Answered == \E r \in Requests : /\ pc[r] = "serving" /\ pc'[r] = "idle"
                                           /\ User(r) = u /\ ~ late[r]
<1>1. ~ UNCHANGED store
  BY DEF store, Profile, RowsOf
<1>2. ASSUME NEW r \in Requests, pc[r] = "serving", Serve(r), User(r) = u
      PROVE  Answered
  BY <1>2 DEF Serve, Done, TokenInv, TypeOK, KeyInv
<1>3. ASSUME NEW r \in Requests, NEW v \in Values, SetRole(r, v) PROVE Answered
  <2>1. pc[r] = "serving" /\ Serve(r)
    BY <1>3 DEF SetRole, Starting
  <2>2. u # User(r) => role'[u] = role[u]
    BY <1>3 DEF SetRole, HandlerInv, HandlerTypeOK
  <2>3. User(r) = u
    BY <1>3, <2>2 DEF SetRole, Profile, RowsOf
  <2> QED BY <1>2, <2>1, <2>3
<1>4. ASSUME NEW r \in Requests, CompleteSubmission(r) PROVE Answered
  <2>1. pc[r] = "serving" /\ Serve(r)
    BY <1>4 DEF CompleteSubmission, Starting
  <2>2. u # User(r) => (u \in completed)' = (u \in completed)
    BY <1>4 DEF CompleteSubmission
  <2>3. UNCHANGED <<role, meeting, interview, integrated>>
    BY <1>4 DEF CompleteSubmission
  <2>4. (u \in completed)' = (u \in completed) => Profile(u)' = Profile(u)
    BY <2>3, Zenon DEF Profile, RowsOf
  <2>5. User(r) = u
    BY <2>2, <2>4
  <2> QED BY <1>2, <2>1, <2>5
<1>5. ASSUME NEW r \in Requests, PrefsCommit(r) PROVE Answered
  <2>1. /\ step[r] = "prefs_flushed" /\ Serve(r)
        /\ UNCHANGED <<role, completed, integrated>>
        /\ meeting' = Written(meeting, r, mrow[r])
        /\ interview' = Written(interview, r, irow[r])
    BY <1>5 DEF PrefsCommit
  <2>2. /\ pc[r] = "serving" /\ tok[r] \in Tokens /\ form[r] \in Values
        /\ mrow[r] # None /\ irow[r] # None
        /\ Claims(meeting, mrow, r) /\ Claims(interview, irow, r)
    BY <2>1 DEF HandlerInv, HandlerOK
  <2>3. /\ mrow[r] \in Held /\ irow[r] \in Held /\ User(r) \in Users
        /\ meeting \in [Rows -> Prefs \cup {None}]
        /\ interview \in [Rows -> Prefs \cup {None}]
    BY <2>2, OnboardingAssumption DEF HandlerInv, HandlerTypeOK, User
  <2>4. CASE User(r) # u
    <3>1. /\ RowsOf(meeting', u) = RowsOf(meeting, u)
          /\ \A x \in RowsOf(meeting, u) : meeting'[x] = meeting[x]
      BY <2>1, <2>2, <2>3, <2>4, OthersRows DEF Claims
    <3>2. /\ RowsOf(interview', u) = RowsOf(interview, u)
          /\ \A x \in RowsOf(interview, u) : interview'[x] = interview[x]
      BY <2>1, <2>2, <2>3, <2>4, OthersRows DEF Claims
    <3>3. /\ RowsOf(meeting, u)' = RowsOf(meeting, u)
          /\ RowsOf(interview, u)' = RowsOf(interview, u)
      BY <3>1, <3>2 DEF RowsOf
    <3> QED BY <2>1, <3>1, <3>2, <3>3 DEF Profile
  <2> QED BY <1>2, <2>1, <2>2, <2>4
<1>6. ASSUME NEW r \in Requests, IntegrationCommit(r) PROVE Answered
  <2>1. step[r] # "none" /\ Serve(r)
    BY <1>6 DEF IntegrationCommit
  <2>2. pc[r] = "serving"
    BY <2>1 DEF HandlerInv, HandlerOK
  <2>3. u # User(r) => \A p : <<u, p>> \in integrated' <=> <<u, p>> \in integrated
    BY <1>6 DEF IntegrationCommit
  <2>4. User(r) = u
    BY <1>6, <2>3 DEF IntegrationCommit, Profile, RowsOf
  <2> QED BY <1>2, <2>1, <2>2, <2>4
<1>7. ASSUME NEW r \in Requests, Enter(r) \/ Abort(r) PROVE Answered
  BY <1>1, <1>7 DEF Enter, Abort, store
<1>8. ASSUME NEW r \in Requests, NEW v \in Values, NEW x \in Rows, PrefsRead(r, v, x)
      PROVE  Answered
  BY <1>1, <1>8 DEF PrefsRead
<1>9. ASSUME NEW r \in Requests, NEW y \in Rows, PrefsFlush(r, y) PROVE Answered
  BY <1>1, <1>9 DEF PrefsFlush
<1>10. ASSUME NEW r \in Requests, NEW p \in Platforms, IntegrationRead(r, p)
       PROVE  Answered
  BY <1>1, <1>10 DEF IntegrationRead
<1>11. ~ UNCHANGED ovars
  BY <1>1 DEF ovars, store
<1> HIDE DEF Answered
<1>12. Answered
  BY <1>3, <1>4, <1>5, <1>6, <1>7, <1>8, <1>9, <1>10, <1>11 DEF ONext
<1> QED BY <1>12 DEF Answered

\* A user's profile changes only with the answer to a request of the same user,
\* of a token that no logout had stored in the blacklist when it was looked up,
\* unless Redis did not answer (api/deps.py, services/onboarding.py), however
\* the requests of several users overlap.
THEOREM ProfilesAreTheirUsers == OSpec => StoredByTheirHandlers
<1> DEFINE I == TokenInv /\ HandlerInv
<1>1. OInit => I
  <2> SUFFICES ASSUME OInit PROVE I
    OBVIOUS
  <2>1. TokenInv
    BY InitToken DEF OInit
  <2>2. HandlerInv
    BY DEF OInit, Init, HandlerInv, HandlerTypeOK, HandlerOK, Claims, Apart, Steps
  <2> QED BY <2>1, <2>2
<1>2. I /\ [ONext]_<<vars, ovars>> => I'
  <2> SUFFICES ASSUME TokenInv, HandlerInv, [ONext]_<<vars, ovars>>
               PROVE  TokenInv' /\ HandlerInv'
    OBVIOUS
  <2>1. TokenInv'
    BY HandlersAreRequests, NextToken
  <2> QED BY <2>1, HandlerNext
<1>3. I /\ [ONext]_<<vars, ovars>> =>
         [\A u \in Users :
            Profile(u)' # Profile(u) =>
               \E r \in Requests : /\ pc[r] = "serving" /\ pc'[r] = "idle"
                                   /\ User(r) = u /\ ~ late[r]]_<<vars, ovars>>
  BY ProfileStep
<1> HIDE DEF I
<1> QED BY <1>1, <1>2, <1>3, PTL DEF OSpec, StoredByTheirHandlers

FormsInv == TokenInv /\ HandlerInv /\ AloneInv

LEMMA FormsInit == HistoryInit => FormsInv
<1> SUFFICES ASSUME HistoryInit PROVE FormsInv
  OBVIOUS
<1>1. TokenInv
  BY InitToken DEF HistoryInit, OInit
<1>2. HandlerInv
  BY DEF HistoryInit, OInit, Init, HandlerInv, HandlerTypeOK, HandlerOK, Claims,
         Apart, Steps
<1>3. ASSUME NEW u \in Users PROVE ~ Overlaps(u) /\ Kept(u)
  BY DEF HistoryInit, OInit, Init, Overlaps, Acting, Kept, OneRow, RowsOf
<1> QED BY <1>1, <1>2, <1>3 DEF FormsInv, AloneInv

LEMMA FormsNext ==
    FormsInv /\ [HistoryNext]_<<vars, ovars, raced>> => FormsInv'
<1> SUFFICES ASSUME FormsInv, [HistoryNext]_<<vars, ovars, raced>>
             PROVE  FormsInv'
  OBVIOUS
<1>1. [ONext]_<<vars, ovars>>
  BY DEF HistoryNext
<1>2. TokenInv'
  BY <1>1, HandlersAreRequests, NextToken DEF FormsInv
<1>3. /\ HandlerInv'
      /\ \A u \in Users : Kept(u) /\ ~ Overlaps(u) => Kept(u)'
  BY <1>1, HandlerNext DEF FormsInv
<1>4. ASSUME NEW u \in Users \ raced'
      PROVE  ~ Overlaps(u)' /\ Kept(u)'
  <2>1. u \notin raced /\ ~ Overlaps(u) /\ Kept(u)
    BY <1>4 DEF HistoryNext, FormsInv, AloneInv
  <2>2. ~ Overlaps(u)'
    <3>1. CASE HistoryNext
      BY <3>1, <1>4 DEF HistoryNext
    <3>2. CASE UNCHANGED <<vars, ovars, raced>>
      BY <3>2, <2>1 DEF Overlaps, Acting, User, vars
    <3> QED BY <3>1, <3>2
  <2> QED BY <1>3, <2>1, <2>2
<1> QED BY <1>2, <1>3, <1>4 DEF FormsInv, AloneInv

\* A user whose own handlers come one after another has one row in each of the
\* preferences tables, however those of other users overlap.
THEOREM OneRowOfPreferences == HistorySpec => []PreferencesAreFound
<1>1. FormsInv => PreferencesAreFound
  BY DEF FormsInv, AloneInv, Kept, PreferencesAreFound
<1> QED BY FormsInit, FormsNext, <1>1, PTL DEF HistorySpec

\* The form such a user was last told is stored is the one that is.
THEOREM LastFormIsStored == HistorySpec => []LastFormsKept
<1>1. FormsInv => LastFormsKept
  BY DEF FormsInv, AloneInv, Kept, LastFormsKept
<1> QED BY FormsInit, FormsNext, <1>1, PTL DEF HistorySpec
=============================================================================
