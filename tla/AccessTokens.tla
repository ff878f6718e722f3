---------------------------- MODULE AccessTokens ----------------------------
(***************************************************************************)
(* Access tokens and their blacklist: the JWT that login and refresh issue,  *)
(* the middleware that asks Redis for it before every request (core/          *)
(* middleware.py, core/redis.py), the dependency that validates it afterwards *)
(* (api/deps.py), and logout, which commits in PostgreSQL and then puts the   *)
(* token on the blacklist for the rest of its lifetime.                      *)
(*                                                                         *)
(* Nothing but time and Redis connects a logout with the requests it is meant *)
(* to stop.  Time passes in ticks, TicksPerSecond of them to a second: exp is *)
(* a whole second, and so is the TTL of a key, while the clock is not.       *)
(* The refresh token a logout revokes is AuthSessions'; the cookie and the    *)
(* header are the same token for the middleware and the dependency.          *)
(***************************************************************************)
EXTENDS Integers

CONSTANTS Tokens,    \* access tokens (their jti)
          Requests,  \* requests in flight at once
          Lifetime,  \* ACCESS_TOKEN_EXPIRE_MINUTES, in seconds
          TicksPerSecond,
          MaxTime,   \* bound of the model: the clock stops here
          None       \* no token

ASSUME TokenAssumption ==
    /\ None \notin Tokens
    /\ Lifetime \in Nat /\ TicksPerSecond \in Nat \ {0} /\ MaxTime \in Nat

VARIABLES
    now,       \* the clock, in ticks
    exp,       \* the exp claim in seconds, 0 before the token is issued
    keyEnds,   \* Redis: the tick at which the token's key vanishes, 0 if none
    closed,    \* history: tokens whose key a logout has stored
    pc,        \* where each request is
    tok,       \* the access token it carries
    ttl,       \* the TTL a logout has worked out
    late       \* history: its look-up was answered and came after the logout

vars == <<now, exp, keyEnds, closed, pc, tok, ttl, late>>

-----------------------------------------------------------------------------
\* int(_now().timestamp())
Second == now \div TicksPerSecond

Issued == {k \in Tokens : exp[k] > 0}

\* redis_client.exists
Blacklisted(k) == now < keyEnds[k]

\* ExpiredSignatureError: exp <= now.
Expired(k) == exp[k] * TicksPerSecond <= now

Done(r) ==
    /\ pc'   = [pc   EXCEPT ![r] = "idle"]
    /\ tok'  = [tok  EXCEPT ![r] = None]
    /\ ttl'  = [ttl  EXCEPT ![r] = 0]
    /\ late' = [late EXCEPT ![r] = FALSE]

Init ==
    /\ now = 0
    /\ exp = [k \in Tokens |-> 0]
    /\ keyEnds = [k \in Tokens |-> 0]
    /\ closed = {}
    /\ pc = [r \in Requests |-> "idle"]
    /\ tok = [r \in Requests |-> None]
    /\ ttl = [r \in Requests |-> 0]
    /\ late = [r \in Requests |-> FALSE]

-----------------------------------------------------------------------------
\* create_access_token, at the end of login, signup, refresh and the Google
\* callback.  PyJWT writes exp in whole seconds.
Issue(k) ==
    /\ exp[k] = 0
    /\ exp' = [exp EXCEPT ![k] = Second + Lifetime]
    /\ UNCHANGED <<now, keyEnds, closed, pc, tok, ttl, late>>

-----------------------------------------------------------------------------
(* A request: the middleware asks Redis, the dependency decodes the token,   *)
(* the handler runs.                                                        *)

\* A blacklisted token is answered with 401 here and nothing changes.
Check(r, k) ==
    /\ pc[r] = "idle"
    /\ k \in Issued
    /\ ~ Blacklisted(k)
    /\ pc'   = [pc   EXCEPT ![r] = "checked"]
    /\ tok'  = [tok  EXCEPT ![r] = k]
    /\ late' = [late EXCEPT ![r] = k \in closed]
    /\ UNCHANGED <<now, exp, keyEnds, closed, ttl>>

\* Redis does not answer: the token passes for one that is not blacklisted.
CheckFails(r, k) ==
    /\ pc[r] = "idle"
    /\ k \in Issued
    /\ pc'  = [pc  EXCEPT ![r] = "checked"]
    /\ tok' = [tok EXCEPT ![r] = k]
    /\ UNCHANGED <<now, exp, keyEnds, closed, ttl, late>>

\* Mutant: the expiry is not verified, as in the middleware's own decoding.
Admit_AnyTime(r) ==
    /\ pc[r] = "checked"
    /\ pc' = [pc EXCEPT ![r] = "serving"]
    /\ UNCHANGED <<now, exp, keyEnds, closed, tok, ttl, late>>

Admit(r) ==
    /\ pc[r] = "checked"
    /\ ~ Expired(tok[r])
    /\ pc' = [pc EXCEPT ![r] = "serving"]
    /\ UNCHANGED <<now, exp, keyEnds, closed, tok, ttl, late>>

\* "Expired token".
Refuse(r) ==
    /\ pc[r] = "checked"
    /\ Expired(tok[r])
    /\ Done(r)
    /\ UNCHANGED <<now, exp, keyEnds, closed>>

Serve(r) ==
    /\ pc[r] = "serving"
    /\ Done(r)
    /\ UNCHANGED <<now, exp, keyEnds, closed>>

-----------------------------------------------------------------------------
(* Logout of the access token in its body: commit the revocation, work out   *)
(* the remaining lifetime, store the key.  The errors of the second half are  *)
(* swallowed and the answer is 200 all the same.                             *)

\* Mutant: the remaining time is taken a second short.
LogoutCommit_Short(r, k) ==
    /\ pc[r] = "idle"
    /\ k \in Issued
    /\ pc'  = [pc  EXCEPT ![r] = "logged_out"]
    /\ tok' = [tok EXCEPT ![r] = k]
    /\ ttl' = [ttl EXCEPT ![r] = exp[k] - Second - 1]
    /\ UNCHANGED <<now, exp, keyEnds, closed, late>>

LogoutCommit(r, k) ==
    /\ pc[r] = "idle"
    /\ k \in Issued
    /\ pc'  = [pc  EXCEPT ![r] = "logged_out"]
    /\ tok' = [tok EXCEPT ![r] = k]
    /\ ttl' = [ttl EXCEPT ![r] = exp[k] - Second]
    /\ UNCHANGED <<now, exp, keyEnds, closed, late>>

\* Mutant: the key is stored for as long as it has been there already.
Blacklist_KeepsTTL(r) ==
    /\ pc[r] = "logged_out"
    /\ keyEnds' = [keyEnds EXCEPT ![tok[r]] =
                     IF ttl[r] > 0 /\ ~ Blacklisted(tok[r])
                     THEN now + (ttl[r] - 1) * TicksPerSecond ELSE @]
    /\ closed' = closed \cup {tok[r]}
    /\ Done(r)
    /\ UNCHANGED <<now, exp>>

\* SETEX replaces the key and its TTL; nothing is stored for an expired token.
Blacklist(r) ==
    /\ pc[r] = "logged_out"
    /\ keyEnds' = [keyEnds EXCEPT ![tok[r]] =
                     IF ttl[r] > 0 THEN now + ttl[r] * TicksPerSecond ELSE @]
    /\ closed' = closed \cup {tok[r]}
    /\ Done(r)
    /\ UNCHANGED <<now, exp>>

\* A Redis error in a logout, or the end of any request by an error or a crash.
Fail(r) ==
    /\ pc[r] # "idle"
    /\ Done(r)
    /\ UNCHANGED <<now, exp, keyEnds, closed>>

Tick ==
    /\ now < MaxTime
    /\ now' = now + 1
    /\ UNCHANGED <<exp, keyEnds, closed, pc, tok, ttl, late>>

-----------------------------------------------------------------------------
Next ==
    \/ \E k \in Tokens : Issue(k)
    \/ \E r \in Requests :
         \/ \E k \in Tokens : Check(r, k) \/ CheckFails(r, k) \/ LogoutCommit(r, k)
         \/ Admit(r) \/ Refuse(r) \/ Serve(r) \/ Blacklist(r) \/ Fail(r)
    \/ Tick

Spec == Init /\ [][Next]_vars

-----------------------------------------------------------------------------
(* Properties. *)

TypeOK ==
    /\ now \in Nat
    /\ exp \in [Tokens -> Nat]
    /\ keyEnds \in [Tokens -> Nat]
    /\ closed \subseteq Tokens
    /\ pc \in [Requests -> {"idle", "checked", "serving", "logged_out"}]
    /\ tok \in [Requests -> Tokens \cup {None}]
    /\ ttl \in [Requests -> Int]
    /\ late \in [Requests -> BOOLEAN]

\* "it is rejected by the JWTBlacklistMiddleware for the remainder of its TTL":
\* a token whose logout has stored its key admits no request that asks Redis
\* afterwards and is answered, not even when the key has just expired.  What a
\* logged-out token still admits was looked up before the key was there, or
\* while Redis did not answer.
LogoutHolds == \A r \in Requests : pc[r] = "serving" => ~ late[r]
=============================================================================
