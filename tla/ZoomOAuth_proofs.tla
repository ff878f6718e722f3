-------------------------- MODULE ZoomOAuth_proofs --------------------------
(* Theorems about ZoomOAuth, for any grants, requests and states.           *)
EXTENDS OAuthHistory, TLAPS

\* A grant is held by the one request it was the answer for, until it is a row.
HeldInv ==
    /\ rows \subseteq issued
    /\ \A r \in Requests : held[r] # None <=> pc[r] \in {"answered", "flushed"}
    /\ \A r \in Requests : held[r] # None => held[r] \in issued \ rows
    /\ \A r, q \in Requests : held[r] # None /\ held[r] = held[q] => r = q

\* Only the refresh token of a row is ever sent, and only what was sent comes
\* back as the origin of a grant.
OriginInv ==
    /\ \A r \in Requests : pc[r] = "refreshing" => sent[r] # None
    /\ \A r \in Requests : sent[r] # None => sent[r] \in rows
    /\ \A h \in Grants : origin[h] # None => origin[h] \in rows /\ h \in issued

Later(h) == origin[h] # None => stamp[h] > stamp[origin[h]]

\* A row is dated after the row it was refreshed from.
StampInv ==
    /\ \A g \in Grants : stamp[g] <= clock
    /\ \A h \in rows : Later(h)
    /\ \A r \in Requests : pc[r] = "flushed" => Later(held[r])

\* What Zoom gave for a spent refresh token is lost, held or stored.
SpentInv ==
    \A g \in spent :
        \E h \in Grants : /\ origin[h] = g
                          /\ \/ h \in lost \cup rows
                             \/ \E r \in Requests : held[r] = h

GrantInv == TypeOK /\ HeldInv /\ OriginInv /\ StampInv /\ SpentInv

LEMMA InitGrant == Init => GrantInv
BY GrantAssumption
   DEF Init, GrantInv, TypeOK, HeldInv, OriginInv, StampInv, Later, SpentInv

-----------------------------------------------------------------------------
\* Steps that only move requests on: no grant is given, stored or lost.
LEMMA QuietGrant ==
    ASSUME GrantInv, TypeOK',
           UNCHANGED <<rows, stamp, clock, issued, spent, origin, lost, held>>,
           \A r \in Requests :
              /\ pc'[r] \in {"answered", "flushed"} \/ pc[r] \in {"answered", "flushed"}
                    => pc'[r] = pc[r]
              /\ sent'[r] # sent[r] => sent'[r] \in rows \cup {None}
              /\ pc'[r] = "refreshing" => sent'[r] # None
    PROVE  GrantInv'
<1>1. HeldInv'
  BY DEF GrantInv, TypeOK, HeldInv
<1>2. OriginInv'
  BY DEF GrantInv, OriginInv
<1>3. StampInv'
  BY DEF GrantInv, StampInv, Later
<1>4. SpentInv'
  BY DEF GrantInv, SpentInv
<1> QED BY <1>1, <1>2, <1>3, <1>4 DEF GrantInv

LEMMA RequestMoves ==
    ASSUME GrantInv, NEW r \in Requests,
           \/ FindNone(r) \/ Missing(r) \/ ZoomRefuses(r)
           \/ \E g \in Grants : FindLatest(r, g)
           \/ \E s \in States : Callback(r, s)
    PROVE  GrantInv'
<1>1. UNCHANGED <<rows, stamp, clock, issued, spent, origin, lost>>
  BY DEF FindNone, Missing, ZoomRefuses, FindLatest, Callback, table, zoom
<1>2. /\ pc[r] \in {"idle", "stale", "refreshing"}
      /\ held[r] = None
  BY DEF FindNone, Missing, ZoomRefuses, FindLatest, Callback, GrantInv, HeldInv
<1>3. held' = held
  BY <1>2 DEF FindNone, Missing, ZoomRefuses, FindLatest, Callback, Done, GrantInv, TypeOK
<1>4. TypeOK'
  BY DEF FindNone, Missing, ZoomRefuses, FindLatest, Callback, Done, GrantInv, TypeOK,
         table, zoom
<1>5. /\ pc'[r] \in {"idle", "stale", "refreshing", "exchanging"}
      /\ pc'[r] = "refreshing" => sent'[r] # None
      /\ sent'[r] # sent[r] => sent'[r] \in rows \cup {None}
  BY GrantAssumption
     DEF FindNone, Missing, ZoomRefuses, FindLatest, Callback, Done, GrantInv, TypeOK,
         Newest
<1>6. \A q \in Requests \ {r} : pc'[q] = pc[q] /\ sent'[q] = sent[q]
  BY DEF FindNone, Missing, ZoomRefuses, FindLatest, Callback, Done, GrantInv, TypeOK
<1>7. \A q \in Requests : pc[q] = "refreshing" => sent[q] # None
  BY DEF GrantInv, OriginInv
<1> QED BY <1>1, <1>2, <1>3, <1>4, <1>5, <1>6, <1>7, QuietGrant

LEMMA TimePasses ==
    ASSUME GrantInv,
           \/ \E s \in States : CreateState(s) \/ StateExpires(s)
           \/ \E g \in Grants : Expire(g)
    PROVE  GrantInv'
<1>1. UNCHANGED <<rows, stamp, clock, issued, spent, origin, lost, pc, sent, held>>
  BY DEF CreateState, StateExpires, Expire, table, zoom, request
<1>2. TypeOK'
  BY DEF CreateState, StateExpires, Expire, table, zoom, request, GrantInv, TypeOK
<1>3. \A q \in Requests : pc[q] = "refreshing" => sent[q] # None
  BY DEF GrantInv, OriginInv
<1> QED BY <1>1, <1>2, <1>3, QuietGrant

-----------------------------------------------------------------------------
\* Zoom's answer is a grant that nobody has seen.
LEMMA GrantFresh ==
    ASSUME GrantInv, NEW r \in Requests, NEW g \in Grants,
           NEW isRenewable \in BOOLEAN, NEW lasts \in BOOLEAN,
           Grant(r, g, isRenewable, lasts), pc[r] \notin {"answered", "flushed"},
           spent' \subseteq Grants,
           origin' \in [Grants -> Grants \cup {None}],
           \A h \in Grants \ {g} : origin'[h] = origin[h],
           origin'[g] # None => origin'[g] \in rows,
           \A k \in spent' : k \in spent \/ k = origin'[g]
    PROVE  GrantInv'
<1>1. /\ UNCHANGED <<rows, stamp, clock, lost, sent>>
      /\ g \notin issued /\ issued' = issued \cup {g}
      /\ held[r] = None /\ held'[r] = g /\ pc'[r] = "answered"
      /\ \A q \in Requests \ {r} : held'[q] = held[q] /\ pc'[q] = pc[q]
  BY DEF Grant, GrantInv, TypeOK, HeldInv
<1>2. TypeOK'
  BY DEF Grant, GrantInv, TypeOK
<1>3. HeldInv'
  BY <1>1, GrantAssumption DEF GrantInv, HeldInv
<1>4. OriginInv'
  BY <1>1 DEF GrantInv, TypeOK, OriginInv
<1>5. StampInv'
  <2>1. \A h \in Grants \ {g} : Later(h) => Later(h)'
    BY <1>1 DEF Later
  <2>2. g \notin rows /\ rows \subseteq Grants
    BY <1>1 DEF GrantInv, HeldInv, TypeOK
  <2>3. \A q \in Requests : pc'[q] = "flushed" => Later(held[q])'
    <3> TAKE q \in Requests
    <3> HAVE pc'[q] = "flushed"
    <3>1. q # r /\ held'[q] = held[q] /\ pc[q] = "flushed"
      BY <1>1
    <3>2. held[q] \in Grants \ {g}
      BY <1>1, <3>1 DEF GrantInv, HeldInv, TypeOK
    <3>3. Later(held[q])
      BY <3>1 DEF GrantInv, StampInv
    <3> QED BY <2>1, <3>1, <3>2, <3>3 DEF Later
  <2>4. \A h \in rows : Later(h)'
    BY <2>1, <2>2 DEF GrantInv, StampInv
  <2> QED BY <1>1, <2>3, <2>4 DEF StampInv, GrantInv
<1>6. SpentInv'
  <2> SUFFICES ASSUME NEW k \in spent'
               PROVE  \E h \in Grants : /\ origin'[h] = k
                                        /\ \/ h \in lost \cup rows
                                           \/ \E q \in Requests : held'[q] = h
    BY <1>1 DEF SpentInv
  <2>1. CASE k = origin'[g]
    BY <2>1, <1>1
  <2>2. CASE k \in spent
    <3>1. PICK h \in Grants : /\ origin[h] = k
                              /\ \/ h \in lost \cup rows
                                 \/ \E q \in Requests : held[q] = h
      BY <2>2 DEF GrantInv, SpentInv
    <3>2. k # None
      BY <2>2, GrantAssumption DEF GrantInv, TypeOK
    <3>3. h # g
      BY <3>1, <3>2, <1>1 DEF GrantInv, OriginInv
    <3>4. \A q \in Requests : held[q] = h => held'[q] = h
      BY <1>1, GrantAssumption
    <3> QED BY <3>1, <3>3, <3>4
  <2> QED BY <2>1, <2>2
<1> QED BY <1>2, <1>3, <1>4, <1>5, <1>6 DEF GrantInv

LEMMA ZoomAnswers ==
    ASSUME GrantInv, NEW r \in Requests, NEW g \in Grants,
           NEW isRenewable \in BOOLEAN, NEW lasts \in BOOLEAN,
           \/ ZoomRefreshes(r, g, isRenewable, lasts)
           \/ ZoomExchanges(r, g, isRenewable, lasts)
    PROVE  GrantInv'
<1>1. Grant(r, g, isRenewable, lasts) /\ pc[r] \notin {"answered", "flushed"}
  BY DEF ZoomRefreshes, ZoomExchanges
<1>2. CASE ZoomRefreshes(r, g, isRenewable, lasts)
  <2>1. sent[r] \in rows /\ rows \subseteq Grants
    BY <1>2 DEF ZoomRefreshes, GrantInv, OriginInv, TypeOK
  <2>2. /\ spent' \subseteq Grants
        /\ origin' \in [Grants -> Grants \cup {None}]
        /\ origin'[g] = sent[r]
        /\ \A h \in Grants \ {g} : origin'[h] = origin[h]
    BY <1>2, <2>1 DEF ZoomRefreshes, GrantInv, TypeOK
  <2>3. \A k \in spent' : k \in spent \/ k = origin'[g]
    BY <1>2, <2>2 DEF ZoomRefreshes
  <2> QED BY <1>1, <2>1, <2>2, <2>3, GrantFresh
<1>3. CASE ZoomExchanges(r, g, isRenewable, lasts)
  <2>1. spent' = spent /\ origin' = origin
    BY <1>3 DEF ZoomExchanges
  <2>2. /\ spent \subseteq Grants /\ origin \in [Grants -> Grants \cup {None}]
        /\ origin[g] # None => origin[g] \in rows
    BY DEF GrantInv, OriginInv, TypeOK
  <2> QED BY <1>1, <2>1, <2>2, GrantFresh
<1> QED BY <1>2, <1>3

-----------------------------------------------------------------------------
\* The new row is dated after every row there is.
LEMMA FlushGrant ==
    ASSUME GrantInv, NEW r \in Requests, Flush(r)
    PROVE  GrantInv'
<1>1. /\ UNCHANGED <<rows, issued, spent, origin, lost, sent, held>>
      /\ clock' = clock + 1 /\ clock \in Nat
      /\ held[r] \in Grants \ rows
      /\ stamp'[held[r]] = clock + 1
      /\ \A g \in Grants \ {held[r]} : stamp'[g] = stamp[g]
      /\ pc[r] = "answered" /\ pc'[r] = "flushed"
      /\ \A q \in Requests \ {r} : pc'[q] = pc[q]
  BY DEF Flush, zoom, GrantInv, TypeOK, HeldInv
<1>2. TypeOK'
  <2>1. clock + 1 \in Nat
    BY <1>1
  <2>2. /\ stamp' = [stamp EXCEPT ![held[r]] = clock + 1]
        /\ pc' = [pc EXCEPT ![r] = "flushed"]
        /\ UNCHANGED <<usable, renewable, valid>>
    BY DEF Flush, zoom
  <2> QED BY <1>1, <2>1, <2>2 DEF GrantInv, TypeOK
<1>3. HeldInv'
  BY <1>1 DEF GrantInv, HeldInv
<1>4. OriginInv'
  BY <1>1 DEF GrantInv, OriginInv
<1>5. StampInv'
  <2>1. \A g \in Grants : stamp[g] \in Nat /\ stamp[g] <= clock
    BY DEF GrantInv, StampInv, TypeOK
  <2>2. \A h \in Grants : origin[h] # None =>
           origin[h] \in Grants /\ stamp'[origin[h]] = stamp[origin[h]]
    BY <1>1 DEF GrantInv, OriginInv, TypeOK
  <2>3. \A h \in Grants : Later(h) => Later(h)'
    BY <1>1, <2>1, <2>2 DEF Later
  <2>4. Later(held[r])'
    BY <1>1, <2>1, <2>2 DEF Later
  <2>5. \A q \in Requests : pc'[q] = "flushed" => Later(held[q])'
    <3> TAKE q \in Requests
    <3> HAVE pc'[q] = "flushed"
    <3>1. CASE q = r
      BY <3>1, <2>4
    <3>2. CASE q # r
      <4>1. pc[q] = "flushed"
        BY <3>2, <1>1
      <4>2. held[q] \in Grants /\ Later(held[q])
        BY <4>1 DEF GrantInv, HeldInv, StampInv, TypeOK
      <4> QED BY <4>2, <2>3, <1>1 DEF Later
    <3> QED BY <3>1, <3>2
  <2>6. \A h \in rows : Later(h)'
    BY <2>3 DEF GrantInv, StampInv, TypeOK
  <2>7. \A g \in Grants : stamp'[g] <= clock'
    BY <1>1, <2>1
  <2> QED BY <1>1, <2>5, <2>6, <2>7 DEF StampInv, Later
<1>6. SpentInv'
  BY <1>1 DEF GrantInv, SpentInv
<1> QED BY <1>2, <1>3, <1>4, <1>5, <1>6 DEF GrantInv

LEMMA CommitGrant ==
    ASSUME GrantInv, NEW r \in Requests, Commit(r)
    PROVE  GrantInv'
<1>1. /\ UNCHANGED <<stamp, clock, issued, spent, origin, lost>>
      /\ held[r] \in issued \ rows /\ held[r] \in Grants
      /\ rows' = rows \cup {held[r]}
      /\ pc[r] = "flushed" /\ pc'[r] = "idle" /\ sent'[r] = None /\ held'[r] = None
      /\ \A q \in Requests \ {r} : /\ pc'[q] = pc[q] /\ sent'[q] = sent[q]
                                   /\ held'[q] = held[q]
  BY DEF Commit, Done, zoom, GrantInv, TypeOK, HeldInv
<1>2. TypeOK'
  BY <1>1 DEF Commit, Done, zoom, GrantInv, TypeOK
<1>3. HeldInv'
  BY <1>1 DEF GrantInv, HeldInv
<1>4. OriginInv'
  BY <1>1 DEF GrantInv, OriginInv
<1>5. StampInv'
  BY <1>1 DEF GrantInv, StampInv, Later
<1>6. SpentInv'
  <2> SUFFICES ASSUME NEW k \in spent
               PROVE  \E h \in Grants : /\ origin[h] = k
                                        /\ \/ h \in lost \cup rows'
                                           \/ \E q \in Requests : held'[q] = h
    BY <1>1 DEF SpentInv
  <2>1. PICK h \in Grants : /\ origin[h] = k
                            /\ \/ h \in lost \cup rows
                               \/ \E q \in Requests : held[q] = h
    BY DEF GrantInv, SpentInv
  <2> QED BY <2>1, <1>1
<1> QED BY <1>2, <1>3, <1>4, <1>5, <1>6 DEF GrantInv

\* What a request that fails was holding is lost.
LEMMA FailGrant ==
    ASSUME GrantInv, NEW r \in Requests, Fail(r)
    PROVE  GrantInv'
<1>1. /\ UNCHANGED <<rows, stamp, clock, issued, spent, origin>>
      /\ lost' = lost \cup ({held[r]} \ {None})
      /\ pc'[r] = "idle" /\ sent'[r] = None /\ held'[r] = None
      /\ \A q \in Requests \ {r} : /\ pc'[q] = pc[q] /\ sent'[q] = sent[q]
                                   /\ held'[q] = held[q]
  BY DEF Fail, Done, table, zoom, GrantInv, TypeOK
<1>2. TypeOK'
  BY DEF Fail, Done, table, zoom, GrantInv, TypeOK
<1>3. HeldInv'
  BY <1>1 DEF GrantInv, HeldInv
<1>4. OriginInv'
  BY <1>1 DEF GrantInv, OriginInv
<1>5. StampInv'
  BY <1>1 DEF GrantInv, StampInv, Later
<1>6. SpentInv'
  <2> SUFFICES ASSUME NEW k \in spent
               PROVE  \E h \in Grants : /\ origin[h] = k
                                        /\ \/ h \in lost' \cup rows
                                           \/ \E q \in Requests : held'[q] = h
    BY <1>1 DEF SpentInv
  <2>1. PICK h \in Grants : /\ origin[h] = k
                            /\ \/ h \in lost \cup rows
                               \/ \E q \in Requests : held[q] = h
    BY DEF GrantInv, SpentInv
  <2>2. h # None
    BY GrantAssumption
  <2> QED BY <2>1, <2>2, <1>1
<1> QED BY <1>2, <1>3, <1>4, <1>5, <1>6 DEF GrantInv

LEMMA StutterGrant ==
    ASSUME GrantInv, UNCHANGED vars
    PROVE  GrantInv'
<1>1. TypeOK' /\ UNCHANGED <<rows, stamp, clock, issued, spent, origin, lost, pc, sent, held>>
  BY DEF vars, table, zoom, request, GrantInv, TypeOK
<1>2. \A q \in Requests : pc[q] = "refreshing" => sent[q] # None
  BY DEF GrantInv, OriginInv
<1> QED BY <1>1, <1>2, QuietGrant

LEMMA NextGrant ==
    ASSUME GrantInv, [Next]_vars
    PROVE  GrantInv'
<1>1. ASSUME NEW r \in Requests,
             \/ FindNone(r) \/ Missing(r) \/ ZoomRefuses(r)
             \/ \E g \in Grants : FindLatest(r, g)
             \/ \E s \in States : Callback(r, s)
      PROVE  GrantInv'
  BY <1>1, RequestMoves
<1>2. ASSUME NEW r \in Requests, NEW g \in Grants,
             NEW isRenewable \in BOOLEAN, NEW lasts \in BOOLEAN,
             \/ ZoomRefreshes(r, g, isRenewable, lasts)
             \/ ZoomExchanges(r, g, isRenewable, lasts)
      PROVE  GrantInv'
  BY <1>2, ZoomAnswers
<1>3. ASSUME NEW r \in Requests, Flush(r) PROVE GrantInv'
  BY <1>3, FlushGrant
<1>4. ASSUME NEW r \in Requests, Commit(r) PROVE GrantInv'
  BY <1>4, CommitGrant
<1>5. ASSUME NEW r \in Requests, Fail(r) PROVE GrantInv'
  BY <1>5, FailGrant
<1>6. CASE \/ \E s \in States : CreateState(s) \/ StateExpires(s)
           \/ \E g \in Grants : Expire(g)
  BY <1>6, TimePasses
<1>7. CASE UNCHANGED vars
  BY <1>7, StutterGrant
<1> QED BY <1>1, <1>2, <1>3, <1>4, <1>5, <1>6, <1>7 DEF Next

-----------------------------------------------------------------------------
\* A successor that is stored is newer, so its origin is not the newest row.
LEMMA GrantStranded == GrantInv => RenewableUnlessLost
<1> SUFFICES ASSUME GrantInv, NEW g \in Newest \cap spent PROVE Pending(g)
  BY DEF RenewableUnlessLost
<1>1. PICK h \in Grants : /\ origin[h] = g
                          /\ \/ h \in lost \cup rows
                             \/ \E r \in Requests : held[r] = h
  BY DEF GrantInv, SpentInv
<1>2. g \in Grants /\ g # None /\ stamp[g] \in Nat /\ stamp[h] \in Nat
  BY GrantAssumption DEF GrantInv, TypeOK
<1>3. h \notin rows
  BY <1>1, <1>2 DEF Newest, GrantInv, StampInv, Later
<1> QED BY <1>1, <1>3 DEF Pending

LEMMA GrantRefused == GrantInv => RefusalIsTransient
<1> SUFFICES ASSUME GrantInv, NEW r \in Requests, sent[r] \in spent
             PROVE  \/ Pending(sent[r])
                    \/ \E h \in rows : origin[h] = sent[r] /\ stamp[h] > stamp[sent[r]]
  BY DEF RefusalIsTransient
<1>1. PICK h \in Grants : /\ origin[h] = sent[r]
                          /\ \/ h \in lost \cup rows
                             \/ \E q \in Requests : held[q] = h
  BY DEF GrantInv, SpentInv
<1>2. sent[r] # None
  BY GrantAssumption DEF GrantInv, TypeOK
<1>3. h \in rows => stamp[h] > stamp[sent[r]]
  BY <1>1, <1>2 DEF GrantInv, StampInv, Later
<1> QED BY <1>1, <1>3 DEF Pending

\* The variables of the token table and of its requests keep their types
\* (sdk/models.py, SDKZoomOAuthToken).
THEOREM TypeCorrect == Spec => []TypeOK
<1>1. GrantInv => TypeOK
  BY DEF GrantInv
<1> QED BY InitGrant, NextGrant, <1>1, PTL DEF Spec

\* However starts, stops and callbacks overlap, the newest row can be renewed,
\* unless the answer that replaces it is on its way or was lost, or Zoom gave it
\* no refresh token (oauth.py, get_access_token and _store_token).
THEOREM StrandedByLossOrZoom == Spec => []RenewableUnlessLost
<1> QED BY InitGrant, NextGrant, GrantStranded, PTL DEF Spec

\* A refused refresh sent a token that a newer row, or one on its way or lost,
\* has replaced (oauth.py, refresh_access_token).
THEOREM RefusalsPass == Spec => []RefusalIsTransient
<1> QED BY InitGrant, NextGrant, GrantRefused, PTL DEF Spec

-----------------------------------------------------------------------------
(* What is stored behind the back of a request.                             *)

\* No two rows have the same date.
DatesDiffer ==
    /\ \A g \in Grants : (\E r \in Requests : pc[r] = "flushed" /\ held[r] = g)
                          \/ g \in rows => stamp[g] > 0
    /\ \A g, h \in Grants : stamp[g] > 0 /\ stamp[g] = stamp[h] => g = h

\* What a request knows of the newest row is still so, but for rows stored since:
\* none that can be handed out, and none but the one it sends the token of.
Known(r) ==
    /\ pc[r] = "idle" => since[r] = {}
    /\ pc[r] \in {"idle", "stale", "exchanging"} => sent[r] = None
    /\ pc[r] = "stale" => Newest \cap usable \subseteq since[r]
    /\ pc[r] = "refreshing" => sent[r] \notin usable \/ sent[r] \in since[r]
    /\ sent[r] # None => Newest \subseteq {sent[r]} \cup since[r]
    /\ sent[r] # None /\ held[r] # None => sent[r] \in spent

KnownInv == \A r \in Requests : Known(r)

\* A date is given out once.
LEMMA DatesNext == GrantInv /\ DatesDiffer /\ [Next]_vars => DatesDiffer'
<1> SUFFICES ASSUME GrantInv, DatesDiffer, [Next]_vars PROVE DatesDiffer'
  OBVIOUS
<1> USE DEF GrantInv, TypeOK
<1>1. ASSUME NEW r \in Requests, Flush(r) PROVE DatesDiffer'
  <2>1. /\ rows' = rows /\ held' = held /\ clock \in Nat
        /\ held[r] \in Grants /\ stamp'[held[r]] = clock + 1
        /\ \A g \in Grants \ {held[r]} : stamp'[g] = stamp[g]
        /\ \A q \in Requests \ {r} : pc'[q] = pc[q]
    BY <1>1 DEF Flush, HeldInv, zoom
  <2>2. \A g \in Grants : stamp[g] \in Nat /\ stamp[g] <= clock
    BY DEF StampInv
  <2>3. \A g, h \in Grants : stamp'[g] > 0 /\ stamp'[g] = stamp'[h] => g = h
    BY <2>1, <2>2 DEF DatesDiffer
  <2>4. \A g \in Grants : stamp[g] > 0 => stamp'[g] > 0
    BY <2>1, <2>2
  <2>5. \A g \in Grants : (\E q \in Requests : pc'[q] = "flushed" /\ held'[q] = g)
                          \/ g \in rows' => stamp'[g] > 0
    <3> TAKE g \in Grants
    <3>1. ASSUME NEW q \in Requests, pc'[q] = "flushed", held'[q] = g
          PROVE  stamp'[g] > 0
      <4>1. CASE q = r
        BY <4>1, <3>1, <2>1
      <4>2. CASE q # r
        BY <4>2, <3>1, <2>1, <2>4 DEF DatesDiffer
      <4> QED BY <4>1, <4>2
    <3> QED BY <3>1, <2>1, <2>4 DEF DatesDiffer
  <2> QED BY <2>3, <2>5 DEF DatesDiffer
<1>2. ASSUME NEW r \in Requests, Commit(r) PROVE DatesDiffer'
  <2>1. /\ stamp' = stamp /\ rows' = rows \cup {held[r]} /\ pc[r] = "flushed"
        /\ pc'[r] = "idle"
        /\ \A q \in Requests \ {r} : pc'[q] = pc[q] /\ held'[q] = held[q]
    BY <1>2 DEF Commit, Done
  <2> QED BY <2>1 DEF DatesDiffer
<1>3. ASSUME stamp' = stamp, rows' = rows,
             \A r \in Requests : pc'[r] = "flushed" =>
                pc[r] = "flushed" /\ held'[r] = held[r]
      PROVE  DatesDiffer'
  BY <1>3 DEF DatesDiffer
<1>4. ASSUME NEW r \in Requests,
             \/ FindNone(r) \/ Missing(r) \/ ZoomRefuses(r) \/ Fail(r)
             \/ \E g \in Grants : FindLatest(r, g)
             \/ \E g \in Grants, isRenewable, lasts \in BOOLEAN :
                  \/ ZoomRefreshes(r, g, isRenewable, lasts)
                  \/ ZoomExchanges(r, g, isRenewable, lasts)
             \/ \E s \in States : Callback(r, s)
      PROVE  DatesDiffer'
  <2>1. stamp' = stamp /\ rows' = rows
    BY <1>4 DEF FindNone, Missing, ZoomRefuses, Fail, FindLatest, ZoomRefreshes,
                ZoomExchanges, Callback, Grant, table
  <2>2. /\ pc'[r] # "flushed"
        /\ \A q \in Requests \ {r} : pc'[q] = pc[q] /\ held'[q] = held[q]
    BY <1>4 DEF FindNone, Missing, ZoomRefuses, Fail, FindLatest, ZoomRefreshes,
                ZoomExchanges, Callback, Grant, Done
  <2> QED BY <2>1, <2>2, <1>3
<1>5. ASSUME \/ \E s \in States : CreateState(s) \/ StateExpires(s)
             \/ \E g \in Grants : Expire(g)
             \/ UNCHANGED vars
      PROVE  DatesDiffer'
  BY <1>3, <1>5 DEF CreateState, StateExpires, Expire, vars, table, request
<1> QED BY <1>1, <1>2, <1>4, <1>5 DEF Next

\* A step that commits the rows in new, or none, and leaves r where it is.
LEMMA KnownStays ==
    ASSUME GrantInv, NEW r \in Requests, Known(r),
           pc'[r] = pc[r], sent'[r] = sent[r], held'[r] = held[r],
           NEW new \in SUBSET Grants, rows' = rows \cup new, new \cap rows = {},
           \A g \in rows : stamp'[g] = stamp[g],
           since'[r] = IF pc[r] = "idle" THEN {} ELSE since[r] \cup new,
           usable' \cap issued \subseteq usable, spent \subseteq spent'
    PROVE  Known(r)'
<1>1. Newest' \subseteq Newest \cup new
  BY DEF Newest
<1>2. Newest \subseteq issued /\ (sent[r] # None => sent[r] \in issued)
  BY DEF Newest, GrantInv, HeldInv, OriginInv
<1>3. pc[r] # "idle" => since'[r] = since[r] \cup new
  OBVIOUS
<1>4. pc[r] = "refreshing" => sent[r] # None
  BY DEF GrantInv, OriginInv
<1> QED BY <1>1, <1>2, <1>3, <1>4 DEF Known

\* The request that takes the step.
LEMMA KnownMoves ==
    ASSUME GrantInv, DatesDiffer, NEW r \in Requests, Known(r),
           since'[r] = IF pc'[r] = "idle" THEN {} ELSE since[r] \cup (rows' \ rows),
           \/ FindNone(r) \/ Missing(r) \/ ZoomRefuses(r) \/ Fail(r)
           \/ Flush(r) \/ Commit(r)
           \/ \E g \in Grants : FindLatest(r, g)
           \/ \E g \in Grants, isRenewable, lasts \in BOOLEAN :
                \/ ZoomRefreshes(r, g, isRenewable, lasts)
                \/ ZoomExchanges(r, g, isRenewable, lasts)
           \/ \E s \in States : Callback(r, s)
    PROVE  Known(r)'
<1> USE DEF GrantInv, TypeOK
<1>1. CASE FindNone(r)
  <2>1. /\ pc'[r] = "stale" /\ sent'[r] = None /\ since'[r] = {}
        /\ Newest' \cap usable' = {}
    BY <1>1 DEF FindNone, table, Newest, Known
  <2> QED BY <2>1 DEF Known
<1>2. CASE Missing(r) \/ ZoomRefuses(r) \/ Fail(r) \/ Commit(r)
  <2>1. pc'[r] = "idle" /\ sent'[r] = None /\ since'[r] = {}
    BY <1>2 DEF Missing, ZoomRefuses, Fail, Commit, Done
  <2> QED BY <2>1 DEF Known
<1>3. ASSUME NEW s \in States, Callback(r, s)
      PROVE  Known(r)'
  <2>1. /\ pc'[r] = "exchanging" /\ sent'[r] = None /\ since'[r] = {}
    BY <1>3 DEF Callback, table, Known
  <2> QED BY <2>1 DEF Known
<1>4. ASSUME NEW g \in Grants, FindLatest(r, g)
      PROVE  Known(r)'
  <2>1. /\ pc[r] = "stale" /\ pc'[r] = "refreshing" /\ sent'[r] = g /\ held'[r] = None
        /\ since'[r] = since[r] /\ Newest' = Newest /\ usable' = usable
    BY <1>4 DEF FindLatest, table, Newest, HeldInv
  <2>2. Newest = {g}
    <3>1. g \in Newest
      BY <1>4 DEF FindLatest
    <3>2. ASSUME NEW h \in Newest PROVE h = g
      BY <3>1, <3>2 DEF Newest, DatesDiffer
    <3> QED BY <3>1, <3>2
  <2>3. g \notin usable \/ g \in since[r]
    BY <2>1, <2>2 DEF Known
  <2> QED BY <2>1, <2>2, <2>3 DEF Known
<1>5. ASSUME NEW g \in Grants, NEW isRenewable \in BOOLEAN, NEW lasts \in BOOLEAN,
             ZoomRefreshes(r, g, isRenewable, lasts)
      PROVE  Known(r)'
  <2>1. /\ pc[r] = "refreshing" /\ pc'[r] = "answered" /\ sent'[r] = sent[r]
        /\ since'[r] = since[r] /\ Newest' = Newest /\ sent[r] \in spent'
    BY <1>5 DEF ZoomRefreshes, Grant, Newest
  <2> QED BY <2>1 DEF Known
<1>6. ASSUME NEW g \in Grants, NEW isRenewable \in BOOLEAN, NEW lasts \in BOOLEAN,
             ZoomExchanges(r, g, isRenewable, lasts)
      PROVE  Known(r)'
  <2>1. pc'[r] = "answered" /\ sent'[r] = None
    BY <1>6 DEF ZoomExchanges, Grant, Known
  <2> QED BY <2>1 DEF Known
<1>7. CASE Flush(r)
  <2>1. /\ pc[r] = "answered" /\ pc'[r] = "flushed" /\ since'[r] = since[r]
        /\ UNCHANGED <<rows, sent, held, spent>>
        /\ \A g \in rows : stamp'[g] = stamp[g]
    BY <1>7 DEF Flush, zoom, HeldInv
  <2>2. Newest' = Newest
    BY <2>1 DEF Newest
  <2> QED BY <2>1, <2>2 DEF Known
<1> QED BY <1>1, <1>2, <1>3, <1>4, <1>5, <1>6, <1>7

LEMMA KnownNext ==
    ASSUME GrantInv, DatesDiffer, KnownInv, [HistoryNext]_<<vars, since>>
    PROVE  KnownInv'
<1> SUFFICES ASSUME NEW r \in Requests PROVE Known(r)'
  BY DEF KnownInv
<1> USE DEF GrantInv, TypeOK
<1>1. Known(r)
  BY DEF KnownInv
<1>2. CASE UNCHANGED <<vars, since>>
  BY <1>1, <1>2 DEF vars, table, zoom, request, Known, Newest
<1>3. ASSUME HistoryNext, pc'[r] = pc[r]
      PROVE  since'[r] = IF pc[r] = "idle" THEN {} ELSE since[r] \cup (rows' \ rows)
  BY <1>3 DEF HistoryNext
<1>4. ASSUME HistoryNext, NEW q \in Requests,
             \/ FindNone(q) \/ Missing(q) \/ ZoomRefuses(q) \/ Fail(q)
             \/ Flush(q) \/ Commit(q)
             \/ \E g \in Grants : FindLatest(q, g)
             \/ \E g \in Grants, isRenewable, lasts \in BOOLEAN :
                  \/ ZoomRefreshes(q, g, isRenewable, lasts)
                  \/ ZoomExchanges(q, g, isRenewable, lasts)
             \/ \E s \in States : Callback(q, s)
      PROVE  Known(r)'
  <2>1. CASE q = r
    <3>1. since'[r] = IF pc'[r] = "idle" THEN {} ELSE since[r] \cup (rows' \ rows)
      BY <1>4 DEF HistoryNext
    <3> QED BY <1>1, <1>4, <2>1, <3>1, KnownMoves
  <2>2. CASE q # r
    <3>1. pc'[r] = pc[r] /\ sent'[r] = sent[r] /\ held'[r] = held[r]
      BY <1>4, <2>2 DEF FindNone, Missing, ZoomRefuses, Fail, Flush, Commit, FindLatest,
                        ZoomRefreshes, ZoomExchanges, Callback, Grant, Done
    <3>2. PICK new \in SUBSET Grants : rows' = rows \cup new /\ new \cap rows = {}
      <4>1. CASE Commit(q)
        <5>1. rows' = rows \cup {held[q]} /\ held[q] \in Grants \ rows
          BY <4>1 DEF Commit, HeldInv
        <5>2. /\ {held[q]} \in SUBSET Grants /\ {held[q]} \cap rows = {}
              /\ rows' = rows \cup {held[q]}
          BY <5>1
        <5> QED BY <5>2
      <4>2. CASE ~ Commit(q)
        <5>1. rows' = rows
          BY <1>4, <4>2 DEF FindNone, Missing, ZoomRefuses, Fail, Flush, FindLatest,
                            ZoomRefreshes, ZoomExchanges, Callback, Grant, table
        <5> WITNESS {} \in SUBSET Grants
        <5> QED BY <5>1
      <4> QED BY <4>1, <4>2
    <3>3. \A g \in rows : stamp'[g] = stamp[g]
      BY <1>4 DEF FindNone, Missing, ZoomRefuses, Fail, Flush, Commit, FindLatest,
                  ZoomRefreshes, ZoomExchanges, Callback, Grant, table, HeldInv
    <3>4. usable' \cap issued \subseteq usable /\ spent \subseteq spent'
      BY <1>4 DEF FindNone, Missing, ZoomRefuses, Fail, Flush, Commit, FindLatest,
                  ZoomRefreshes, ZoomExchanges, Callback, Grant, table, zoom
    <3>5. since'[r] = IF pc[r] = "idle" THEN {} ELSE since[r] \cup new
      BY <1>3, <1>4, <3>1, <3>2
    <3> QED BY <1>1, <3>1, <3>2, <3>3, <3>4, <3>5, KnownStays
  <2> QED BY <2>1, <2>2
<1>5. ASSUME HistoryNext,
             \/ \E s \in States : CreateState(s) \/ StateExpires(s)
             \/ \E g \in Grants : Expire(g)
      PROVE  Known(r)'
  <2>1. /\ UNCHANGED <<rows, stamp, spent, pc, sent, held>>
        /\ usable' \subseteq usable
    BY <1>5 DEF CreateState, StateExpires, Expire, table, zoom, request
  <2>2. since'[r] = IF pc[r] = "idle" THEN {} ELSE since[r] \cup {}
    BY <1>3, <1>5, <2>1
  <2>3. {} \in SUBSET Grants /\ rows' = rows \cup {} /\ {} \cap rows = {}
    BY <2>1
  <2> QED BY <1>1, <2>1, <2>2, <2>3, KnownStays
<1> QED BY <1>2, <1>4, <1>5 DEF HistoryNext, Next

LEMMA HistoryHolds == HistorySpec => [](GrantInv /\ DatesDiffer /\ KnownInv)
<1>1. HistoryInit => GrantInv /\ DatesDiffer /\ KnownInv
  <2> SUFFICES ASSUME HistoryInit PROVE GrantInv /\ DatesDiffer /\ KnownInv
    OBVIOUS
  <2>1. GrantInv
    BY InitGrant DEF HistoryInit
  <2>2. DatesDiffer
    BY DEF HistoryInit, Init, DatesDiffer
  <2>3. KnownInv
    BY DEF HistoryInit, Init, KnownInv, Known
  <2> QED BY <2>1, <2>2, <2>3
<1>2. /\ GrantInv /\ DatesDiffer /\ KnownInv /\ [HistoryNext]_<<vars, since>>
      => GrantInv' /\ DatesDiffer' /\ KnownInv'
  <2>1. [HistoryNext]_<<vars, since>> => [Next]_vars
    BY DEF HistoryNext
  <2> QED BY <2>1, NextGrant, DatesNext, KnownNext
<1> QED BY <1>1, <1>2, PTL DEF HistorySpec

\* However callbacks and refreshes overlap, the token of a row that could still
\* be handed out is spent only by a request that the row came too late for
\* (oauth.py, get_access_token).
THEOREM OnlyNewRowsAreRefreshedEarly == HistorySpec => []RefreshesStaleOrNew
<1>1. KnownInv => RefreshesStaleOrNew
  BY DEF KnownInv, Known, RefreshesStaleOrNew
<1> QED BY HistoryHolds, <1>1, PTL

\* The answer of a refresh hides no row that could be renewed, but for rows
\* stored while it was on its way (oauth.py, refresh_access_token).
THEOREM AnswersHideSpentRows == HistorySpec => []HidesSpentOrNew
<1>1. KnownInv => HidesSpentOrNew
  BY DEF KnownInv, Known, HidesSpentOrNew
<1> QED BY HistoryHolds, <1>1, PTL
=============================================================================
