-------------------------- MODULE ApsClientProofs --------------------------
(***************************************************************************)
(* Proofs about ApsClient, for any number of concurrent requests of any    *)
(* kinds, and any retries, lifetimes and timeouts that satisfy             *)
(* ConstantsAssumption.                                                    *)
(***************************************************************************)
EXTENDS ApsClient, TLAPS

-----------------------------------------------------------------------------
\* Type correctness.

\* An attempt of request r is over, with its answer if it was the last.
LEMMA LeaveType ==
    ASSUME TypeOK, NEW r \in Requests, NEW point \in Points \ {"granted", "sent"}, Leave(r, point)
    PROVE  /\ pc' \in [Requests -> Points]
           /\ token' \in [Requests -> Token \cup {None}]
           /\ \A q \in Requests : pc'[q] \in {"granted", "sent"} => token'[q] \in Token
           /\ since' \in [Requests -> Nat]
BY DEF TypeOK, Leave, Goto

LEMMA OnWireType ==
    ASSUME TypeOK, NEW r \in Requests, NEW t \in Token, PutOnWire(r, t)
    PROVE  /\ pc' \in [Requests -> Points]
           /\ token' \in [Requests -> Token \cup {None}]
           /\ \A q \in Requests : pc'[q] \in {"granted", "sent"} => token'[q] \in Token
           /\ \A q \in Requests : pc'[q] = "sleeping" => pc[q] = "sleeping"
           /\ since' \in [Requests -> Nat]
BY DEF TypeOK, PutOnWire, Goto, Points

LEMMA Names ==
    /\ {"token", "sleeping", "done", "fetching"} \subseteq Points \ {"granted", "sent"}
    /\ {"granted", "sent"} \subseteq Points
    /\ {"success", "garbled", "failed", "unknown"} \subseteq Answers
BY DEF Points, Answers

\* How an answer to the attempt of request r changes the rest of the state.
Typed(r) ==
    /\ \E point \in Points \ {"granted", "sent"} : Leave(r, point)
    /\ attempt' \in [Requests -> 0..MaxRetries]
    /\ \A q \in Requests : pc'[q] = "sleeping" => attempt'[q] < MaxRetries
    /\ answer' \in [Requests -> Answers]

LEMMA FinishType ==
    ASSUME TypeOK, NEW r \in Requests, NEW a \in Answers, Finish(r, a), UNCHANGED attempt
    PROVE  Typed(r)
<1>1. Leave(r, "done") /\ answer' \in [Requests -> Answers]
  BY DEF TypeOK, Finish
<1>2. \A q \in Requests : pc'[q] = "sleeping" => pc[q] = "sleeping"
  BY <1>1 DEF Leave, Goto, TypeOK
<1>3. QED
  BY <1>1, <1>2, Names DEF Typed, TypeOK

LEMMA SleepType ==
    ASSUME TypeOK, NEW r \in Requests, MayRetry(r), Sleep(r)
    PROVE  Typed(r)
<1>1. \A q \in Requests : pc'[q] = "sleeping" => q = r \/ pc[q] = "sleeping"
  BY DEF Sleep, Leave, Goto, TypeOK
<1>2. QED
  BY <1>1, Names DEF TypeOK, Sleep, Typed, MayRetry

LEMMA EffectType ==
    ASSUME TypeOK, NEW r \in Requests, TakesEffect(r)
    PROVE  effects' \in [Requests -> Nat]
BY DEF TypeOK, TakesEffect

LEMMA TypeStep == TypeOK /\ [Next]_vars => TypeOK'
<1> SUFFICES ASSUME TypeOK, [Next]_vars
             PROVE  TypeOK'
  OBVIOUS
<1>1. ASSUME NEW r \in Requests, Begin(r)
      PROVE  TypeOK'
  <2>1. pc' \in [Requests -> Points] /\ \A q \in Requests :
            pc'[q] \in {"granted", "sent", "sleeping"} => pc[q] = pc'[q]
    BY <1>1, Names DEF Begin, Goto, TypeOK
  <2>2. QED
    BY <1>1, <2>1 DEF Begin, TypeOK, auth, outcome
<1>2. ASSUME NEW r \in Requests, GetAccessToken(r)
      PROVE  TypeOK'
  <2>1. CASE CacheValid /\ PutOnWire(r, cache.token)
    <3>1. cache.token \in Token
      BY <2>1 DEF TypeOK, CacheValid
    <3>2. QED
      BY <1>2, <2>1, <3>1, OnWireType DEF GetAccessToken, TypeOK, auth, outcome
  <2>2. CASE Goto(r, "fetching") /\ since' = [since EXCEPT ![r] = now] /\ UNCHANGED token
    BY Names, <1>2, <2>2 DEF GetAccessToken, Goto, TypeOK, auth, outcome
  <2>3. QED
    BY <1>2, <2>1, <2>2 DEF GetAccessToken
<1>3. ASSUME NEW r \in Requests, IssueToken(r)
      PROVE  TypeOK'
  <2>1. [no |-> issued + 1, until |-> now + Lifetime] \in Token
    BY ConstantsAssumption DEF TypeOK, Token
  <2>2. revoked' \in 0..issued' /\ issued' \in Nat
    BY <1>3 DEF IssueToken, TypeOK
  <2>3. QED
    <3>1. pc' = [pc EXCEPT ![r] = "granted"] /\ token' = [token EXCEPT ![r] =
              [no |-> issued + 1, until |-> now + Lifetime]]
      BY <1>3 DEF IssueToken, Goto
    <3>2. pc' \in [Requests -> Points] /\ token' \in [Requests -> Token \cup {None}]
      BY <2>1, <3>1, Names DEF TypeOK
    <3>3. \A q \in Requests : /\ pc'[q] \in {"granted", "sent"} => token'[q] \in Token
                              /\ pc'[q] = "sleeping" => pc[q] = "sleeping"
      BY <2>1, <3>1 DEF TypeOK
    <3>4. QED
      BY <1>3, <2>2, <3>2, <3>3 DEF IssueToken, TypeOK, outcome
<1>4. ASSUME NEW r \in Requests, ReceiveToken(r)
      PROVE  TypeOK'
  <2>1. token[r] \in Token
    BY <1>4 DEF ReceiveToken, TypeOK
  <2>2. cache' \in [token : Token, expiresAt : Nat]
    BY <1>4, <2>1, ConstantsAssumption DEF ReceiveToken, TypeOK
  <2>3. QED
    BY <1>4, <2>1, <2>2, OnWireType DEF ReceiveToken, TypeOK, outcome
<1>5. ASSUME NEW r \in Requests, Wake(r)
      PROVE  TypeOK'
  <2>1. attempt' \in [Requests -> 0..MaxRetries] /\ attempt' = [attempt EXCEPT ![r] = @ + 1]
    BY <1>5, ConstantsAssumption DEF Wake, CountsAttempt, TypeOK
  <2>2. pc' = [pc EXCEPT ![r] = "token"]
    BY <1>5 DEF Wake, Goto
  <2>3. pc' \in [Requests -> Points] /\ \A q \in Requests :
            (pc'[q] = "sleeping" => attempt'[q] < MaxRetries)
            /\ (pc'[q] \in {"granted", "sent"} => pc[q] \in {"granted", "sent"})
    BY <2>1, <2>2, Names DEF TypeOK
  <2>4. QED
    BY <1>5, <2>1, <2>3 DEF Wake, TypeOK, auth, outcome
<1>6. ASSUME NEW r \in Requests, Unauthorized(r)
      PROVE  TypeOK'
  <2>1. Typed(r) /\ (cache' = cache \/ cache' = None)
    <3>1. CASE MayRetry(r) /\ InvalidateToken /\ Leave(r, "token") /\ CountsAttempt(r)
               /\ UNCHANGED answer
      <4>1. attempt' \in [Requests -> 0..MaxRetries]
        BY <3>1, ConstantsAssumption DEF MayRetry, CountsAttempt, TypeOK
      <4>2. \A q \in Requests : pc'[q] = "sleeping" => attempt'[q] < MaxRetries
        BY <3>1 DEF Leave, Goto, CountsAttempt, TypeOK
      <4>3. QED
        BY <3>1, <4>1, <4>2, Names DEF Typed, TypeOK, InvalidateToken
    <3>2. CASE ~MayRetry(r) /\ Finish(r, "failed") /\ UNCHANGED <<cache, attempt>>
      BY <3>2, FinishType, Names
    <3>3. QED
      BY <1>6, <3>1, <3>2 DEF Unauthorized
  <2>2. rejected' \in [Requests -> SUBSET Nat]
    BY <1>6 DEF Unauthorized, TypeOK, Token
  <2>3. QED
    BY <1>6, <2>1, <2>2, LeaveType DEF Unauthorized, Typed, TypeOK
<1>7. ASSUME NEW r \in Requests, FetchFails(r) \/ RateLimited(r) \/ Refused(r)
      PROVE  TypeOK'
  <2>1. Typed(r)
    BY <1>7, FinishType, SleepType, Names DEF FetchFails, RateLimited, Refused
  <2>2. QED
    BY <1>7, <2>1, LeaveType DEF FetchFails, RateLimited, Refused, Typed, TypeOK, auth
<1>8. ASSUME NEW r \in Requests, ServerError(r) \/ Done(r)
      PROVE  TypeOK'
  <2>1. Typed(r)
    BY <1>8, FinishType, SleepType, Names DEF ServerError, Done
  <2>2. effects' \in [Requests -> Nat]
    BY <1>8, EffectType DEF ServerError, Done, TypeOK
  <2>3. QED
    BY <1>8, <2>1, <2>2, LeaveType DEF ServerError, Done, Typed, TypeOK, auth
<1>9. ASSUME NEW r \in Requests, NoAnswer(r)
      PROVE  TypeOK'
  <2>1. Typed(r)
    BY <1>9, FinishType, SleepType, Names DEF NoAnswer
  <2>2. straggling' \subseteq Requests
    BY <1>9 DEF NoAnswer, TypeOK
  <2>3. QED
    BY <1>9, <2>1, <2>2, LeaveType DEF NoAnswer, Typed, TypeOK, auth
<1>10. ASSUME NEW r \in Requests, Straggle(r)
       PROVE  TypeOK'
  <2>1. effects' \in [Requests -> Nat]
    BY <1>10, EffectType DEF Straggle
  <2>2. QED
    BY <1>10, <2>1 DEF Straggle, TypeOK, auth
<1>11. CASE Revoke
  BY <1>11 DEF Revoke, TypeOK, outcome
<1>12. CASE Tick
  BY <1>12 DEF Tick, TypeOK, auth, outcome
<1>13. CASE UNCHANGED vars
  BY <1>13 DEF vars, TypeOK
<1>14. QED
  BY <1>1, <1>2, <1>3, <1>4, <1>5, <1>6, <1>7, <1>8, <1>9, <1>10, <1>11, <1>12, <1>13
     DEF Next, Step

\* Type correctness of the client: in particular no request is tried more than
\* MAX_RETRIES + 1 times, and none goes out without a token.
THEOREM ClientTypeCorrect == Spec => []TypeOK
<1>1. Init => TypeOK
  BY ConstantsAssumption DEF Init, TypeOK, Points, Answers
<1>2. QED
  BY <1>1, TypeStep, PTL DEF Spec
-----------------------------------------------------------------------------
\* A token that is put on the wire outlives the request.

\* How a token fetch or an attempt of request r ends.
Ends(r) ==
    /\ \E point \in {"token", "sleeping", "done"} : Leave(r, point)
    /\ cache' = cache \/ cache' = None
    /\ UNCHANGED <<now, issued, kind>>

LEMMA AttemptEnds ==
    ASSUME NEW r \in Requests,
           FetchFails(r) \/ Unauthorized(r) \/ RateLimited(r) \/ ServerError(r)
               \/ Refused(r) \/ Done(r) \/ NoAnswer(r)
    PROVE  Ends(r)
BY DEF FetchFails, Unauthorized, RateLimited, ServerError, Refused, Done, NoAnswer, Sleep,
       Finish, InvalidateToken, Ends, auth

\* The request holds its token for no longer than its timeouts allow.
Timely(r) ==
    /\ pc[r] \in {"fetching", "granted"} => since[r] <= now /\ now <= since[r] + FetchTimeout
    /\ pc[r] = "granted" => token[r].until >= since[r] + Lifetime
    /\ pc[r] = "sent" => /\ now <= since[r] + RequestTimeout
                         /\ token[r].until > since[r] + RequestTimeout

\* The cache overestimates the lifetime of its token by no more than a fetch takes.
CacheHonest == cache # None => cache.expiresAt <= cache.token.until + FetchTimeout

TimeInv == CacheHonest /\ \A r \in Requests : Timely(r)

LEMMA TimeStep == TypeOK /\ TimeInv /\ [Next]_vars => TimeInv'
<1> SUFFICES ASSUME TypeOK, TimeInv, [Next]_vars
             PROVE  TimeInv'
  OBVIOUS
<1> USE ConstantsAssumption
<1>1. ASSUME NEW r \in Requests, Begin(r) \/ Wake(r)
      PROVE  TimeInv'
  <2>1. pc' = [pc EXCEPT ![r] = "token"] /\ UNCHANGED <<now, cache, token, since>>
    BY <1>1 DEF Begin, Wake, Goto, auth
  <2>2. QED
    BY <2>1 DEF TimeInv, Timely, CacheHonest, TypeOK
<1>2. ASSUME NEW r \in Requests, GetAccessToken(r)
      PROVE  TimeInv'
  <2>1. UNCHANGED <<now, cache>>
    BY <1>2 DEF GetAccessToken, auth
  <2>2. CASE CacheValid /\ PutOnWire(r, cache.token)
    <3>1. cache.token.until > now + RequestTimeout
      BY <2>2 DEF CacheValid, TimeInv, CacheHonest, TypeOK, Token
    <3>2. QED
      BY <2>1, <2>2, <3>1 DEF PutOnWire, Goto, TimeInv, Timely, CacheHonest, TypeOK
  <2>3. CASE Goto(r, "fetching") /\ since' = [since EXCEPT ![r] = now] /\ UNCHANGED token
    BY <2>1, <2>3 DEF Goto, TimeInv, Timely, CacheHonest, TypeOK
  <2>4. QED
    BY <1>2, <2>2, <2>3 DEF GetAccessToken
<1>3. ASSUME NEW r \in Requests, IssueToken(r)
      PROVE  TimeInv'
  <2>1. now >= since[r]
    BY <1>3 DEF IssueToken, TimeInv, Timely
  <2>2. QED
    BY <1>3, <2>1 DEF IssueToken, Goto, TimeInv, Timely, CacheHonest, TypeOK
<1>4. ASSUME NEW r \in Requests, ReceiveToken(r)
      PROVE  TimeInv'
  <2>1. /\ token[r].until \in Nat
        /\ token[r].until + FetchTimeout >= now + Lifetime
    BY <1>4 DEF ReceiveToken, TimeInv, Timely, TypeOK, Token
  <2>2. CacheHonest'
    BY <1>4, <2>1 DEF ReceiveToken, CacheHonest
  <2>3. token[r].until > now + RequestTimeout
    BY <2>1 DEF TypeOK
  <2>4. ASSUME NEW q \in Requests
        PROVE  Timely(q)'
    BY <1>4, <2>3 DEF ReceiveToken, PutOnWire, Goto, TimeInv, Timely, TypeOK
  <2>5. QED
    BY <2>2, <2>4 DEF TimeInv
<1>5. ASSUME NEW r \in Requests, Ends(r)
      PROVE  TimeInv'
  BY <1>5 DEF Ends, Leave, Goto, TimeInv, Timely, CacheHonest, TypeOK
<1>6. CASE Tick
  <2>1. ASSUME NEW q \in Requests
        PROVE  Timely(q)'
    BY <1>6 DEF Tick, InTime, TimeInv, Timely, TypeOK
  <2>2. QED
    BY <1>6, <2>1 DEF Tick, TimeInv, CacheHonest, auth
<1>7. ASSUME UNCHANGED <<now, cache, pc, token, since>>
      PROVE  TimeInv'
  BY <1>7 DEF TimeInv, Timely, CacheHonest
<1>8. ASSUME NEW r \in Requests, Straggle(r)
      PROVE  TimeInv'
  BY <1>7, <1>8 DEF Straggle, auth
<1>9. CASE Revoke \/ UNCHANGED vars
  BY <1>7, <1>9 DEF Revoke, vars, auth
<1>10. QED
  BY <1>1, <1>2, <1>3, <1>4, <1>5, <1>6, <1>8, <1>9, AttemptEnds DEF Next, Step

\* No request is on the wire with a token that has expired: the buffer of the cache covers
\* the longest token fetch and the longest request, whatever the values of these are.
THEOREM TokensOutliveRequests == Spec => []TokenOutlivesRequest
<1>1. Init => TimeInv
  BY DEF Init, TimeInv, Timely, CacheHonest
<1>2. TypeOK /\ TimeInv => TokenOutlivesRequest
  BY ConstantsAssumption DEF TypeOK, TimeInv, Timely, TokenOutlivesRequest, Token
<1>3. QED
  BY <1>1, <1>2, ClientTypeCorrect, TimeStep, PTL DEF Spec
-----------------------------------------------------------------------------
\* A token that was rejected for a request is not presented for it again.

Holds(r) == pc[r] \in {"granted", "sent"}

\* Nobody but request r has seen the token it was granted.
Fresh(r) ==
    /\ \A q \in Requests \ {r} : Holds(q) => token[q].no # token[r].no
    /\ cache # None => cache.token.no # token[r].no
    /\ \A q \in Requests : token[r].no \notin rejected[q]

\* No token that request r uses or may take from the cache was rejected for it.
Unrejected(r) ==
    /\ cache # None => cache.token.no \notin rejected[r]
    /\ pc[r] = "sent" => token[r].no \notin rejected[r]

\* Every token in use was issued.
Known ==
    /\ cache # None => cache.token.no <= issued
    /\ \A r \in Requests : /\ Holds(r) => token[r].no <= issued
                           /\ \A n \in rejected[r] : n <= issued

FreshInv ==
    /\ Known
    /\ \A r \in Requests : /\ pc[r] = "granted" => Fresh(r)
                           /\ pc[r] # "done" => Unrejected(r)

LEMMA FreshStep == TypeOK /\ FreshInv /\ [Next]_vars => FreshInv'
<1> SUFFICES ASSUME TypeOK, FreshInv, [Next]_vars
             PROVE  FreshInv'
  OBVIOUS
<1>1. ASSUME NEW r \in Requests, Begin(r) \/ Wake(r)
      PROVE  FreshInv'
  <2>1. /\ pc[r] # "done" /\ pc' = [pc EXCEPT ![r] = "token"]
        /\ UNCHANGED <<cache, issued, token, rejected>>
    BY <1>1 DEF Begin, Wake, Goto, auth
  <2>2. QED
    BY <2>1 DEF FreshInv, Known, Holds, Fresh, Unrejected, TypeOK
<1>2. ASSUME NEW r \in Requests, GetAccessToken(r)
      PROVE  FreshInv'
  <2>1. pc[r] = "token" /\ UNCHANGED <<cache, issued, rejected>>
    BY <1>2 DEF GetAccessToken, auth
  <2>2. CASE CacheValid /\ PutOnWire(r, cache.token)
    <3>1. /\ cache # None /\ token' = [token EXCEPT ![r] = cache.token]
          /\ pc' = [pc EXCEPT ![r] = "sent"]
      BY <2>2 DEF CacheValid, PutOnWire, Goto
    <3>2. Known'
      BY <2>1, <3>1 DEF FreshInv, Known, Holds, TypeOK
    <3>3. ASSUME NEW q \in Requests, pc'[q] = "granted"
          PROVE  Fresh(q)'
      <4>1. q # r /\ Fresh(q)
        BY <3>1, <3>3 DEF FreshInv, TypeOK
      <4>2. QED
        BY <2>1, <3>1, <4>1 DEF Fresh, Holds, TypeOK
    <3>4. ASSUME NEW q \in Requests, pc'[q] # "done"
          PROVE  Unrejected(q)'
      <4>1. Unrejected(q)
        BY <2>1, <3>1, <3>4 DEF FreshInv, TypeOK
      <4>2. QED
        BY <2>1, <3>1, <4>1 DEF Unrejected, TypeOK
    <3>5. QED
      BY <3>2, <3>3, <3>4 DEF FreshInv
  <2>3. CASE Goto(r, "fetching") /\ UNCHANGED token
    BY <2>1, <2>3 DEF Goto, FreshInv, Known, Holds, Fresh, Unrejected, TypeOK
  <2>4. QED
    BY <1>2, <2>2, <2>3 DEF GetAccessToken
<1>3. ASSUME NEW r \in Requests, IssueToken(r)
      PROVE  FreshInv'
  <2>1. /\ pc[r] = "fetching" /\ issued' = issued + 1
        /\ token' = [token EXCEPT ![r] = [no |-> issued + 1, until |-> now + Lifetime]]
        /\ pc' = [pc EXCEPT ![r] = "granted"] /\ UNCHANGED <<cache, rejected>>
    BY <1>3 DEF IssueToken, Goto
  <2>2. Known'
    BY <2>1 DEF FreshInv, Known, Holds, TypeOK, Token
  <2>3. ASSUME NEW q \in Requests, pc'[q] = "granted"
        PROVE  Fresh(q)'
    <3>1. CASE q = r
      BY <2>1, <3>1 DEF Fresh, FreshInv, Known, Holds, TypeOK, Token
    <3>2. CASE q # r
      <4>1. pc[q] = "granted" /\ Fresh(q) /\ token[q].no \in Nat /\ token[q].no <= issued
        BY <2>1, <2>3, <3>2 DEF FreshInv, Known, Holds, TypeOK, Token
      <4>2. QED
        BY <2>1, <3>2, <4>1 DEF Fresh, Holds, TypeOK
    <3>3. QED
      BY <3>1, <3>2
  <2>4. ASSUME NEW q \in Requests, pc'[q] # "done"
        PROVE  Unrejected(q)'
    BY <2>1, <2>4 DEF Unrejected, FreshInv, TypeOK
  <2>5. QED
    BY <2>2, <2>3, <2>4 DEF FreshInv
<1>4. ASSUME NEW r \in Requests, ReceiveToken(r)
      PROVE  FreshInv'
  <2>1. /\ pc[r] = "granted" /\ pc' = [pc EXCEPT ![r] = "sent"]
        /\ cache' = [token |-> token[r], expiresAt |-> now + Lifetime]
        /\ token' = token /\ UNCHANGED <<issued, rejected>>
    BY <1>4 DEF ReceiveToken, PutOnWire, Goto, TypeOK
  <2>2. Fresh(r)
    BY <2>1 DEF FreshInv
  <2>3. Known'
    BY <2>1 DEF FreshInv, Known, Holds, TypeOK
  <2>4. ASSUME NEW q \in Requests, pc'[q] = "granted"
        PROVE  Fresh(q)'
    <3>1. q # r /\ Fresh(q)
      BY <2>1, <2>4 DEF FreshInv, TypeOK
    <3>2. QED
      BY <2>1, <3>1 DEF Fresh, Holds, TypeOK
  <2>5. ASSUME NEW q \in Requests, pc'[q] # "done"
        PROVE  Unrejected(q)'
    <3>1. Unrejected(q)
      BY <2>1, <2>5 DEF FreshInv, TypeOK
    <3>2. QED
      BY <2>1, <2>2, <3>1 DEF Unrejected, Fresh, TypeOK
  <2>6. QED
    BY <2>3, <2>4, <2>5 DEF FreshInv
<1>5. ASSUME NEW r \in Requests, Ends(r), UNCHANGED rejected, pc[r] # "done"
      PROVE  FreshInv'
  BY <1>5 DEF Ends, Leave, Goto, FreshInv, Known, Holds, Fresh, Unrejected, TypeOK
<1>6. ASSUME NEW r \in Requests, Unauthorized(r)
      PROVE  FreshInv'
  <2>1. /\ pc[r] = "sent" /\ rejected' = [rejected EXCEPT ![r] = @ \cup {token[r].no}]
        /\ issued' = issued /\ token' = [token EXCEPT ![r] = None]
    BY <1>6 DEF Unauthorized, Leave, Finish
  <2>2. \/ cache' = None /\ pc' = [pc EXCEPT ![r] = "token"]
        \/ cache' = cache /\ pc' = [pc EXCEPT ![r] = "done"]
    BY <1>6 DEF Unauthorized, Leave, Finish, Goto, InvalidateToken
  <2>3. Known'
    BY <2>1, <2>2 DEF FreshInv, Known, Holds, TypeOK
  <2>4. ASSUME NEW q \in Requests, pc'[q] = "granted"
        PROVE  Fresh(q)'
    <3>1. q # r /\ Fresh(q)
      BY <2>1, <2>2, <2>4 DEF FreshInv, TypeOK
    <3>2. token[r].no # token[q].no
      BY <2>1, <3>1 DEF Fresh, Holds
    <3>3. QED
      BY <2>1, <2>2, <3>1, <3>2 DEF Fresh, Holds, TypeOK
  <2>5. ASSUME NEW q \in Requests, pc'[q] # "done"
        PROVE  Unrejected(q)'
    BY <2>1, <2>2, <2>5 DEF FreshInv, Unrejected, TypeOK
  <2>6. QED
    BY <2>3, <2>4, <2>5 DEF FreshInv
<1>7. ASSUME UNCHANGED <<cache, issued, pc, token, rejected>>
      PROVE  FreshInv'
  BY <1>7 DEF FreshInv, Known, Holds, Fresh, Unrejected
<1>8. ASSUME NEW r \in Requests,
             FetchFails(r) \/ RateLimited(r) \/ ServerError(r) \/ Refused(r) \/ Done(r) \/ NoAnswer(r)
      PROVE  FreshInv'
  <2>1. UNCHANGED rejected /\ pc[r] # "done"
    BY <1>8 DEF FetchFails, RateLimited, ServerError, Refused, Done, NoAnswer
  <2>2. QED
    BY <1>5, <1>8, <2>1, AttemptEnds
<1>9. ASSUME NEW r \in Requests, Straggle(r)
      PROVE  FreshInv'
  BY <1>7, <1>9 DEF Straggle, auth
<1>10. CASE Revoke \/ Tick \/ UNCHANGED vars
  BY <1>7, <1>10 DEF Revoke, Tick, vars, auth
<1>11. QED
  BY <1>1, <1>2, <1>3, <1>4, <1>6, <1>8, <1>9, <1>10 DEF Next, Step

\* However many requests share the cache, fetch tokens at once and drop each other's, a
\* request never presents a token that it was already answered 401 for.
THEOREM RejectedTokensNotReused == Spec => []RejectedTokenNotReused
<1>1. Init => FreshInv
  BY DEF Init, FreshInv, Known, Holds, Unrejected
<1>2. FreshInv => RejectedTokenNotReused
  BY DEF FreshInv, Unrejected, RejectedTokenNotReused
<1>3. QED
  BY <1>1, <1>2, ClientTypeCorrect, FreshStep, PTL DEF Spec
-----------------------------------------------------------------------------
\* The client implements RemoteCall.

\* A mutation is untouched until its request is done; one that may still be handled late has
\* not been handled yet, and its caller was told that the outcome is unknown.
Untouched(r) == effects[r] = 0 /\ r \notin straggling

EffectInv ==
    \A r \in Requests :
        /\ kind[r] # "post" => Untouched(r)
        /\ kind[r] = "post" /\ pc[r] # "done" => Untouched(r) /\ answer[r] = "none"
        /\ r \in straggling => effects[r] = 0 /\ answer[r] = "unknown"

\* What the answers, the failures and the timeouts of request r do to what RemoteCall sees.
Outcome(r) ==
    /\ pc[r] # "done" /\ kind' = kind
    /\ \/ /\ UNCHANGED <<effects, answer, straggling>>
          /\ \E point \in {"token", "sleeping"} : Goto(r, point)
       \/ /\ kind[r] # "post" /\ UNCHANGED <<effects, straggling>>
          /\ \E point \in {"token", "sleeping", "done"} : Goto(r, point)
          /\ \E a \in Answers : answer' \in {answer, [answer EXCEPT ![r] = a]}
       \/ /\ kind[r] = "post" /\ Goto(r, "done")
          /\ \E a \in {"success", "garbled", "failed", "unknown"} :
                /\ answer' = [answer EXCEPT ![r] = a]
                /\ \/ TakesEffect(r) /\ a # "failed" /\ straggling' = straggling
                   \/ effects' = effects /\ a = "unknown" /\ straggling' = straggling \cup {r}
                   \/ effects' = effects /\ a \in {"failed", "unknown"} /\ straggling' = straggling

LEMMA Outcomes ==
    ASSUME TypeOK, NEW r \in Requests,
           FetchFails(r) \/ Unauthorized(r) \/ RateLimited(r) \/ ServerError(r)
               \/ Refused(r) \/ Done(r) \/ NoAnswer(r)
    PROVE  Outcome(r)
<1> USE DEF Sleep, Finish, Leave
<1>1. CASE FetchFails(r)
  BY <1>1 DEF FetchFails, Outcome, Answers
<1>2. CASE Unauthorized(r)
  BY <1>2 DEF Unauthorized, Outcome, Answers
<1>3. CASE RateLimited(r)
  BY <1>3 DEF RateLimited, Outcome, Answers
<1>4. CASE ServerError(r)
  <2>1. kind[r] # "post" => effects' = effects
    BY <1>4 DEF ServerError, TakesEffect, TypeOK
  <2>2. pc[r] # "done" /\ kind' = kind /\ straggling' = straggling
    BY <1>4 DEF ServerError
  <2>3. CASE SafeToRetry(r)
    BY <1>4, <2>1, <2>2, <2>3 DEF ServerError, SafeToRetry, Outcome, Answers
  <2>4. CASE ~SafeToRetry(r)
    BY <1>4, <2>2, <2>4, ConstantsAssumption DEF ServerError, SafeToRetry, Outcome, TypeOK
  <2>5. QED
    BY <2>3, <2>4
<1>5. CASE Refused(r)
  BY <1>5 DEF Refused, Outcome, Answers
<1>6. CASE Done(r)
  <2>1. kind[r] # "post" => effects' = effects
    BY <1>6 DEF Done, TakesEffect, TypeOK
  <2>2. QED
    BY <1>6, <2>1 DEF Done, Outcome, Answers
<1>7. CASE NoAnswer(r)
  <2>1. CASE kind[r] = "post"
    BY <1>7, <2>1 DEF NoAnswer, Outcome
  <2>2. CASE kind[r] # "post"
    BY <1>7, <2>2 DEF NoAnswer, Outcome, Answers
  <2>3. QED
    BY <2>1, <2>2
<1>8. QED
  BY <1>1, <1>2, <1>3, <1>4, <1>5, <1>6, <1>7

LEMMA EffectStep == TypeOK /\ EffectInv /\ [Next]_vars => EffectInv'
<1> SUFFICES ASSUME TypeOK, EffectInv, [Next]_vars
             PROVE  EffectInv'
  OBVIOUS
<1>1. ASSUME NEW r \in Requests, Outcome(r)
      PROVE  EffectInv'
  BY <1>1 DEF Outcome, Goto, TakesEffect, EffectInv, Untouched, TypeOK
<1>2. ASSUME NEW r \in Requests, pc[r] # "done", UNCHANGED <<kind, effects, answer, straggling>>,
             NEW point \in Points, Goto(r, point)
      PROVE  EffectInv'
  BY <1>2 DEF Goto, EffectInv, Untouched, TypeOK
<1>3. ASSUME NEW r \in Requests, Begin(r) \/ Wake(r) \/ GetAccessToken(r) \/ IssueToken(r)
                                     \/ ReceiveToken(r)
      PROVE  EffectInv'
  <2>1. \E point \in Points : Goto(r, point)
    BY <1>3, Names DEF Begin, Wake, GetAccessToken, IssueToken, ReceiveToken, PutOnWire
  <2>2. pc[r] # "done" /\ UNCHANGED <<kind, effects, answer, straggling>>
    BY <1>3 DEF Begin, Wake, GetAccessToken, IssueToken, ReceiveToken, outcome
  <2>3. QED
    BY <1>2, <2>1, <2>2
<1>4. ASSUME NEW r \in Requests, Straggle(r)
      PROVE  EffectInv'
  BY <1>4 DEF Straggle, TakesEffect, EffectInv, Untouched, TypeOK
<1>5. CASE Revoke \/ Tick \/ UNCHANGED vars
  BY <1>5 DEF Revoke, Tick, vars, outcome, EffectInv, Untouched
<1>6. QED
  BY <1>1, <1>3, <1>4, <1>5, Outcomes DEF Next, Step

LEMMA RemoteInit == Init => Remote!Init
BY DEF Init, Remote!Init, Told

LEMMA RemoteStep == TypeOK /\ EffectInv /\ [Next]_vars => [Remote!Next]_(Remote!vars)
<1> SUFFICES ASSUME TypeOK, EffectInv, [Next]_vars
             PROVE  [Remote!Next]_(Remote!vars)
  OBVIOUS
<1>1. ASSUME NEW r \in Requests, Outcome(r)
      PROVE  [Remote!Next]_(Remote!vars)
  <2>1. CASE UNCHANGED <<effects, answer>>
    BY <1>1, <2>1 DEF Outcome, Told, Remote!vars
  <2>2. CASE kind[r] # "post" /\ UNCHANGED effects
    BY <1>1, <2>2 DEF Outcome, Told, TypeOK, Remote!vars
  <2>3. ASSUME kind[r] = "post", NEW a \in {"success", "garbled", "failed", "unknown"},
               answer' = [answer EXCEPT ![r] = a],
               \/ TakesEffect(r) /\ a # "failed"
               \/ effects' = effects /\ a \in {"failed", "unknown"}
        PROVE  Remote!Next
    <3>1. effects[r] = 0 /\ answer[r] = "none" /\ Told[r] = "none"
      BY <1>1, <2>3 DEF Outcome, EffectInv, Untouched, Told
    <3>2. Told' = [Told EXCEPT ![r] = a]
      BY <1>1, <2>3 DEF Outcome, Told, TypeOK
    <3>3. CASE TakesEffect(r) /\ a # "failed"
      <4>1. effects' = [effects EXCEPT ![r] = 1] /\ effects'[r] = 1
        BY <2>3, <3>1, <3>3 DEF TakesEffect, TypeOK
      <4>2. Remote!TakeEffect(r) /\ Remote!Tell(r, a)
        BY <3>1, <3>2, <3>3, <4>1 DEF Remote!TakeEffect, Remote!Tell
      <4>3. QED
        BY <4>2 DEF Remote!Next
    <3>4. CASE effects' = effects /\ a \in {"failed", "unknown"}
      <4>1. Remote!Tell(r, a)
        BY <3>1, <3>2, <3>4 DEF Remote!Tell
      <4>2. QED
        BY <3>4, <4>1 DEF Remote!Next
    <3>5. QED
      BY <2>3, <3>3, <3>4
  <2>4. QED
    BY <1>1, <2>1, <2>2, <2>3 DEF Outcome
<1>2. ASSUME NEW r \in Requests, Straggle(r)
      PROVE  [Remote!Next]_(Remote!vars)
  <2>1. kind[r] = "post" /\ effects[r] = 0 /\ Told[r] = "unknown"
    BY <1>2 DEF Straggle, EffectInv, Untouched, Told
  <2>2. effects' = [effects EXCEPT ![r] = 1] /\ Told' = Told
    BY <1>2, <2>1 DEF Straggle, TakesEffect, TypeOK, Told
  <2>3. Remote!TakeEffect(r) /\ UNCHANGED Told
    BY <2>1, <2>2 DEF Remote!TakeEffect
  <2>4. QED
    BY <2>3 DEF Remote!Next
<1>3. ASSUME NEW r \in Requests, Begin(r) \/ Wake(r) \/ GetAccessToken(r) \/ IssueToken(r)
                                     \/ ReceiveToken(r)
      PROVE  UNCHANGED <<kind, effects, answer>>
  BY <1>3 DEF Begin, Wake, GetAccessToken, IssueToken, ReceiveToken, outcome
<1>4. CASE UNCHANGED <<kind, effects, answer>>
  BY <1>4 DEF Told, Remote!vars
<1>5. CASE Revoke \/ Tick \/ UNCHANGED vars
  BY <1>4, <1>5 DEF Revoke, Tick, vars, outcome
<1>6. QED
  BY <1>1, <1>2, <1>3, <1>4, <1>5, Outcomes DEF Next, Step

\* An ordinary mutation takes effect at most once, and its caller is told the truth, for any
\* number of requests, retries and answers of Autodesk, in whatever order they come.
THEOREM RefinesRemoteCall == Spec => ImplementsRemoteCall
<1>1. Init => EffectInv
  BY DEF Init, EffectInv, Untouched
<1>2. QED
  BY <1>1, ClientTypeCorrect, EffectStep, RemoteInit, RemoteStep, PTL
     DEF Spec, ImplementsRemoteCall, Remote!Spec
=============================================================================
