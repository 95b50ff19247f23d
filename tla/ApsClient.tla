----------------------------- MODULE ApsClient -----------------------------
(***************************************************************************)
(* apsRequestDetailed (src/http/client.ts): one request to the Autodesk    *)
(* API, retried; and the access token its attempts share with the requests *)
(* that run at the same time (src/auth/ssa.ts, two-legged.ts and           *)
(* token-cache.ts).                                                        *)
(*                                                                         *)
(* A step of a request is the code between two awaits.  Autodesk handles a *)
(* request and its answer is received in one step, except that an answer   *)
(* may be lost, and then the request may be handled later or never.        *)
(*                                                                         *)
(* Abstracted: a request is a GET, an ordinary mutation (POST) or one that *)
(* is marked retryOn5xx; only the effects of ordinary mutations are        *)
(* counted.  A sleep takes any time.  Timeouts and lifetimes are in ticks. *)
(***************************************************************************)
EXTENDS Naturals, FiniteSets

CONSTANTS
    Requests,
    Kinds,           \* the kinds of request that are made
    None,            \* no token
    MaxRetries,      \* MAX_RETRIES
    Lifetime,        \* expires_in of a token
    Buffer,          \* bufferMs of TokenCache
    FetchTimeout,    \* AbortSignal.timeout of the token endpoint
    RequestTimeout,  \* AbortSignal.timeout of a request
    MaxTime          \* the clock stops here (bound)

\* 60 s of buffer, 15 s to fetch a token, 30 s per request, tokens of an hour.
ASSUME ConstantsAssumption ==
    /\ Kinds \subseteq {"get", "post", "retryOn5xx"}
    /\ {MaxRetries, Lifetime, Buffer, FetchTimeout, RequestTimeout, MaxTime} \subseteq Nat
    /\ Buffer >= FetchTimeout + RequestTimeout
    /\ Lifetime > FetchTimeout + RequestTimeout

VARIABLES
    now,
    cache,       \* the cached token and when it expires by the cache's reckoning
    issued,      \* the number of tokens Autodesk issued
    revoked,     \* the tokens up to this number are no longer accepted
    pc,          \* where each request is
    kind,        \* "get", "post" or "retryOn5xx"
    attempt,
    token,       \* the token of the attempt
    since,       \* when the fetch under way began
    straggling,  \* requests given up on that Autodesk may still handle
    effects,     \* how often each POST took effect
    answer,      \* what the caller was told
    rejected     \* history: the tokens each request was answered 401 for

vars == <<now, cache, issued, revoked, pc, kind, attempt, token, since, straggling,
          effects, answer, rejected>>
auth == <<cache, issued, revoked>>
outcome == <<straggling, effects, answer>>

Points == {"new", "token", "fetching", "granted", "sent", "sleeping", "done"}
Answers == {"none", "success", "garbled", "failed", "unknown"}
Token == [no : Nat, until : Nat]

TypeOK ==
    /\ now \in Nat /\ issued \in Nat /\ revoked \in 0..issued
    /\ cache \in [token : Token, expiresAt : Nat] \cup {None}
    /\ pc \in [Requests -> Points]
    /\ kind \in [Requests -> Kinds]
    /\ attempt \in [Requests -> 0..MaxRetries]
    /\ \A r \in Requests : pc[r] = "sleeping" => attempt[r] < MaxRetries
    /\ token \in [Requests -> Token \cup {None}]
    /\ \A r \in Requests : pc[r] \in {"granted", "sent"} => token[r] \in Token
    /\ since \in [Requests -> Nat]
    /\ straggling \subseteq Requests
    /\ effects \in [Requests -> Nat]
    /\ answer \in [Requests -> Answers]
    /\ rejected \in [Requests -> SUBSET Nat]

Init ==
    /\ now = 0 /\ cache = None /\ issued = 0 /\ revoked = 0
    /\ pc = [r \in Requests |-> "new"]
    /\ kind \in [Requests -> Kinds]
    /\ attempt = [r \in Requests |-> 0]
    /\ token = [r \in Requests |-> None]
    /\ since = [r \in Requests |-> 0]
    /\ straggling = {}
    /\ effects = [r \in Requests |-> 0]
    /\ answer = [r \in Requests |-> "none"]
    /\ rejected = [r \in Requests |-> {}]

Goto(r, point) == pc' = [pc EXCEPT ![r] = point]

\* The attempt is over, and nothing of it is kept.
Leave(r, point) ==
    /\ Goto(r, point)
    /\ token' = [token EXCEPT ![r] = None]
    /\ since' = [since EXCEPT ![r] = 0]

Finish(r, a) == Leave(r, "done") /\ answer' = [answer EXCEPT ![r] = a]

CountsAttempt(r) == attempt' = [attempt EXCEPT ![r] = @ + 1]

Begin(r) ==
    /\ pc[r] = "new"
    /\ Goto(r, "token")
    /\ UNCHANGED <<now, auth, kind, attempt, token, since, outcome, rejected>>
-----------------------------------------------------------------------------
\* Mutant: a cached token is used up to its last moment.
CacheValidToTheEnd == cache # None /\ now < cache.expiresAt

\* TokenCache.isValid; the buffer is added to now because Nat has no negative numbers.
CacheValid == cache # None /\ now + Buffer < cache.expiresAt

\* The request goes out with token t.
PutOnWire(r, t) ==
    /\ token' = [token EXCEPT ![r] = t]
    /\ since' = [since EXCEPT ![r] = now]
    /\ Goto(r, "sent")

\* getAccessToken: requests that find no valid token all fetch one.
GetAccessToken(r) ==
    /\ pc[r] = "token"
    /\ \/ /\ CacheValid
          /\ PutOnWire(r, cache.token)
       \/ /\ ~CacheValid
          /\ Goto(r, "fetching")
          /\ since' = [since EXCEPT ![r] = now]
          /\ UNCHANGED token
    /\ UNCHANGED <<now, auth, kind, attempt, outcome, rejected>>

\* The token endpoint issues a token ...
IssueToken(r) ==
    /\ pc[r] = "fetching"
    /\ issued' = issued + 1
    /\ token' = [token EXCEPT ![r] = [no |-> issued + 1, until |-> now + Lifetime]]
    /\ Goto(r, "granted")
    /\ UNCHANGED <<now, cache, revoked, kind, attempt, since, outcome, rejected>>

\* ... fetchToken caches it, whatever was cached meanwhile, counting its lifetime from now ...
ReceiveToken(r) ==
    /\ pc[r] = "granted"
    /\ cache' = [token |-> token[r], expiresAt |-> now + Lifetime]
    /\ PutOnWire(r, token[r])
    /\ UNCHANGED <<now, issued, revoked, kind, attempt, outcome, rejected>>

\* ... or throws: refused, no answer, or an answer it cannot read.
FetchFails(r) ==
    /\ pc[r] \in {"fetching", "granted"}
    /\ Finish(r, "failed")
    /\ UNCHANGED <<now, auth, kind, attempt, straggling, effects, rejected>>
-----------------------------------------------------------------------------
\* Mutant: one retry too many.
MayRetryOnceMore(r) == attempt[r] <= MaxRetries
MayRetry(r) == attempt[r] < MaxRetries

\* Mutant: every 5xx is transient.
RetriesAny5xx(r) == TRUE
SafeToRetry(r) == kind[r] \in {"get", "retryOn5xx"}

\* The next attempt comes after a sleep.
Sleep(r) == Leave(r, "sleeping") /\ UNCHANGED <<attempt, answer>>

\* Mutant: the attempt is not counted.
WakeUncounted(r) ==
    /\ pc[r] = "sleeping"
    /\ Goto(r, "token")
    /\ UNCHANGED <<now, auth, kind, attempt, token, since, outcome, rejected>>

Wake(r) ==
    /\ pc[r] = "sleeping"
    /\ Goto(r, "token")
    /\ CountsAttempt(r)
    /\ UNCHANGED <<now, auth, kind, token, since, outcome, rejected>>

TakesEffect(r) == effects' = [effects EXCEPT ![r] = IF kind[r] = "post" THEN @ + 1 ELSE @]

\* Mutant: the token stays cached.
KeepToken == UNCHANGED cache
InvalidateToken == cache' = None

\* 401: the cached token is dropped, whichever it is, and the request is tried again.
Unauthorized(r) ==
    /\ pc[r] = "sent"
    /\ rejected' = [rejected EXCEPT ![r] = @ \cup {token[r].no}]
    /\ \/ /\ MayRetry(r)
          /\ InvalidateToken
          /\ Leave(r, "token")
          /\ CountsAttempt(r)
          /\ UNCHANGED answer
       \/ /\ ~MayRetry(r)
          /\ Finish(r, "failed")
          /\ UNCHANGED <<cache, attempt>>
    /\ UNCHANGED <<now, issued, revoked, kind, straggling, effects>>

\* Autodesk accepts the token.
Accepted(t) == t.no > revoked /\ now < t.until

\* 429: refused before anything was done.
RateLimited(r) ==
    /\ pc[r] = "sent"
    /\ \/ MayRetry(r) /\ Sleep(r)
       \/ ~MayRetry(r) /\ Finish(r, "failed") /\ UNCHANGED attempt
    /\ UNCHANGED <<now, auth, kind, straggling, effects, rejected>>

\* 5xx: it may or may not have taken effect.
ServerError(r) ==
    /\ pc[r] = "sent"
    /\ (Accepted(token[r]) /\ TakesEffect(r)) \/ UNCHANGED effects
    /\ \/ SafeToRetry(r) /\ MayRetry(r) /\ Sleep(r)
       \/ SafeToRetry(r) /\ ~MayRetry(r) /\ Finish(r, "failed") /\ UNCHANGED attempt
       \/ ~SafeToRetry(r) /\ Finish(r, "unknown") /\ UNCHANGED attempt
    /\ UNCHANGED <<now, auth, kind, straggling, rejected>>

\* Any other error status.
Refused(r) ==
    /\ pc[r] = "sent" /\ Accepted(token[r])
    /\ Finish(r, "failed")
    /\ UNCHANGED <<now, auth, kind, attempt, straggling, effects, rejected>>

\* 2xx; the body may be cut off or not be JSON.
Done(r) ==
    /\ pc[r] = "sent" /\ Accepted(token[r])
    /\ TakesEffect(r)
    /\ Finish(r, "success") \/ Finish(r, "garbled")
    /\ UNCHANGED <<now, auth, kind, attempt, straggling, rejected>>

\* fetch throws: the timeout or the socket.
NoAnswer(r) ==
    /\ pc[r] = "sent"
    /\ straggling' = straggling \cup (IF kind[r] = "post" THEN {r} ELSE {})
    /\ \/ kind[r] = "get" /\ MayRetry(r) /\ Sleep(r)
       \/ kind[r] = "get" /\ ~MayRetry(r) /\ Finish(r, "failed") /\ UNCHANGED attempt
       \/ kind[r] # "get" /\ Finish(r, "unknown") /\ UNCHANGED attempt
    /\ UNCHANGED <<now, auth, kind, effects, rejected>>

\* A request whose answer was lost had been handled, or is handled late.
Straggle(r) ==
    /\ r \in straggling
    /\ straggling' = straggling \ {r}
    /\ TakesEffect(r)
    /\ UNCHANGED <<now, auth, pc, kind, attempt, token, since, answer, rejected>>
-----------------------------------------------------------------------------
\* Autodesk stops accepting the tokens it issued so far, once.
Revoke ==
    /\ revoked = 0 /\ issued > 0
    /\ revoked' = issued
    /\ UNCHANGED <<now, cache, issued, pc, kind, attempt, token, since, outcome, rejected>>

\* No fetch outlives its AbortSignal.
InTime(r) ==
    /\ pc[r] \in {"fetching", "granted"} => now < since[r] + FetchTimeout
    /\ pc[r] = "sent" => now < since[r] + RequestTimeout

Tick ==
    /\ now < MaxTime
    /\ \A r \in Requests : InTime(r)
    /\ now' = now + 1
    /\ UNCHANGED <<auth, pc, kind, attempt, token, since, outcome, rejected>>

Step(r) ==
    \/ GetAccessToken(r) \/ IssueToken(r) \/ ReceiveToken(r) \/ FetchFails(r) \/ Wake(r)
    \/ Unauthorized(r) \/ RateLimited(r) \/ ServerError(r) \/ Refused(r) \/ Done(r) \/ NoAnswer(r)

Next ==
    \/ \E r \in Requests : Begin(r) \/ Step(r) \/ Straggle(r)
    \/ Revoke
    \/ Tick

\* A sleep ends, and a fetch ends in an answer or in its timeout.
Fairness == \A r \in Requests : WF_vars(Step(r))

Spec == Init /\ [][Next]_vars /\ Fairness
-----------------------------------------------------------------------------
\* The refinement mapping: nothing is promised of requests that are safe to repeat.
Told == [r \in Requests |-> IF kind[r] = "post" THEN answer[r] ELSE "none"]

Remote == INSTANCE RemoteCall WITH answer <- Told

\* An ordinary mutation takes effect at most once however often its request is sent, and
\* what the caller is told is true: retries follow only answers (401, 429) that rule an
\* effect out, and no request is called failed that took, or may yet take, effect.
ImplementsRemoteCall == Remote!Spec

\* A token that is put on the wire stays valid until the request is answered or times out:
\* the 60 s buffer covers the request timeout, and the token fetch by which the cache
\* overestimates the lifetime.
TokenOutlivesRequest ==
    \A r \in Requests : pc[r] = "sent" => now < token[r].until

\* A retry after a 401 never presents a token that was already rejected for this request,
\* whatever concurrent requests put into the cache meanwhile.
RejectedTokenNotReused ==
    \A r \in Requests : pc[r] = "sent" => token[r].no \notin rejected[r]

\* Every request ends, whatever Autodesk answers and however often the token is dropped.
EveryRequestEnds ==
    \A r \in Requests : pc[r] = "token" ~> pc[r] = "done"
=============================================================================
