-------------------------- MODULE MutationPipeline --------------------------
(***************************************************************************)
(* wrapMutationTool (src/tools/_wrap.ts): the guarded path every mutating  *)
(* tool call takes, with the approval-token store and the idempotency      *)
(* store it uses.                                                          *)
(*                                                                         *)
(* A step of a call is the code between two points where another actor may *)
(* run.  Between two awaits a Node process runs one call only (ThreadFree);*)
(* another process on the same SQLite file may run between any two SQL     *)
(* statements, so each statement on a shared table is a step of its own.   *)
(*                                                                         *)
(* Abstracted: the gates before the preview (auth mode, allow-list,        *)
(* read-only, hourly rate, business rules) are verdicts that may go either *)
(* way on any call; a payload is an element of Payloads and stands for the *)
(* hash of executePayload; tool.execute is one mutation at Autodesk; an    *)
(* audit entry keeps only the kind of its stage; a token is named after    *)
(* the call that issued it, and a client can present only tokens that some *)
(* preview returned (they are random UUIDs).                               *)
(***************************************************************************)
EXTENDS Naturals

CONSTANTS
    Requests,       \* tool calls
    Processes,      \* server processes
    Tenants, Tools, Payloads,
    Keys,           \* values of idempotency_key
    None,           \* an absent token, key or result; the name of the shared database
    TTL,            \* FORMA_APPROVAL_TOKEN_TTL
    MaxTime,        \* the clock stops here (bound)
    RequirePreview, \* FORMA_MUTATION_MODE = preview_required (else client_approval_only)
    FailClosed,     \* FORMA_AUDIT_FAIL_CLOSED
    Sqlite          \* FORMA_PERSISTENCE_MODE = sqlite (else memory)

ASSUME ConstantsAssumption ==
    /\ TTL \in Nat /\ MaxTime \in Nat
    /\ {RequirePreview, FailClosed, Sqlite} \subseteq BOOLEAN
    /\ None \notin Requests \cup Keys

VARIABLES
    now,        \* Date.now()
    tokens,     \* the rows of approval_tokens, per store
    records,    \* the rows of idempotency_records, per store
    pc,         \* where each call is
    call,       \* the input of each call and the process that serves it
    payload,    \* preview.executePayload of each call
    deed,       \* what became of the call's mutation
    trail,      \* the stages of the audit entries about each call
    reply,      \* the kind of answer the client got
    result,     \* the call whose Autodesk result the answer carries
    keptUntil,  \* history: expiry of the record the call stored, 0 if none
    owed        \* history: earlier answered calls that this call must not repeat

vars == <<now, tokens, records, pc, call, payload, deed, trail, reply, result, keptUntil, owed>>
stores == <<tokens, records, keptUntil>>
answers == <<trail, reply, result>>

\* With SQLite all processes share one store; in memory each has its own.
Stores == IF Sqlite THEN {None} ELSE Processes
StoreOf(p) == IF Sqlite THEN None ELSE p

Call == [proc : Processes, tenant : Tenants, tool : Tools, dryRun : BOOLEAN,
         token : Requests \cup {None}, key : Keys \cup {None}]
Token == [id : Requests, tenant : Tenants, tool : Tools, payload : Payloads, expiresAt : Nat]
KeyRecord == [tenant : Tenants, key : Keys, tool : Tools, payload : Payloads,
              by : Requests, expiresAt : Nat]

\* Points inside a synchronous section; at the other points the call awaits.
SyncPoints == {"issue", "tell", "check", "drop", "verify", "consume", "record", "store"}
Points == SyncPoints \cup {"new", "preview", "send", "await", "done", "crashed"}
Stages == {"preview", "executed", "replay", "denied", "failed", "unknown"}
Replies == {"none", "preview", "success", "replayed", "denied", "failed", "unknown",
            "not_executed", "applied_unaudited", "threw"}

TypeOK ==
    /\ now \in Nat
    /\ tokens \in [Stores -> SUBSET Token]
    /\ records \in [Stores -> SUBSET KeyRecord]
    /\ pc \in [Requests -> Points]
    /\ call \in [Requests -> Call \cup {None}]
    /\ \A r \in Requests : pc[r] # "new" => call[r] \in Call
    /\ payload \in [Requests -> Payloads \cup {None}]
    /\ \A r \in Requests : pc[r] \notin {"new", "preview", "done", "crashed"} =>
                               payload[r] \in Payloads
    /\ \A r \in Requests : pc[r] \in {"check", "drop", "store"} => call[r].key \in Keys
    /\ deed \in [Requests -> {"none", "authorised", "applied", "refused"}]
    /\ trail \in [Requests -> SUBSET Stages]
    /\ reply \in [Requests -> Replies]
    /\ result \in [Requests -> Requests \cup {None}]
    /\ keptUntil \in [Requests -> Nat]
    /\ owed \in [Requests -> SUBSET Requests]

Init ==
    /\ now = 1
    /\ tokens = [s \in Stores |-> {}]
    /\ records = [s \in Stores |-> {}]
    /\ pc = [r \in Requests |-> "new"]
    /\ call = [r \in Requests |-> None]
    /\ payload = [r \in Requests |-> None]
    /\ deed = [r \in Requests |-> "none"]
    /\ trail = [r \in Requests |-> {}]
    /\ reply = [r \in Requests |-> "none"]
    /\ result = [r \in Requests |-> None]
    /\ keptUntil = [r \in Requests |-> 0]
    /\ owed = [r \in Requests |-> {}]

-----------------------------------------------------------------------------
\* No other call of process p is inside a synchronous section.
ThreadFree(r, p) ==
    \A q \in Requests \ {r} : pc[q] \in SyncPoints => call[q].proc # p

At(r, point) == pc[r] = point /\ ThreadFree(r, call[r].proc)

Goto(r, point) == pc' = [pc EXCEPT ![r] = point]

Store(r) == StoreOf(call[r].proc)

\* appendAuditEntry when the line cannot be written: the caller goes on unless FailClosed.
SwallowsAuditFailure == TRUE
IgnoresAuditFailure == ~FailClosed

\* What handleError tells the client about an entry that could not be written.
AdviceAlwaysRetry(completed) == "not_executed"
Advice(completed) == IF completed THEN "applied_unaudited" ELSE "not_executed"

\* The last audit entry of a call and its answer; `unwritten` if the entry is lost.
Conclude(r, stage, answer, unwritten, by) ==
    /\ Goto(r, "done")
    /\ \/ /\ trail' = [trail EXCEPT ![r] = @ \cup {stage}]
          /\ reply' = [reply EXCEPT ![r] = answer]
          /\ result' = [result EXCEPT ![r] = by]
       \/ /\ trail' = trail
          /\ reply' = [reply EXCEPT ![r] = IF IgnoresAuditFailure THEN answer ELSE unwritten]
          /\ result' = [result EXCEPT ![r] = IF IgnoresAuditFailure THEN by ELSE None]

\* An entry appended inside the try: its failure reaches handleError.
Return(r, stage, answer, by) == Conclude(r, stage, answer, Advice(FALSE), by)

\* handleError: the entry is appended inside the catch, so its own failure escapes.
Fail(r, stage) ==
    Conclude(r, stage, IF stage \in {"failed", "unknown"} THEN stage ELSE "denied", "threw", None)
-----------------------------------------------------------------------------
\* Inputs the code does not look at are fixed: a dry run reads neither token nor key, and
\* without previews neither dry_run nor the token matters.
Relevant(c) ==
    /\ RequirePreview /\ c.dryRun => c.token = None /\ c.key = None
    /\ ~RequirePreview => ~c.dryRun /\ c.token = None
    /\ c.token # None => reply[c.token] = "preview"

\* The call arrives; the gates of steps 0 to 3 run in one synchronous section.
Receive(r, c) ==
    /\ pc[r] = "new" /\ ThreadFree(r, c.proc)
    /\ Relevant(c)
    /\ call' = [call EXCEPT ![r] = c]
    /\ owed' = [owed EXCEPT ![r] =
           {q \in Requests : /\ reply[q] = "success" /\ c.key # None
                             /\ call[q].tenant = c.tenant /\ call[q].key = c.key
                             /\ Store(q) = StoreOf(c.proc)}]
    /\ \/ Goto(r, "preview") /\ UNCHANGED answers
       \/ Return(r, "denied", "denied", None)   \* auth mode: answered inside the try
       \/ Fail(r, "denied")
    /\ UNCHANGED <<now, stores, payload, deed>>

AfterKey == IF RequirePreview THEN "verify" ELSE "send"

\* Mutant: the payload of the preview is not kept.
BuildPreviewForgetful(r) ==
    /\ At(r, "preview")
    /\ Goto(r, IF RequirePreview /\ call[r].dryRun THEN "issue" ELSE AfterKey)
    /\ UNCHANGED <<now, stores, call, payload, deed, answers, owed>>

\* buildPreview resolves the payload from the input and from live Autodesk data, which may
\* have changed since the dry run.
BuildPreview(r) ==
    /\ At(r, "preview")
    /\ \E d \in Payloads : payload' = [payload EXCEPT ![r] = d]
    /\ Goto(r, IF RequirePreview /\ call[r].dryRun THEN "issue"
               ELSE IF call[r].key # None THEN "check" ELSE AfterKey)
    /\ UNCHANGED <<now, stores, call, deed, answers, owed>>

\* A business rule or a lookup of the preview fails.
RefusePreview(r) ==
    /\ At(r, "preview")
    /\ \E stage \in {"denied", "failed", "unknown"} : Fail(r, stage)
    /\ UNCHANGED <<now, stores, call, payload, deed, owed>>

\* createApprovalToken
IssueToken(r) ==
    /\ At(r, "issue")
    /\ tokens' = [tokens EXCEPT ![Store(r)] = @ \cup
           {[id |-> r, tenant |-> call[r].tenant, tool |-> call[r].tool,
             payload |-> payload[r], expiresAt |-> now + TTL]}]
    /\ Goto(r, "tell")
    /\ UNCHANGED <<now, records, keptUntil, call, payload, deed, answers, owed>>

AnswerPreview(r) ==
    /\ At(r, "tell")
    /\ Return(r, "preview", "preview", None)
    /\ UNCHANGED <<now, stores, call, payload, deed, owed>>

\* Mutant: the key alone finds the record.
KeyRecordsAnyTenant(r) == {k \in records[Store(r)] : k.key = call[r].key}

KeyRecords(r) ==
    {k \in records[Store(r)] : k.tenant = call[r].tenant /\ k.key = call[r].key}

\* A row, of a token or of a key, is bound to the tool and the payload of the call.
BoundToTool(x, r) == x.tool = call[r].tool
Bound(x, r) == x.tool = call[r].tool /\ x.payload = payload[r]

\* checkIdempotency: the SELECT, and what follows unless the row has expired.
CheckKey(r) ==
    /\ At(r, "check")
    /\ owed' = [owed EXCEPT ![r] = {q \in @ : keptUntil[q] >= now}]
    /\ \/ /\ KeyRecords(r) = {}
          /\ Goto(r, AfterKey)
          /\ UNCHANGED answers
       \/ \E k \in KeyRecords(r) :
          \/ /\ k.expiresAt < now
             /\ Goto(r, "drop")
             /\ UNCHANGED answers
          \/ /\ k.expiresAt >= now
             /\ ~Bound(k, r)
             /\ Fail(r, "denied")
          \/ /\ k.expiresAt >= now
             /\ Bound(k, r)
             /\ Return(r, "replay", "replayed", k.by)
    /\ UNCHANGED <<now, stores, call, payload, deed>>

\* ... the DELETE of a row that was seen expired: whatever is there by now goes.
DropKey(r) ==
    /\ At(r, "drop")
    /\ records' = [records EXCEPT ![Store(r)] = @ \ KeyRecords(r)]
    /\ Goto(r, AfterKey)
    /\ UNCHANGED <<now, tokens, keptUntil, call, payload, deed, answers, owed>>

\* Mutant: the token alone finds the row.
PresentedTokensAnyTenant(r) == {t \in tokens[Store(r)] : t.id = call[r].token}

PresentedTokens(r) ==
    {t \in tokens[Store(r)] : t.id = call[r].token /\ t.tenant = call[r].tenant}

\* verifyAndConsumeToken up to its checks.
VerifyToken(r) ==
    /\ At(r, "verify")
    /\ \/ /\ call[r].token = None
          /\ Return(r, "denied", "denied", None)
          /\ UNCHANGED tokens
       \/ /\ call[r].token # None /\ PresentedTokens(r) = {}
          /\ Fail(r, "denied")
          /\ UNCHANGED tokens
       \/ \E t \in PresentedTokens(r) :
          \/ /\ now > t.expiresAt
             /\ tokens' = [tokens EXCEPT ![Store(r)] = @ \ PresentedTokens(r)]
             /\ Fail(r, "denied")
          \/ /\ now <= t.expiresAt
             /\ ~Bound(t, r)
             /\ Fail(r, "denied")
             /\ UNCHANGED tokens
          \/ /\ now <= t.expiresAt
             /\ Bound(t, r)
             /\ Goto(r, "consume")
             /\ UNCHANGED <<tokens, answers>>
    /\ UNCHANGED <<now, records, keptUntil, call, payload, deed, owed>>

\* TokenStore.consume: the DELETE tells whether this call removed the row.
Removes(r) == TRUE
Wins(r) == PresentedTokens(r) # {}

ConsumeToken(r) ==
    /\ At(r, "consume")
    /\ \/ /\ Wins(r)
          /\ tokens' = [tokens EXCEPT ![Store(r)] = @ \ PresentedTokens(r)]
          /\ deed' = [deed EXCEPT ![r] = "authorised"]
          /\ Goto(r, "send")
          /\ UNCHANGED answers
       \/ /\ ~Wins(r)
          /\ Fail(r, "denied")
          /\ UNCHANGED <<tokens, deed>>
    /\ UNCHANGED <<now, records, keptUntil, call, payload, owed>>

\* On SQLite a statement on a store may throw (a lock, a full disk) and changes nothing.
StoreThrows(r) ==
    /\ Sqlite
    /\ \E point \in {"issue", "check", "drop", "verify", "consume"} : At(r, point)
    /\ Fail(r, "failed")
    /\ UNCHANGED <<now, stores, call, payload, deed, owed>>

\* tool.execute puts the mutation on the wire; Autodesk applies or refuses it.
Send(r) ==
    /\ At(r, "send")
    /\ \E d \in {"applied", "refused"} : deed' = [deed EXCEPT ![r] = d]
    /\ Goto(r, "await")
    /\ UNCHANGED <<now, stores, call, payload, answers, owed>>

\* A 2xx answer whose body was read.
Succeed(r) ==
    /\ At(r, "await") /\ deed[r] = "applied"
    /\ Goto(r, "record")
    /\ UNCHANGED <<now, stores, call, payload, deed, answers, owed>>

\* execute throws: a refusal, no answer at all (or a 5xx), or a 2xx answer whose body
\* could not be read or parsed, which is none of the errors handleError knows.
ExecuteThrows(r) ==
    /\ At(r, "await")
    /\ \/ deed[r] = "refused" /\ Fail(r, "failed")
       \/ Fail(r, "unknown")
       \/ deed[r] = "applied" /\ Fail(r, "failed")
    /\ UNCHANGED <<now, stores, call, payload, deed, owed>>

\* The "executed" entry.  With no key to store the answer follows at once.
RecordExecution(r) ==
    /\ At(r, "record")
    /\ IF call[r].key = None
       THEN Conclude(r, "executed", "success", Advice(TRUE), r)
       ELSE \/ /\ trail' = [trail EXCEPT ![r] = @ \cup {"executed"}]
               /\ Goto(r, "store")
               /\ UNCHANGED <<reply, result>>
            \/ /\ IgnoresAuditFailure
               /\ Goto(r, "store")
               /\ UNCHANGED answers
            \/ /\ ~IgnoresAuditFailure
               /\ reply' = [reply EXCEPT ![r] = Advice(TRUE)]
               /\ Goto(r, "done")
               /\ UNCHANGED <<trail, result>>
    /\ UNCHANGED <<now, stores, call, payload, deed, owed>>

\* INSERT OR REPLACE of the call's row; the mutant is INSERT OR IGNORE.
OwnRecord(r) ==
    [tenant |-> call[r].tenant, key |-> call[r].key, tool |-> call[r].tool,
     payload |-> payload[r], by |-> r, expiresAt |-> now + TTL]
InsertOrIgnore(r) ==
    records[Store(r)] \cup (IF KeyRecords(r) = {} THEN {OwnRecord(r)} ELSE {})
InsertOrReplace(r) == (records[Store(r)] \ KeyRecords(r)) \cup {OwnRecord(r)}

\* storeIdempotencyResult replaces the row of the key and the call is answered; on SQLite
\* the write may throw (lock, full disk), which handleError audits as a failed call.
StoreResult(r) ==
    /\ At(r, "store")
    /\ \/ /\ records' = [records EXCEPT ![Store(r)] = InsertOrReplace(r)]
          /\ keptUntil' = [keptUntil EXCEPT ![r] = now + TTL]
          /\ reply' = [reply EXCEPT ![r] = "success"]
          /\ result' = [result EXCEPT ![r] = r]
          /\ Goto(r, "done")
          /\ UNCHANGED trail
       \/ /\ Sqlite
          /\ Fail(r, "failed")
          /\ UNCHANGED <<records, keptUntil>>
    /\ UNCHANGED <<now, tokens, call, payload, deed, owed>>
-----------------------------------------------------------------------------
Live(rows) == {x \in rows : x.expiresAt >= now}

\* Process p stops and starts again: its calls are gone, and with them what it kept in
\* memory; a start on SQLite deletes the expired rows.
Restart(p) ==
    /\ pc' = [r \in Requests |->
                 IF pc[r] \notin {"new", "done"} /\ call[r].proc = p THEN "crashed" ELSE pc[r]]
    /\ IF Sqlite
       THEN /\ tokens' = [tokens EXCEPT ![None] = Live(@)]
            /\ records' = [records EXCEPT ![None] = Live(@)]
            /\ UNCHANGED keptUntil
       ELSE /\ tokens' = [tokens EXCEPT ![p] = {}]
            /\ records' = [records EXCEPT ![p] = {}]
            /\ keptUntil' = [r \in Requests |->
                   IF pc[r] = "done" /\ call[r].proc = p THEN 0 ELSE keptUntil[r]]
    /\ UNCHANGED <<now, call, payload, deed, answers, owed>>

\* cleanupExpiredRows on SQLite, the token gc in memory.
Purge(s) ==
    /\ tokens' = [tokens EXCEPT ![s] = Live(@)]
    /\ records' = IF Sqlite THEN [records EXCEPT ![s] = Live(@)] ELSE records
    /\ UNCHANGED <<now, keptUntil, pc, call, payload, deed, answers, owed>>

Tick ==
    /\ now < MaxTime
    /\ now' = now + 1
    /\ UNCHANGED <<stores, pc, call, payload, deed, answers, owed>>

Serve(r) ==
    \/ BuildPreview(r) \/ RefusePreview(r) \/ IssueToken(r) \/ AnswerPreview(r)
    \/ CheckKey(r) \/ DropKey(r) \/ VerifyToken(r) \/ ConsumeToken(r) \/ StoreThrows(r)
    \/ Send(r) \/ Succeed(r) \/ ExecuteThrows(r) \/ RecordExecution(r) \/ StoreResult(r)

Next ==
    \/ \E r \in Requests : (\E c \in Call : Receive(r, c)) \/ Serve(r)
    \/ \E p \in Processes : Restart(p)
    \/ \E s \in Stores : Purge(s)
    \/ Tick

Spec == Init /\ [][Next]_vars
-----------------------------------------------------------------------------
Operation == [tenant : Tenants, tool : Tools, payload : Payloads]

SameOperation(q, r) ==
    call[q].tenant = call[r].tenant /\ call[q].tool = call[r].tool /\ payload[q] = payload[r]

\* The refinement mapping: an offer is a token row, in whichever store it is; an offer is
\* used when its row was consumed.
OfferOf(t) ==
    [id |-> t.id, op |-> [tenant |-> t.tenant, tool |-> t.tool, payload |-> t.payload]]
DeedOf(r) ==
    [by |-> r, offer |-> [id |-> call[r].token,
                          op |-> [tenant |-> call[r].tenant, tool |-> call[r].tool,
                                  payload |-> payload[r]]]]

Offered == {OfferOf(t) : t \in UNION {tokens[s] : s \in Stores}}
Performed == {DeedOf(r) : r \in {q \in Requests : deed[q] # "none"}}

Approvals == INSTANCE Approval WITH
    Operations <- Operation, offered <- Offered, performed <- Performed

\* In preview_required mode every mutation uses up one offer, made by an earlier preview,
\* of exactly that operation of that tenant (verifyAndConsumeToken), whatever the
\* interleaving of calls and processes, and whatever restarts.
ImplementsApproval == Approvals!Spec

\* In preview_required mode a mutation was let through only with a token the client got
\* from a preview of the same operation, and that preview did not execute anything.
ActsAsPreviewed ==
    RequirePreview =>
        \A r \in Requests : deed[r] # "none" =>
            /\ call[r].token # None
            /\ reply[call[r].token] = "preview" /\ deed[call[r].token] = "none"
            /\ SameOperation(call[r].token, r)

\* No token lets two calls through: the conditional DELETE of consume decides between
\* calls that all passed the checks of verifyAndConsumeToken.
SingleUse ==
    RequirePreview =>
        \A q, r \in Requests :
            q # r /\ deed[q] # "none" /\ deed[r] # "none" => call[q].token # call[r].token

\* The audit stages of a call agree with what happened: "executed" only of an applied
\* mutation; a denial, a preview or a replay only of a call that let no mutation through;
\* at most one verdict per call, but for a result that could not be stored.
AuditTellsTheTruth ==
    \A r \in Requests :
        /\ "executed" \in trail[r] => deed[r] = "applied" /\ trail[r] \subseteq {"executed", "failed"}
        /\ trail[r] \cap {"denied", "preview", "replay"} # {} =>
               deed[r] \notin {"applied", "refused"}
        /\ deed[r] = "applied" /\ pc[r] = "done" /\ FailClosed /\ reply[r] = "success" =>
               "executed" \in trail[r]

\* With fail-closed auditing the log links every executed mutation to the preview that
\* approved it: the token of an "executed" entry has a "preview" entry (approval_token_fp).
ExecutionsTraceToPreviews ==
    RequirePreview /\ FailClosed =>
        \A r \in Requests : "executed" \in trail[r] => "preview" \in trail[call[r].token]

\* When the audit line cannot be written, the answer tells the client the truth about
\* retrying: "NOT executed, safe to retry" only if no mutation was let through, "HAS been
\* applied, do NOT retry" only if it was applied (apsExecutionCompleted in handleError).
HonestRetryAdvice ==
    \A r \in Requests :
        /\ reply[r] = "not_executed" => deed[r] = "none"
        /\ reply[r] = "applied_unaudited" => deed[r] = "applied"

\* A result is only ever given for the operation that produced it: the call's own, or,
\* on a replay, that of an applied call of the same tenant, tool, payload and key, and
\* then the call that gets it did nothing itself.
ReplaySound ==
    \A r \in Requests : result[r] # None =>
        LET q == result[r] IN
        /\ deed[q] = "applied" /\ SameOperation(q, r)
        /\ q # r => call[q].key = call[r].key /\ deed[r] = "none"

\* "If you repeat the call with the same key, the server recognises it": a call that
\* arrives after another one with its key was answered with success does not act while
\* the record of the key lives, in whichever order other calls interleave.
KeyedRetryNotRepeated ==
    \A r \in Requests : deed[r] # "none" => owed[r] = {}

\* The audit log's own reading of "failed_api", "the call definitively failed".
FailedMeansNotApplied ==
    \A r \in Requests : "failed" \in trail[r] => deed[r] # "applied"
=============================================================================
