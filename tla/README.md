# A verification project for acc-forma-mcp-server

TLA+ modules of the server in `src/`, TLC configurations that check them on small
instances, and TLAPS proofs of what matters most. Paths below are relative to the
repository; `_wrap.ts` is `src/tools/_wrap.ts`.

## 1. The system

An MCP server that lets an LLM client read and change Autodesk Construction Cloud data.
Its own logic is a guarded path for changes ("mutations"): preview, approval token,
idempotency key, rate limit, audit log. It runs on stdio for one user, or over HTTP for
several tenants, each with a service account ("robot") of its own.

| Component | State it keeps | Operations | Correct when |
|---|---|---|---|
| Mutation pipeline (`tools/_wrap.ts`, `safety/approval.ts`, `safety/idempotency.ts`, `safety/dry-run.ts`) | approval tokens and idempotency records, in memory or SQLite (`persistence/*-store.ts`) | one tool call: gates, preview, token, key, execute, audit, answer | nothing executes without its own unused, unchanged preview; a keyed retry does not act again; the answer and the log tell the truth |
| Audit log (`safety/audit-log.ts`, `safety/hash-chain.ts`, `tools/meta/verify-audit-chain.ts`) | daily JSONL files per directory; cached hashes per process | append, restore, prune, verify | a file verifies when nobody tampered, and only if; recent entries stay, old ones go |
| Autodesk client (`http/client.ts`) | an attempt counter per request | request with retries | a mutation takes effect at most once, its caller is not misled, every request ends |
| Access tokens (`auth/*`) | one cached token per provider | get, fetch, invalidate | a token outlives the request it is used for; a rejected one is not used again |
| Rate governance (`safety/rate-governance.ts`, `persistence/rate-store.ts`) | a counter per tenant, tool, project id and hour | count and judge, clean up | no more than the limit per project and hour |
| Allow-list, business rules, read-only, URL guards, redaction (`safety/*`, `utils/*`) | none | pure checks | agree with their definition |
| Database (`persistence/db.ts`) | `state.db` | migrate, clean up | a crash in a migration takes no row off the disk |
| Tenancy (`tenancy/*`) | tenants, encrypted keys, cached providers | resolve a bearer token, build a context | a tenant reaches only its own robot; a disabled one nothing |
| Scripts (`scripts/tenant-admin.ts`, `backup-tenants.ts`, `tenant-seed.ts`) | the same database, backup files, service accounts at Autodesk | create, disable, delete, back up, restore, rotate | a rotation is all or nothing, no tenant is lost, none comes back unasked |
| HTTP transport (`transport/http.ts`) | none across requests | authenticate, parse, dispatch | authentication comes first |
| Mutating tools (`tools/issues`, `reviews`, `webhooks`, `md`) | none between calls | rules, live reads, dry run, request | what is sent is what the dry run showed, and rests on what was true during the call |
| Reading tools and API adapters (`apis/*`, `tools/mp`, `tools/mc`) | none but loops: pages, polls, chunks, a pool of workers | property scans, downloads, version differences, clash reports, element queries | an answer does not depend on how it was cut up or in which order it came; loops end |

How they interact: a tool call runs through the pipeline; its preview and its execution
call Autodesk through the client, which takes a token from the provider of the tenant;
each outcome is appended to the audit log; tokens, keys and counters sit behind the
persistence stores. Everything in a process shares one event loop, so between two awaits
nothing else runs there; several processes share the SQLite file and the audit directory
only. `docs/SAFETY.md` declares a single process; the code of `TokenStore.consume`
nevertheless defends against several, and the models check it with two.

What is hard here: calls that interleave at awaits, and between SQL statements of two
processes; live data that changes between the dry run and the execution; restarts in the
middle of a call; answers of Autodesk that get lost; writes of the log or the database
that fail after the mutation was applied; tokens and keys that expire while in use;
midnight. The full list, at its lines, is `hazards` in `PROJECT.json`.

## 2. Modules

| Module | Models | Order |
|---|---|---|
| `Approval` | abstract: an offer is made, may lapse, and is used up by exactly the operation it offers | 1 |
| `MutationPipeline` | `wrapMutationTool`, `handleError`, both token stores and both idempotency stores; implements `Approval` | 1 |
| `MutationPipelineProofs` | its theorems | 1 |
| `AuditLog` | `appendAuditEntry`, `pruneOldAuditFiles`, `verifyChain`, `meta_verify_audit_chain` | 2 |
| `AuditLogProofs` | its theorems | 2 |
| `RemoteCall` | abstract: a mutation takes effect at most once and the answer is true | 3 |
| `ApsClient` | `apsRequestDetailed` with the shared `TokenCache`; implements `RemoteCall` | 3 |
| `ApsClientProofs` | its theorems | 3 |
| `RateGovernance` | `checkRateLimit`, both rate stores, the clean-up timers | 4 |
| `RateGovernanceProofs` | its theorems | 4 |
| `PipelineAuditProofs` | further theorems of `MutationPipeline`, upon `MutationPipelineProofs` | 5 |
| `Tenancy` | the tenants table, the provider cache, `POST /mcp` from bearer key to handler | 6 |
| `TenantAdmin` | `tenant-admin.ts`, `tenant-seed.ts`, `apis/ssa-admin.ts`; extends `Tenancy` | 6 |
| `TenantBackup` | `backup-tenants.ts` and restarts; extends `TenantAdmin`, composes the three | 6 |
| `MutationTools` | the eight mutating tools: rules, live reads, dry run, hashed payload, request | 7 |
| `MutationToolsProofs` | its theorems | 7 |
| `ModelScan` | `getMdProperties`, `aggregateMdProperties`, `fetchWithFilter` | 8 |
| `NdjsonRead` | `fetchNdjson`, `readNdjsonStream`, `splitNdjsonLines` | 8 |
| `VersionDiff` | `mp_diff_versions`: poll, download, roll up; extends `NdjsonRead` | 8 |
| `ClashReport` | `getClashResults`, `resolveClashes` | 8 |
| `WorkerPool` | `withConcurrencyLimit` | 8 |
| `TenantProofs` | the theorems of `TenantBackup` | 9 |
| `AecdmQueries` | `queryElementPositions`, `listAecdmCategories`; extends `WorkerPool` | 8 |
| `Ordering` | a finite set as a sequence in order: `filter` and `sort` of the queries | 8 |
| `SchemaMigration` | `migrateSchema`, statement by statement | 9 |
| `ToolsProofs` | the theorems of `AecdmQueries`, `ClashReport`, `VersionDiff`, `ModelScan` and `SchemaMigration`, and of `MCTools` with all of them | 9 |
| `MC...` | values of the constants and symmetry sets for TLC; `MCTools` has the modules of 7 to 9 side by side | |

### MutationPipeline and the code

`pc[r]` says where call `r` is. Each point is the start of a stretch of code that another
actor cannot interrupt:

| point | code | action |
|---|---|---|
| `new` | `_wrap.ts:181-234` | `Receive` (gates are verdicts; auth mode answers inside the `try`, the others throw) |
| `preview` | `_wrap.ts:237` | `BuildPreview`, `RefusePreview` |
| `issue`, `tell` | `createApprovalToken`; `_wrap.ts:257-272` | `IssueToken`, `AnswerPreview` |
| `check`, `drop` | `checkIdempotency`: SELECT; DELETE of an expired row | `CheckKey`, `DropKey` |
| `verify`, `consume` | `verifyAndConsumeToken`: SELECT and checks; conditional DELETE | `VerifyToken`, `ConsumeToken` |
| `send`, `await` | `tool.execute` | `Send`, `Succeed`, `ExecuteThrows` |
| `record`, `store` | the executed entry; `storeIdempotencyResult` | `RecordExecution`, `StoreResult` |

`SyncPoints` lists the points inside a synchronous stretch; `ThreadFree` lets no other call
of the same process run while one is inside. `StoreThrows` is a SQL statement that throws.
`Conclude` is the last audit entry of a call together with its answer, with both branches
of a failing append: `Return` for appends inside the `try`, whose failure `handleError`
turns into retry advice, `Fail` for the append of `handleError` itself, whose failure
escapes. `Restart`, `Purge` and `Tick` are the environment. `keptUntil` and `owed` are
history: they let a property speak of what a call found when it arrived.

Abstracted: a payload stands for its hash; an execution is one mutation at Autodesk whose
fate is decided when it is put on the wire; a token is named after the call that issued it,
and a client presents only tokens it was given (they are random). A tool whose execution
makes several requests (`issues_pin_element`) is one mutation here.

### AuditLog and the code

`Prepare` is `todayLogFile` and `getLastHash` (with the eviction of yesterday's hash), `Write`
and `WriteFails` are `appendFileSync` and what follows, `PeriodicPrune` the timer of
`index.ts`, `Restart` a new process, which prunes first. A write that fails may leave nothing,
a part of a line, or a line without its newline; `Readable` says which lines then still parse,
and `LoadLastHash` what a restart makes of the last one. The read of that last line may fail
although the file is whole (`ReadFails`): the chain then starts again from genesis, as
`docs/SAFETY.md:262-264` warns, and the file is `unread`, about which `ChainValid` promises
nothing. `Edit` is somebody who alters, removes or swaps entries. SHA-256 is a free
constructor. The skipping of read entries (`FORMA_AUDIT_INCLUDE_READS`) needs no action: such
an entry is not appended.

### ApsClient and the code

One iteration of the loop is `GetAccessToken`, perhaps `IssueToken` and `ReceiveToken`, and
one of the answers `Unauthorized`, `RateLimited`, `ServerError`, `Refused`, `Done`,
`NoAnswer`. Autodesk's part is in the same step as the client's reaction, except that a
lost answer leaves the request `straggling`: Autodesk may apply it later. One tick stands
for 15 s: a token fetch times out after one, a request after two, the buffer is four; a
token lives six ticks instead of 240 so that it expires within the run. The proof
obligations behind it are only the inequalities of `ConstantsAssumption`.

### RateGovernance and the code

`CheckRateLimit`, `Increment` and `Judge` are the three moments of `checkRateLimit`: the
clock is read, the call is counted, the count is read back. `PruneStale` and `DeleteStale`
are the same for a clean-up, which has three callers: `prune` is the timer of
`rate-governance.ts`, `sweep` the timer of `setupPersistence`, `start` its call at start-up.
`sqlite` is the persistence mode and `running` the processes that are deployed, which both stay
as they were chosen. `StatementThrows` differs by caller as the code does. A call of
`checkRateLimit` without a configured limit or without a project changes nothing and is left
out.

### The tenant modules and the code

One database, one machine: a server, shells that run commands, and restarts that end both.
`Authorize` is `requireBearer` with `buildTenantContext`, which have no await between them;
a cached provider wins over the row. `ParseBody` comes after it, as the order of the
middleware has it. A ciphertext is the number of its master key. A command is split at its
awaits and its statements: `create` lists the accounts, makes one, makes its key and writes
the row, and each call to Autodesk may fail, or take effect and lose its answer;
`delete-ssa` notes the tenants it found, disables them one by one and deletes the account;
`restore` reads and checks the file, takes a snapshot, overwrites, reads back; `rotate-key`
previews, takes a snapshot, and commits one transaction that reads the rows again.
`RemoveFile` is an operator's `rm` of a backup, which the runbook asks for (sections 2.3, 4.1
and 6.4) and no code guards; a file that a running restore was given is spared.
`revoked` and `late` are history: whom an operator was told is rejected, and which rows
appeared once the deletion of their account was under way. So are `exposed` and `removed`:
the rows that were written while a restore lay between its snapshot and the overwriting, and
those whose last backup was removed, until a snapshot has them again. `Careful` is the
operators' part, and no more than the runbook's section 6.6: nobody provisions from a
rotation until `verify-key` reports no failure. Nothing bars provisioning during a restore.

### MutationTools and the code

`Begin` is the allow-list and the tool's synchronous rules; `ListIssueTypes`, `ReadModel`,
`ResolvePin`, `ReadOffset` and `ReadObject` are the reads of `issues_create` and
`issues_pin_element` in their order, with Autodesk changing between any two
(`WorldChanges`). For each tool there is what its dry run shows, what is hashed for
approval (`Payload`) and what the functions of `apis/` put into the request: three
expressions, because they are three in the code. The pipeline around a tool is reduced to
the comparison of payloads; that a token is used once is `MutationPipeline`'s.
`createWebhook` builds `autoReactivateHook: false` into its request and the dry run leaves
it out (`create.ts:98-104`, `154-161`, against `dry-run.ts:59-60`); `SentAsApproved` names
that one difference.

### The reading modules and the code

`ModelScan` lets Autodesk cut its answer into pages as it likes, the last one with a cursor or
without. `narrowed` is how the caller narrowed a scan: by a category, by element ids, by both
or, without a filter, not at all; only a category needs the object tree. Element ids narrow
`getMdProperties` alone, since `md_get_properties` ignores them with `group_by`. An element
query always has its category. `NdjsonRead` cuts a file into chunks anywhere, also within a
row; an answer without a body is a file without rows. `VersionDiff` counts time in polls of
four seconds; `Answered` runs from the answer to the next await. `ClashReport` downloads the
files of a test in the order of their addresses, and a call may filter on depth, on status or
on both; `NotOk` is the `continue` for an error status. In `WorkerPool` a worker runs from one
await to the next, so `next++` cannot be torn; `Fail` rejects the promise and leaves the other
workers at work, as `Promise.all` does. `AecdmQueries` gives the pool its tasks.
`SchemaMigration` is `idempotency_records`, the table that needs every step; each statement is
an action and `CrashServer` may come between any two.

## 3. Runs

| Run | Instance | Shows |
|---|---|---|
| `pipeline_preview` | 3 calls, 2 processes, 2 tenants, 2 payloads, SQLite, preview required, fail-closed | `ActsAsPreviewed`, `SingleUse`, `ExecutionsTraceToPreviews`, and that `Approval` is implemented |
| `pipeline_replay` | 3 calls, 1 process, 2 tenants, 1 key, SQLite, preview required, fail-closed | `AuditTellsTheTruth`, `HonestRetryAdvice`, `ReplaySound` |
| `pipeline_retry` | 3 calls, 1 process, 2 tenants, 1 key, memory, single-step, fail-open | `KeyedRetryNotRepeated` |
| `audit_chain` | 2 processes, 3 days, 3 appends, retention 2 | `ChainValid`, `ValidMeansGenuine`, `RecentEntriesStay`, `OldFilesGo` |
| `client_token` | 2 mutations, 1 retry, 7 ticks, one revocation | `TokenOutlivesRequest`, `RejectedTokenNotReused`, and that `RemoteCall` is implemented |
| `client_ends` | 2 repeatable requests, 2 retries | `EveryRequestEnds` |
| `rate_hours` | 1 or 2 processes, both modes, 3 hours, limit 1, 6 calls | `LimitHolds`, `LimitStretched`, `RefusedForCause` |
| `tenants` | 2 tenants, 2 accounts, quota 2, 2 shells, 5 commands, 2 master keys, 2 backup files, 1 request | `OwnRobot`, `DeletedRobotsCutOff`, `RowsUnderOneKey`, `KeysKept`, `RevokedStaysOut`, `NoTenantLost` |
| `tools` | the modules of the tools and queries and the migration, one part per behaviour: 2 calls and 2 changes at Autodesk; models of 4 elements; differences of 2 rows out of 3 kinds; 2 model versions; 3 tasks for 2 workers; 3 starts of a server | `SentAsApproved`, `SentIsSound`, `ScanExact`, `DownloadExact`, `DiffHonest`, `DiffEnds`, `ClashExact`, `AecdmExact`, `MigrationKeepsRows` |

Why the bounds are enough. Three calls are a preview and two rivals for its token, or a first
call, a replay and a stranger with the same key; two processes are needed for any race on
SQLite, and a third would only repeat a rival. Three clock values with a time to live of one
reach "before", "at" and "after" every expiry. The keys and the previews are checked in
separate runs because a preview carries no key; `pipeline_replay` has both in one. Three days
with a retention of two contain a midnight, an expiry and a day that must stay; three appends
give a chain with a middle, and a fork. In `client_token` one retry suffices for a second
effect, the expiry of a cached token and a rejected one; the clock stops in `client_ends`
because no step of a request waits for it. `rate_hours` needs two turns of the hour, one for a
clean-up that is late in the middle hour and one for a call that is late after it, and six
calls to exceed the four that `LimitStretched` allows; that bound is reached. `LimitHolds` is
a promise to a store with one writer, so some behaviours have a single process: on its
database it cleans up, stops and starts again at any moment, also while the hour turns within
a call or a clean-up, with the counters surviving, and keeps to the limit. One tenant and one
project do, because a tenant is told apart like an hour, as a part of the key; the theorems
speak of all tenants and projects.

In `tenants` two shells are two commands that race, five commands are a backup, its restore
and a rotation with a provisioning and a deletion in between, two keys are a rotation, and
two backup files a file to restore and the snapshot taken before. The processes of `tools`
share no state, so one run explores them as alternatives: a dry run and its execution with a
change at Autodesk before, between or after their reads; a model long enough for a full
page, a cap within a page and a cap at its end; a file of two rows, which a chunk can cut in
six places; three tasks, so that one worker takes a second one while the other is at its
first; and three starts, so that a migration is cut short, cut short again, and completed.

`CHECK_DEADLOCK FALSE` is set where the calendar or the requests run out.

Three runs end in a violation and are listed as findings:

- `pipeline_failed`: an applied mutation whose 2xx body cannot be read, or whose key cannot
  be stored, is audited as `failed_api`, which `audit-log.ts:27-28` reserves for calls that
  definitively failed.
- `tenant_lost`: a tenant provisioned between the snapshot of a restore and the overwriting
  of the database is in no copy afterwards, although `backup-tenants.ts:316-317` takes that
  snapshot for the sake of such tenants. `SnapshotSavesAll` is violated although the operators
  keep to the runbook and no backup was removed; `NoTenantLost` of the run `tenants` exempts
  exactly the rows written in between.
- `scan_truncated`: a rollup that reaches `maxScan` with the last element of a page leaves
  the rest of the model out and keeps `truncated: false`, against
  `model-derivative.ts:413`.

Other disagreements of text and code, which are in the models but have no run of their own:

- Under fail-closed auditing a call can finish as "HAS been applied" and leave no
  idempotency record, against `README.md:182-183`; a retry would act again
  (`RecordExecution` of `MutationPipeline` with a failing append).
- Fail-closed auditing does not keep an applied mutation from going unrecorded, against
  `README.md:468` (`docs/SAFETY.md:258` has it right).
- With SQLite, an error in the hourly clean-up of `rate-governance.ts:71` is caught by
  nobody and ends the process, which `index.ts:60-62` says must not happen and prevents for
  its own timer (`StatementThrows` of `RateGovernance`).
- A 401 is retried up to three times; the comment at `client.ts:119` says once
  (`Unauthorized` of `ApsClient`).
- A stop between `DROP TABLE` and `RENAME` of a migration leaves the rows in a copy that no
  later start looks at; `db.ts:91-95` describes the swap without that case.
  `MigrationKeepsRows` says exactly this much: the rows stay on the disk, and are served
  unless such a stop occurred.

### Fairness

The pipeline has safety properties only and no fairness. `AuditLog` assumes that an append
under way ends (it is synchronous) and that the prune timer keeps firing and can delete
(`setInterval` while the process is up; a start prunes too). `ApsClient` assumes that each
request goes on: a sleep ends because it is a timer, a fetch because of its
`AbortSignal.timeout`. Nothing is assumed about what Autodesk answers.
`DiffEnds` assumes that a running call of `mp_diff_versions` goes on: the event loop runs
its timers, and each of its requests is answered or times out. It assumes nothing of the
computation at Autodesk, which may never finish.

## 4. Proofs

`MutationPipelineProofs`, checked by `tlapm`, for every set of calls, processes, tenants,
tools, payloads and keys, every time to live, and both persistence modes:

- `TypeCorrect`: `Spec => []TypeOK`.
- `ApprovedAsPreviewed`, `TokenSingleUse`: `ActsAsPreviewed` and `SingleUse` are invariant.
- `PipelineImplementsApproval`: `Spec => ImplementsApproval`, by the refinement mapping
  `Offered` (a row is an offer) and `Performed` (a consumed row is a deed).

The last three are stated under `RequirePreview`, without which the pipeline makes no such
promise. From the constants only `ConstantsAssumption` is used.

The argument. `SingleUse` is not inductive: it holds because a row that was consumed never
returns, which takes knowing where every token is. The inductive invariant `Inv` says,
besides `TypeOK`: a token a call presents was answered to somebody by an earlier preview
(`TokenKnown`); a call answered with a preview has stopped there (`PreviewAnswered`); a row
in a store agrees with the preview that issued it (`RowsFaithful`); a mutation is let
through only past the point of consumption (`DeedPlaced`); a call whose token passed the
checks, or that was let through, has the tenant, tool and payload of the preview that
issued its token (`Checked`); the token of a call that was let through has no row in any
store any more (`Spent`). `SingleUse` then follows at `ConsumeToken`: the winner's row was
there, so by `Spent` no earlier winner had it. The proof that `Next` preserves `Inv` has
one lemma or step per action; most actions leave rows and deeds alone, and share a lemma.

`ApsClientProofs`, for any number of requests of any kinds and all retries, lifetimes and
timeouts that satisfy `ConstantsAssumption` (the buffer covers a token fetch and a request,
and a token lives longer than both):

- `ClientTypeCorrect`: `Spec => []TypeOK`.
- `TokensOutliveRequests`: `TokenOutlivesRequest` is invariant, by `TimeInv`: each fetch is
  within its timeout (`Timely`), and the cache overestimates the lifetime of its token by
  at most the time a token fetch takes (`CacheHonest`). Both inequalities of the assumption
  are used, the one for a cached token and the other for a fetched one.
- `RejectedTokensNotReused`: `RejectedTokenNotReused` is invariant, by `FreshInv`: a token
  that is granted but not yet cached is known to its request only (`Fresh`), so caching it
  cannot bring back one that was rejected; a 401 empties the cache unless the request ends.
- `RefinesRemoteCall`: `Spec => ImplementsRemoteCall`, by `EffectInv`: a mutation has had no
  effect, and is not waiting for one, before its request is done, and a request that may
  still be handled late was called unknown. Every answer, failure and timeout has one of
  the forms of `Outcome`, each a step or a stutter of `RemoteCall`.

`RateGovernanceProofs`, for all processes, tenants, projects and limits and both modes:

- `RateTypeCorrect`: `Spec => []TypeOK`.
- `SoleWriterKeepsLimit`: `LimitHolds` is invariant. With several writers it would be false,
  so it speaks of stores with one (`SoleWriters`): memory, or SQLite with the single process
  that `docs/SAFETY.md` asks for. By `LimitInv`: the row of the hour a process has read, or
  would read now, holds every call let through in it (`Covered`), and nothing was let
  through for a later hour; so a clean-up that the hour overtakes deletes no row in use.
- `RefusalsHaveCause`: `RefusedForCause` is invariant for any number of writers, by
  `CountInv`: a row never holds more than the calls counted under its key.
- `TwoProcessesStretchTheLimit`: `LimitStretched` is invariant. `Stretch` follows one key
  through its hour. Until a clean-up that the turn of the hour overtook deletes the row, it
  covers everything spent; the two processes cannot both be in such a clean-up once anything
  was spent, so this happens once and costs one budget and the call that waits; and once the
  hour is over only a process without a call in hand can delete the row, so that one more
  call at most slips through. `IsFiniteSet(Processes)` is assumed, because the property
  counts them.

`AuditLogProofs`, for all processes, directories, days, retentions and numbers of entries, from
`ConstantsAssumption` (a retention and a calendar of at least one day):

- `AuditTypeCorrect`: `Spec => []TypeOK`, by `Shape`, which says what an entry, a hash and an
  append under way are made of: a hash is of an entry that was tried, and what an append
  chains to is older than its own entry.
- `ValidLogsAreGenuine`: `ValidMeansGenuine` is invariant. With SHA-256 as a free constructor
  the hash of an entry holds the hash before it, so a file that verifies has its entries in
  the order they were computed in.
- `ServerKeepsRecentEntries`: `Spec => RecentEntriesStay`, an action property: an append only
  adds, and a prune deletes only what is past the retention.
- `OneWriterVerifies`: `ChainValid` is invariant if `Retention > 1`. `ChainInv` says besides
  `Shape` that a file nobody hurt, and whose last hash could be read whenever a process wanted
  it, is made of whole lines that chain (`Chained`), and that the hash its only writer has
  cached, or is about to chain to, is that of the last entry (`CacheTrue`, `AppendTrue`),
  until the file is past the retention and another process may have deleted it. The condition
  is needed: with a retention of one day, which `config/env.ts:63-69` accepts, an append that
  is overtaken by midnight may chain to a file that another process prunes before it is
  written, and TLC finds that file INVALID with nobody's doing.

`PipelineAuditProofs` goes on with the pipeline, in every mode:

- `LogTellsTheTruth` and `AdviceHonest`: `AuditTellsTheTruth` and `HonestRetryAdvice` are
  invariant, by `Fit`: for each call and each point where it may be, what it has done, what
  it has logged and what it was answered go together.
- `ExecutionsTraced`: `ExecutionsTraceToPreviews` is invariant where previews are required.
  A token is in a store only if its preview was made, and was answered only with its entry;
  `Inv` gives the rest.
- `ReplaysSound`: `ReplaySound` is invariant. `RowsTrue` says that each record in a store was
  made by a call that succeeded, with its tenant, key, tool and payload, and `ResultsTrue`
  that the result of a replay is that call's.
- `KeyedRetriesNotRepeated`: `KeyedRetryNotRepeated` is invariant with the stores in memory,
  for all calls, processes and keys. `KeepInv` says that the record of an answered call is
  there as long as promised (`PromisesKept`), that a store has one record per key, that the
  record `DropKey` deletes is still the one that was seen expired (`SeenExpired`), and that
  a call past the lookup has nothing owed to it (`Cleared`). It is stated for memory, because
  there the lookup and the deletion are one synchronous stretch (`ThreadFree`); with SQLite
  and several processes the deletion can take a record stored since the lookup.

`MutationToolsProofs`, for all inputs, projects, hosts and worlds at Autodesk, any number of calls
and changes:

- `MutationTypeCorrect`: `MutationSpec => []MutationTypeOK`, a part of the `TypeOK` that the run
  checks, by `CallShaped` and `WorldShaped`.
- `WhatIsSentWasShown`: `SentAsApproved` is invariant. Each offer is what some input, read in
  some way, hashed and showed (`Offered`); and for each of the eight tools two inputs and
  readings with the same hashed payload show the same and are sent as shown, whatever else
  they differ in (`SamePayload`, `AsShown`). These are the lemmas that would break if a field
  reached the request past the hash.
- `WhatIsSentIsSound`: `SentIsSound` is invariant. `Checked` says what the rules have
  established of a call at each point, `PinKnown` what it has read and that each reading was
  true of a world seen since the call began.

`ToolsProofs`. Its first lemmas are about finite sets: `SmallestBad` (among bad sets there is a
smallest one), and from it `OrderExists` and `InOrderFacts`, that a finite set has a sequence
of its members in any total order.

- `PoolTypeCorrect`, `PoolRunsEachOnce`: `PoolWhole`, the first conjunct of `AecdmExact`, is
  invariant for any number of tasks and workers. The strengthening says that no index beyond
  the counter has been touched (`Counted`) and that each one below it has a result or a
  worker unless a task failed (`Covered`).
- `QueriesExact`: `AecdmExact` is invariant, for any number of elements, batches and probes.
  `PositionsKnown` and `CategoriesKnown` say what the transforms and the probes hold while
  requests are under way: for each task that was answered its batch, for each one else
  nothing.
- `ClashesExact`: `ClashExact` is invariant, for all tables the files may hold and with either
  filter, both or none. The table of each file is the file if it was received and empty if not
  (`ClashFiled`), and the test is a successful one if there is one (`BestTest`);
  `ResolvesInOrder` says what is made of three tables. `ClashAssumption` has the distances as
  integers, the statuses as numbers and no instance that is nothing.
- `DownloadsExact`: `DownloadExact` is invariant, for any rows, any cuts of the stream into chunks
  and both caps. By `NdjsonIInv`: while the reader is open it stands after some `m` rows, what
  it holds over begins where row `m + 1` does, and the stream goes on where the bytes read
  end. Under it the lines of the next chunk are whole rows in order (`Splits`), the loop over
  them stops at the cap (`ParsesRows`), and `WrittenIs` has the three ways a file is written as
  one layout. `NdjsonAssumption` says that the byte cap is a number and "no cap" is not one.
- `DiffsHonest`: `DiffHonest` is invariant, for any rows, keys, filter and patience
  (`VersionDiffAssumption` has the bounds as numbers and the keys finite). `StationIInv` says
  which file is read at each point of the call and that only a finished computation is read;
  `RollupCounts`, a fact about cardinalities, that each row is counted once.
- `ScansExact`: `ScanExact` is invariant, for any model, any cuts into pages, all caps and
  whatever filters narrow the scan. By `ScanIInv`: between two pages the elements found are
  the first of the whole answer, or the groups are those of the elements looked at so far, and
  what is left of the model holds the rest. It takes that filtering a sequence is filtering
  its two parts (`ChosenSplit`), that a first part cut from a first part is one (`TakeMore`),
  and that the groups of one element more are the groups before with that element put in
  (`GroupsRows`, `AreaSteps`). `ScanAssumption` has the caps as numbers and a category that is
  sought.
- `MigrationTypeCorrect`, and `MigrationKeeps`: `MigrationKeepsRows` is invariant for any rows
  and any number of starts. The strengthening says what table and copy hold at each
  statement (`TableShape`, `CopyShape`), and that a table made after a stop before RENAME is
  never rebuilt (`TornShape`).
- `ToolsTypeCorrect`: `Spec => []TypeOK` for the specification of the run `tools` itself, by the
  invariants above and `MutationToolsProofs`'s: a step of one part leaves the variables of the
  others alone (`ToolsStep`). `DiffTyped` is what a difference needs besides: the files it was
  given, and the patience that bounds its clock.

`TenantProofs`, for any number of tenants, accounts, shells, commands, requests, master keys
and backup files, from `TenancyAssumption`, `AdminAssumption` and `BackupAssumption` (there
is a master key, the bounds are natural numbers, and `None` is no account, tenant, row, table
or file). `NextKinds` first sorts the actions into a few kinds by what they do to the table, the
backups and the shell's command (`ShellStep`); each invariant then has one case per kind.

- `TenantTypeCorrect`: `Spec => []TypeOK`, with `Placed`: a command that runs names the
  account or the file it works on, and the file is there.
- `RobotsKept`: `OwnRobot` is invariant. The rows of the backups have to keep to their robot
  as well (`FilesOwn`), because a restore brings them back.
- `KeysHeld`: `KeysKept` is invariant. A restore under way only ever brings back rows under
  the key the server runs with (`RestoreUnderKey`), because a restart with another key kills
  the restore too.
- `RevokedKeptOut`: `RevokedStaysOut` is invariant, because an id that was ever created is
  never created again.
- `DeletedCutOff`: `DeletedRobotsCutOff` is invariant. While `delete-ssa` is at work, a live
  tenant of its account is one it has still to disable, or came late (`DeletionsTold`).
- `TablesUnderOneKey`: `RowsUnderOneKey` is invariant under `Careful`, the runbook's rule.
- `NoneLost`: `NoTenantLost` is invariant, with or without that rule: a restore that is about to
  overwrite the table has every tenant in a backup but for those exposed or removed (`PutBy`).

Only model-checked: `EveryRequestEnds`, `OldFilesGo` and `DiffEnds`, because liveness and
ENABLED are out of the prover's reach, and what the three findings refute, in the runs that
refute it. Every other property of a run is stated by a theorem, some of them for the modes
and writers named above. The induction theorems of the library take an operator that the
provers cannot instantiate; where an induction is needed above, a smallest counterexample is
refuted instead (`SmallestBad`, `LeastNumber`), with what is to be shown written out in a
definition of its own. For the provers' sake the reading modules sort and filter with
`InOrder` instead of `SetToSortSeq` and `SelectSeq`, the lines of a chunk and the elements of
a page are taken in by recursive functions instead of folds, and `MutationTools` merges two
functions with its own `With` instead of `@@`.

## 5. What is left, in order

1. The retries of `callSdk` (`apis/data-management.ts`).
2. Pure operators against a reference definition: `parseRetryAfterSeconds`, the audit
   summary and redaction.

### Not modelled

- Server registration and configuration run once, before the first call, and keep no state.
- Audit redaction and summary are pure functions over free-form payloads; the rest of the
  models treats an entry as its stage.
- Packaging, examples, prototypes and the site hold no logic of the running server, and the
  core SDK surface re-exports what is modelled elsewhere.
- Of the adapters: the field-by-field reshaping of answers, which is data, and lists that
  hand an answer on. Of the reading tools: those that call one function and lay its answer
  out as text.
- Orphaned service accounts and lost answers of Autodesk occur in `TenantAdmin`, but no
  property says of an orphan more than the code does, which leaves it to `list-ssa`.
- Two servers that migrate one database at the same time. `SchemaMigration` has one, as the
  single machine of `docs/` does.

`components` in `PROJECT.json` has the whole list.
