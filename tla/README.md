# policyOS: governed effects, executions, the Runtime API, the AI Office and the knowledge services, in TLA+

policyOS (`src/policyos-app/app/`, Python, FastAPI, SQLAlchemy, asyncio,
PostgreSQL) turns approved plans into *governed external effects*: calls to
connectors that must be durable before they happen, made at most once per
delivery attempt, and accounted for afterwards.  Most packages are immutable
pydantic contracts and pure validators.  The state that several processes
change lives in `app/runtime/persistence` and `app/services` (short PostgreSQL
transactions), and the concurrency in `app/services/runtime_worker.py` (an
asyncio polling loop), in `app/execution` (provider calls of one plan), in the
requests of the AI Office (`app/services/office_application.py`), in the
knowledge services (uploads, connector syncs, chunking, embedding), and in the
callers that race for the same rows.  This project models that core.

## 1. Inventory

| component | state | operations | interacts with | hard behaviour | what makes it correct |
|---|---|---|---|---|---|
| effect delivery contract (`runtime/ports/delivery*.py`) | none: records and validators | validate claim, attempt, transition, not-invoked evidence, append, claim request | called by every caller before a transaction | validation is against a revision read earlier | a written history is a path of the closed graph |
| effect store (`runtime/persistence/delivery_*.py`, `models.py`) | immutable lifecycle revisions; one head row per effect | enqueue, claim, append, due selection | callers, worker | replay lookup and write are two transactions; lost answers; leases | compare-and-set per revision; one revision per request; a running lease is not replaced |
| orchestration service (`runtime/orchestration/delivery_*.py`) | none | claim, deliver once, withdraw, commit outcome, reconcile | store, adapters, clock, cancellation, credentials | awaits between check and use | the append follows what was observed |
| worker (`services/runtime_worker*.py`) | admitted tasks, completed tasks, `stopping` | poll, select, admit, run candidate, drain | store, adapters, host | tasks interleave at awaits; crash; cancel; shutdown | DELIVERING durable before a call; one call per DELIVERING revision; shutdown ends |
| record store and atomic write set (`runtime/persistence/repositories.py`, `transaction.py`) | record heads and revisions, transaction rows | persist revision, commit write set | API facade | first insert decided by a unique constraint; optimistic revision; write sets with rows in common | a head is proved by its revisions; a write set is stored whole |
| API idempotency (`services/runtime_api_idempotency.py`, `runtime_api_facade.py`, `runtime_api_integration.py`) | receipts | submit, request reconciliation, replay | permission facts, record store | a submission repeated while its first execution runs; an advisory lock whose hash two keys may share | one mutation per key, with its receipt; answers are true |
| rate admission (`runtime/persistence/rate_admission_repositories.py`, `runtime/ports/rate_admission.py`, `models/runtime_rate_admission.py`) | exact policies, revocations, immutable decisions, one counter per policy and window | provision, revoke, admit | API entry, managers' permissions | the first row of a counter has nothing to lock; revocation and authority are read before the commit; repeated requests | a window admits at most its limit; decisions prove the counter; a committed revocation is final; replays return the decision |
| logical results (`logical_result_repositories.py`) | result revisions | append from a staged write | record store | contiguity of revisions without a head row | the same |
| permission grants (`services/runtime_permission_grants.py`, `runtime_permission_facts.py`) | active links, immutable grant events | grant, revoke, resolve | API facade | a permission is resolved many statements before the mutation commits | links are what the events say; nobody mutates with a revoked permission |
| execution engine (`execution/`) | session and runtime state of one plan | initialize, dispatch, execute, complete, fail, time out, cancel | providers, an external caller | answers that are late, lost or out of order; retries; cancellation at any moment | dependency order, failure propagation, an earned outcome, an end |
| AI Office work packages (`services/office_application.py`, `ai/gemini_production.py`, `ai/providers/gemini_interactions.py`, ...) | package, task, runs, artifacts and audits of a request; its credential lease | execute a work package, open and close a provider scope, call with retries | PostgreSQL, provider, credential accessor | cancellation or database failure at any await; one client key used twice at once; a crash between the two transactions | agents run once per key; what is stored is consistent and audited; a request ends and gives its lease back |
| knowledge ingestion and sync (`knowledge/ingestion.py`, `connectors/sync_ingestion.py`, `connectors/persistence_ingestion.py`, `connectors/repositories.py`) | sources, documents, immutable versions, ingestion jobs; status and cursor of a connector's sync | upload, sync, complete or fail a sync, recover or cancel one | connector client, parser, scanner, database | duplicates and numbers are read long before the insert; a sync is recovered while it is at work; exceptions and losses between transactions | every record before the cursor is stored; versions are numbered 1 .. n without repeats; jobs account for them |
| knowledge chunking and embedding (`services/knowledge_chunking.py`, `services/knowledge_embeddings.py`) | chunks, citations, chunking status; embedding records and the vector store | chunk a version, embed a version | ingestion, embedding gateway, vector store | two calls for one version; a vector store outside the transaction | chunk sets are whole and cited; a record of success is committed only with its vector in the store |
| evaluation runs, connector HTTP client, request window of the middleware | run state; cache and circuit; counts per client | sequential calls | metrics, remote APIs | order of calls, staleness | not modelled (§6) |
| everything else (parsers, retrieval, `intelligence`, `judge`, `cross_validation`, `decisions`, `zero_trust`, `mcp*`, `metrics`, `api`, ...) | immutable models, request-local data | pure functions, remote calls | | none shared between processes | not modelled |

`PROJECT.json` lists every component with its status, and every hazard of the
code at the line where it bites.

## 2. Modules

| module | what it is |
|---|---|
| `EffectGraph` | statuses and the closed graph of their successors |
| `EffectLifecycle` | requests, the evidence each status carries, the validators as state predicates |
| `EffectDelivery` | **abstract specification**: per effect one register with version, status and lease, changed by compare-and-set |
| `EffectStore` | the store's rows, its two transactions, the callers; due selection; implements `EffectDelivery` |
| `RuntimeWorker` | the polling loop and its tasks, on top of the register of `EffectDelivery`, with crashes, lost answers and operators |
| `RateContract` | **abstract specification**: provisioning, revocation and decision, each at one instant, and no counter |
| `RateAdmission` | the transactions of rate admission, one step per statement that waits, reads or locks; implements `RateContract` |
| `ExecutionRuntime` | the transitions of one execution plan and its scheduling queries, as a state machine |
| `ExecutionDriver` | `ExecutionRuntime` against a clock: dispatches, provider calls, late and lost answers, retries, deadlines |
| `ApiContract` | **abstract specification**: submissions, write sets, grants and revocations, each at one instant |
| `RuntimeApi` | the same as transactions of PostgreSQL, one step per statement that waits, with row and advisory locks; implements `ApiContract` |
| `OfficeExecution` | work-package requests of the AI Office from their scope to their last commit |
| `KnowledgeIngestion` | documents of one source, brought in by uploads and by the syncs of a connector, statement by statement |
| `KnowledgeIndex` | chunks, citations and embeddings of the stored versions, and the vector store |
| `KnowledgePipeline` | both over one database, with exceptions, lost calls and a lost process |
| `MCEffectStore`, `MCRuntimeWorker`, `MCRateAdmission`, `MCExecution`, `MCRuntimeApi`, `MCOfficeExecution`, `MCKnowledgePipeline` | symmetry sets, plans, requests and feeds for TLC |
| `EffectStore_proofs` | the safety of `EffectStore`, and that it implements `EffectDelivery`, proved |
| `RuntimeWorker_proofs` | the safety of the workers, and that they act through `EffectDelivery`, proved |
| `RateAdmission_proofs` | that `RateAdmission` implements `RateContract`, and its safety, proved |
| `OfficeExecution_proofs` | the safety of the requests of the AI Office, proved |
| `Execution_proofs` | the safety of `ExecutionRuntime`; that the driver implements it, and the safety of its calls, proved |
| `RuntimeApi_proofs` | that `RuntimeApi` implements `ApiContract`, and its safety, proved |
| `KnowledgeIngestion_proofs` | what uploads and syncs know between their statements, and that every step keeps it |
| `KnowledgePipeline_proofs` | the same for chunking and embedding, and the safety of the pipeline, proved |

The worker is composed with the abstract register and not with the store: what
it sees of the store is exactly what `EffectStore` is shown to implement, and
all it does to it is what `EffectDelivery` allows (`WorkerImplementsDelivery`).

### 2.1 EffectLifecycle and EffectStore

*State.*  `revisions[e]` is the table `runtime_effect_lifecycle_revisions` for
effect `e`, in order; an entry is the request that wrote it, as in
`write_request_payload`.  `head[e]` is its row of
`runtime_effect_lifecycle_heads`.  `call[p]` is the request process `p` is
submitting and how far it is.  `now` is the injected clock.

*Actions.*  `Submit` builds a request from the last revision that its validators
accept (`Requests`).  `LookUp` is the first transaction of `_commit`: the replay
lookup.  `Commit` is the second.  Of a claim or an append it runs under the row
lock, in the order of the code: replay lookup again, terminal status,
compare-and-set, the three claim checks (`RefuseUnderLock`), else revision and
head together (`Write`).  `commit_effect` looks up in a transaction of its own,
too, but its second transaction takes no row lock and looks for no replay: it
stages the base write set of the effect's Runtime state first
(`delivery_transaction.py:245`), so that a copy of a written request is refused
as an optimistic-revision conflict, as is one whose state record somebody else
has advanced; what gets past it meets the unique keys of the effect
(`RefuseEnqueue`).  A conflict of an initial enqueue therefore says nothing: a
copy of it may be what was written.  `Resend`, `Copy` and `Forget` are a lost
answer, a second process with the same request, and a caller that is done or has
crashed.  `Tick` moves the clock.

*Abstractions.*  Record ids, digests and receipt ids are the revision number: a
revision never changes, so number, id and digest identify the same row.  The
timestamps that one caller stamps on one request are one clock reading.  An
optional column is a set with at most one element.  Scope (tenant, organization,
classification) is part of the effect's identity.  Two requests with one id for
*different* effects fail in the code by a unique index when their transactions
overlap and by replay comparison when they do not; the model has the second
answer for both.

### 2.2 RuntimeWorker

*State.*  `loop[w]` is where `run()` of worker `w` is; `task[<<w, s>>]` one
admitted asyncio task: its position in `_run_candidate`, its candidate and its
claim.  `effect` is the register.  `receipts` remembers claim and DELIVERING
writes for the replay lookup, `calls` the DELIVERING revisions for which an
adapter was called.  `requested[w]` is the host's shutdown request.

*Actions.*  `Observe`, `Select`, `RaiseCompleted`, `NextCycle`, `Drained` are the
steps of `run()` between awaits; `Enter` takes the semaphore; `Prepare`,
`CommitClaim`, `CommitDelivering`, `Revalidate`, `Withdraw`, `AdapterAnswers`,
`Record` are the stretches of `_run_candidate` between awaits.  A capability can
fail with the operational marker before or after its effect is durable
(`Fault`); a conflict raises (`pc = "raised"`) and ends `run()` at the next
`_raise_completed_failures`.  A failed preparation of a cycle is raised and ends
`run()`, a failed shutdown observation costs only the cycle (`Observe`).  A call
keeps its permit of the semaphore until the adapter answers, so as many hung
calls as there are permits hold up every other effect (`Jammed`).  `Crash` and
`Restart` are the process; `LeaseEnds`, `Reconcile`, `Submit` and
`RequestShutdown` the environment.

*Abstractions.*  One assignment per worker.  Poll results have no state.  The
clock is the event that a lease is over.  Permits, credentials and cancellation
are the outcome of `Revalidate`.

### 2.3 RateContract and RateAdmission

*Contract.*  `RateContract` settles each command and each request at one instant
on what is committed by then: `Provide` and `Withdraw` need the authority and a
fresh identity, `Decide` a policy in force at the observation and a window of
the grid, and it admits on the number of requests admitted in that window so
far.  It has no sessions, locks or answers, and no counter: that the counter of
the code is this number is part of what the refinement shows.

*State.*  `policies`, `revoked` and `decisions` are the committed rows of the
three append-only tables, `counter` the `admitted_count` of
`runtime_rate_window_counters` (0: no row), `authority` whether the manager's
membership, role and permission rows grant `runtime.rate_policy.manage`.
`tx[p]` is the transaction of database session `p`: its position, its request,
the locks it holds, the row it has inserted and not committed, its answer.

*Actions.*  Each operation is one root transaction at READ COMMITTED, so other
sessions run between its statements.  `LookUp` is the replay lookup of
provision, revoke and admit; `LockPolicy` the policy row FOR UPDATE (admit,
revoke); `CheckTerms` the policy comparison, validity, the revocation and the
window, in the code's order; `Count` the advisory lock of the window, the count
and the insert of the decision; `CheckAuthority` the manager's rows FOR UPDATE
and `InsertCommand` the insert of a policy or a revocation.  An insert waits for
another pending insert of the same unique key (`Waits`) and then may fail the
constraint (`Insert`).  `Commit` publishes the row and the counter together and
frees the locks; `Leave` is a caller that is done or a lost connection, which
PostgreSQL rolls back.  `AuthorityChanges` is the environment; it changes the
rows that `CheckAuthority` locks and so waits for them.

*Abstractions.*  Decision, request, preparation and reference ids are one id,
and so are the request and receipt ids of a command.  All policies have the same
terms; a request names the policy by its locator and by the request that
provisioned it.  The policy row lock already orders all admissions of a policy;
the advisory lock, the row lock of the counter and its compare-and-set add
nothing to it, so the last two are not steps of their own.  The database checks
that repeat what the repository computed (the counter trigger, the check
constraints) cannot fail for rows the repository writes and are left out.

### 2.4 ExecutionRuntime and ExecutionDriver

*State.*  One plan: `status`, `attempts`, `startedAt`, `retryAt`, `completedAt`
are the `RuntimeStepState` of each step, `run` and `session` the two statuses of
the execution, `terminal` the terminal events emitted.  The driver adds the
clock, the session's deadline, the deadline of each dispatch, and `calls`: the
provider calls that are bound, invoked or answered and not yet reported.

*Actions.*  The functions of `execution/runtime.py` are pure and refuse a
snapshot whose revision is old, so each is one atomic step on the current one;
with it go the refresh of ready steps, the skipping of dependents
(`FailedDependents`, the least closed set) and the end of the execution.
`Execute`, `Answer` and `Report` are `DeterministicProviderExecutor`.  No module
of `app/` owns the loop that calls them: the caller is external, and it is the
one the signatures ask for (dispatch what is ready, report what comes back,
give up what is overdue, `Cancel` at any time).  A dispatch may have any
deadline up to the timeout of its step and the deadline of the session, or none
if the session has none (`DispatchDeadlines`); without one it is never overdue.

*Abstractions.*  The powers of the backoff are computed; a provider's output is
its error category.  The provider resolver is an input.

### 2.5 ApiContract and RuntimeApi

*State.*  `links` and `ledger` are the active role permissions and the immutable
grant events, `receipts` the idempotency receipts, `head` and `history` the
heads and revisions of Runtime records, results and inserted facts.  `tx[p]` is
the transaction of database session `p`: its position, its command, its locks,
the writes it has flushed, its answer.

*Actions.*  A submission locks user, organization, binding, roles, permission
and links FOR UPDATE (`LockRow`, `Resolve`), takes the advisory lock of its key
and looks for a receipt (`CheckReceipt`), writes its rows in the order of their
kinds (`SelectRow`, `InsertRow`) and commits them with the receipt.  A grant or
revocation looks its request up, locks the manager's rows, looks again under the
lock of the role (`LockRole`), compares link and revision (`CheckLink`) and
flushes its event, whose foreign key takes the permission row FOR KEY SHARE
(`FlushEvent`).  An insert waits for a pending insert of the same key.  `Deny`
is every refusal on the way; `Leave` a lost process.

*Abstractions.*  Rows that are only locked together with another row of the list
are left out (memberships; the manager's role rows).  Users, memberships and
bindings are changed by no code of the Runtime.  A key stands for tenant,
organization, principal, operation and version as well; a digest is a value.

Two observations from the model.  All changes of grants queue on the permission
row of the managers' authority before they look their request up again, so the
unique constraint on request ids never refuses one.  And a caller's own
submissions queue on the user row, so the advisory lock of the key matters only
between callers, where keys differ and only their hashes can meet.

### 2.6 OfficeExecution

*State.*  `pc[r]` is where request `r` is; `next`, `tries`, `result` and `sent`
its agents and their calls; `session[r]` what its database session sees of
package, runs, artifacts and audits, `stored[r]` what of it is committed;
`lease[r]` the credential lease of its provider scope and `cleanup[r]` the task
that releases it.

*Actions.*  `OpenScope` is `_GeminiScope.__aenter__`; `LookUp`, `Prepare`,
`Insert` and `CommitRunning` the first transaction of `execute_work_package`,
where the unique index of client keys lets an insert wait for a pending one;
`Generate`, `Deny`, `Answered`, `BackOff`, `SendAgain` an agent's call with its
transmission policy, retries and audit; `CancelCalls` and `Fail` the two handlers
around the workflow with `CommitUndone`; `Finish` and `CommitOutcome` the second
transaction; `Revoke`, `Release`, `Close` the shielded cleanup.  `Interrupt`,
`CancelCall` and `CancelClosing` are a cancellation or a database failure at an
await, `Crash` the loss of the process.  A commit whose answer is lost may have
been done (`MaybeStored`).

*Abstractions.*  The task record has the status of its package.  The knowledge
router, the provider and the data classification are free choices; the
transmission policy judges data of the task and so denies all agents or none.

### 2.7 KnowledgeIngestion, KnowledgeIndex and KnowledgePipeline

*State.*  `documents`, `versions` and `jobs` are the committed rows of one source
(`Source` stands for the source's own row), `sync` the status and cursor of its
connector, `chunking` the two mutable columns of a version, `chunks`,
`citations` and `records` the committed rows, `vectors` the vector store.
`call[p]` is the call session `p` is running: its position and what it has
inserted and not committed.

*Actions.*  `Upload` .. `CommitUpload` are `KnowledgeIngestionService.ingest`:
job, refusal, duplicate check in the whole source, document, number, version.
`LookUpState`, `StartSync`, `CommitSync` and `FailSync` are
`ConnectorSyncIngestionService.run`, with the same statements per record in
`DatabaseConnectorIngestionService.ingest`, where a duplicate is looked for in
the document and after it was found.  `StartByRoute` and `EndByOperator` are the
route and the service that change a sync's status without running it.
`ChunkVersion` .. `MarkFailed` are `chunk_version`, with its transaction of its
own for `running` and for `failed`; `EmbedVersion` .. `CommitRecords` are
`embed_version`.  An insert waits for a pending insert of the same unique key
and raises on a committed one.  The counters of a sync are flushed by the first
select of its next record (sessions autoflush, `db/session.py:22`), and from then
on the sync holds the row of its state until its transaction ends (`row`).
Whoever updates that row waits for it (`AwaitsRow`, and the operator), with a
read that may be old by then: `EndByOperator` ends a state that was running when
it was read.  `AbortDeadlock` is PostgreSQL, which cancels a statement of calls
that wait for each other; `Break` and `BreakChunking` are the other exceptions.
`Lose` is a cancellation, which `except Exception` does not handle, or an
exception of the handler, and `LoseProcess` the end of the process with all its
calls and with the vector store.

*Abstractions.*  No route calls these services yet (tests do), so sessions are
external callers, and so is the connector client that fetches what was published
after the cursor it reads (`Fetch`).  Parsing and scanning are outcomes.  A
rejected or failed job claims nothing and is not recorded; a cancelled sync is
`failed`.  Which chunks a version has depends on its content and configuration
only: `Ordinals` of them.  The only vector store of the repository is a
dictionary of the process (`vector_store.py:53`): the model has one process whose
sessions share one, the configuration in which what one call stores another can
find.  The selects of `embed_version`, one for each chunk, are one step, since no
property depends on what is stored between them.
`ConnectorSyncStateService.complete` and `progress` would move a cursor without
records; no code of `app/` calls them, and they are not modelled.

Observations from the model, none of which contradicts a sentence of the
repository: two calls that chunk one version may end with the loser's `failed`
after the winner's `succeeded`, nothing writes the status again, and the version
is not embedded any more (`knowledge_chunking.py:223` with `:109`); a chunking
call that is lost leaves `running`; a failed or blocked embedding record is
stored under the model of the settings, one of success under the model that was
answered, so that a retry fails at its commit when the two are the same
(`knowledge_embeddings.py:222`, `:173`), and leaves both records when they are
not; a restart empties the vector store, and chunks that were recorded as
embedded are not embedded again; two syncs that fetched from different cursors
can wait for each other, one for the row of the state, the other for a document
of the first (`sync_ingestion.py:38`); a handler that fails itself leaves its
sync `running`; a content that returns to an earlier one is a
duplicate, and the latest version stays the one in between
(`persistence_ingestion.py:63`); a sync that fetched early may move the cursor
back; `POST /sync` marks a sync as running that nobody runs
(`routes/connectors.py:155`), and only `recover_stale`, which no code calls, ends
it; of two equal uploads at once the loser is recorded as failed and not as
duplicate.

## 3. Runs

| run | shows | bounds |
|---|---|---|
| `store_race` | head = projection of history, history = path of the graph, one revision per request, true answers, with two callers that copy, resend and crash | 1 effect, 2 callers, 2 claims, 2 request ids, 4 revisions, 2 clock values |
| `store_path` | due effects can be selected, the register is implemented, along all paths (for any number of callers: §4) | 1 caller, 5 revisions, 3 clock values |
| `worker_race` | a call is durable first and not repeated; what is recorded of an effect is what happened to it | 2 workers with one task each, 7 revisions, 2 faults, 1 lease that ends under a live task |
| `worker_polls` | one worker that admits an effect again while its first task is pending, and two effects that compete for one permit: shutdown ends `run()`, and claimable work is not lost while a permit is left | 1 worker, 2 effects, 1 permit, 2 tasks, 5 revisions, 1 fault, 1 lease that ends under a live task, fairness |
| `rate_admission` | the limit of a window holds, decisions prove the counter, retries meet the next window, a committed revocation is final, the contract is implemented, every transaction ends | 2 sessions, 1 policy, 6 admission requests, 2 revocations, 2 provisionings, limit 2, windows of 4 ticks (2 seconds), fairness |
| `execution` | dependency order, failures reach all dependents, the outcome is earned, no deadlock of steps, only timely answers count, no call after cancellation, every execution ends that does not wait for a dispatch without a deadline | a diamond `a -> {b, d} -> c`, 2 attempts of `a`, no deadline of the session or one at 2, any deadline of a dispatch or none, instants 0 to 6, fairness |
| `runtime_api` | links are what the ledger says, heads what the history says, receipts what the writes say, answers are true, repeats are recognized, the contract is implemented, every transaction ends | 2 sessions, 4 users, 2 organizations, 3 submissions (two share a key), 3 write sets, 4 changes, one hash for two keys, fairness |
| `office` | agents run once per key, packages agree with runs, audits cover calls, requests end | 2 requests of one key, 2 agents, 1 retry, 2 faults and any crashes, fairness |
| `knowledge` | the cursor covers what is stored, versions and jobs agree, chunk sets are whole and cited, records of success follow their vectors, calls all wait only where two syncs compete for the row of their state | 2 sessions, a feed of 3 (two versions of one document and another between them), 3 kinds of uploads, 2 configurations, 2 chunks, 1 fault, 10 units of work: an ingestion takes three, an indexing call two |

Type invariants are not runs of their own: §4 proves the one of every module
that has theorems.

Why the bounds are enough: effects share nothing but request ids, so one effect
carries all interference of claims and appends; a race needs two callers and two
claims; a reclaim needs a claim, a tick and a second claim; five revisions reach
a second claim after a retry, a withdrawal and a reconciliation; two faults
reach a crash after a lost answer.  Two effects and one permit suffice for a hung
call to hold up another effect.  Policies share nothing but ids, so one policy
carries the interference of rate admission; two sessions suffice for a race for
a lock or a key, three requests exceed the limit of two, and the requests reuse
an id, miss the grid, lie outside the validity and on both sides of each
revocation.  The diamond has parallel branches, a join and a step with a retry;
its seven instants reach past every deadline.  The commands of the Runtime API
repeat a key with another digest, reuse a request id in another organization,
and compete for the first and for a later revision of the same record; 139,339
states at depth 70.  Two requests of one key race for it, and two faults reach a
cancellation that interrupts the handling of another; with three requests the
run takes too long, and the theorems of §4 hold for any number.  Ten units
of work store a document by a sync and let two uploads number its next version from the
same read; run two syncs that overlap and a third after them; or sync a version,
chunk it and embed it twice.  The feed repeats a content in another document,
and the uploads bring a content the feed has, one it has not, and one that
belongs elsewhere; one fault falls at any statement, and the operator at any
time.  2.14 million states, the deadlock of two syncs among them; how calls of
all kinds meet in larger numbers is left to the theorems of §4.  Deadlock
checking is off in all runs: an effect that is terminal, a worker that has
returned, a session whose caller does not come back, an execution or a request
that is over, really stops.  Where sessions wait for one another, a property of
its own excludes that they all do (`TransactionsEnd`), or names the
one way in which they do (`OnlySyncsDeadlock`).

Each run of the next table checks one sentence of a decision record that the
code does not keep; TLC shows the behaviour.

| run | the sentence | what happens |
|---|---|---|
| `due_selection` | ADR-112: delivery includes an approved retry that is eligible | a withdrawn call leaves its claim on the head; the retry makes due selection raise, and with it `run()` |
| `shutdown_claim` | ADR-122: no claim once shutdown is observed | a task past the semaphore claims during the drain |
| `office_runs` | `05_AI_OFFICE/WORKFLOW.md`: every planned run reaches a terminal state | an artifact above 64 KiB raises after the last handler, while the gateway accepts answers of 1 MiB; package, task and runs stay running |

Not checked by a run of their own, but seen while modelling: `append` accepts a
CLAIMED successor without the claim checks (`delivery_repositories.py:270`; no
caller does this, `ClaimsByAppend` adds one, and `ImplementsDelivery` is checked
and proved without it); a DELIVERED transition may carry an ambiguous certainty
(`ports/delivery_validation.py:235`); a DENIED retry decision is accepted as the
evidence of RETRY_SCHEDULED (`delivery_persistence_validation.py:344`, ADR-085);
the same admission submitted twice at once is answered by a conflict and not by
its decision (`rate_admission_repositories.py:517`, ADR-103); `fail_step` names
neither attempt nor dispatch, so that a late failure can hit a newer attempt
(`execution/runtime.py:562`); when an optional step succeeds last, after a
required one failed, the terminal event says completed and the status failed
(`execution/runtime.py:524`); two reviewers of an artifact read the same state,
and the second rejects what the first approved (`services/artifacts.py:112`).

`DueIsSelectable` is the part of the first sentence that does hold: every due
effect that does not follow a withdrawn call can be selected.

### Fairness

`worker_polls` assumes weak fairness of the loop, of every task step, of lease
ends and of restarts: the event loop runs what can run, capability calls return
or raise, time passes, the host restarts a dead process.  It assumes nothing of
adapters (`AdapterAnswers` is not fair: an adapter may hang), of operators or of
the host's shutdown.  Faults are finitely many.  `EffectsSettle` holds up to a
worker that has stopped or failed, or is jammed: a claim conflict between two
tasks for one effect ends `run()` in this code, and then the work is left to
other workers; and hung adapters that hold all permits leave every other effect
claimable for ever, which the run reaches with its one permit.

`rate_admission` and `runtime_api` assume strong fairness of each session's
steps: a statement that could run again and again is run, because PostgreSQL
grants a row lock or an advisory lock to its waiters in their order, the pending
insert that an insert waits for ends, and the domain operation between two
statements returns.  They assume nothing of callers (`Begin`), of crashes
(`Leave`) or of the authority.

`execution` assumes weak fairness of the caller's dispatches, give-ups and
terminations and of the clock, and nothing of providers: a call may never be
answered, and an answer may be lost.  A call with a deadline is given up then.
One without, which only a session without a deadline allows, may keep the
execution running for as long as nobody cancels it, and that is the exception
which `ExecutionEnds` makes.

`office` assumes weak fairness of each request's steps and of the task that
releases its scope: the event loop runs what can run, calls and the knowledge
router have timeouts, and the credential accessor and the database are assumed
to answer.  Faults are finitely many; crashes are not fair and not excluded.

## 4. Proofs

The theorems hold for all values of the constants, from the assumptions their
modules name: of the store `BoundsAssumption` and `EvidenceAssumption`; of rate
admission `TermsAssumption` (a window lasts at least a second and at most a
day, `ports/rate_admission.py:13`) and `RequestsAssumption`; of the worker
`WorkerAssumption`; of executions `PlanAssumption` (a finite plan without
cycles) and `PolicyAssumption`, and with the driver `DriverAssumption` and
`BackoffAssumption` (powers of the multiplier are numbers: the prover has no
exponentiation); of the knowledge pipeline `FeedAssumption`, `IndexAssumption`
and `PipelineAssumption`; of the Runtime API `CommandsAssumption` and `OrderAssumption`
(rows are written in one order); of the AI Office `OfficeAssumption`.  TLC
evaluates each of them in a run.

| theorem | module | statement |
|---|---|---|
| `TypeCorrect` | `EffectStore_proofs` | `Spec => []TypeOK` |
| `HeadProjects` | `EffectStore_proofs` | `Spec => []HeadProjectsHistory` |
| `HistoryFollows` | `EffectStore_proofs` | `Spec => []HistoryFollowsGraph` |
| `AnswersTrue` | `EffectStore_proofs` | `Spec => []AnswersAreTrue` |
| `OneRevision` | `EffectStore_proofs` | `Spec => []OneRevisionPerRequest` |
| `LeaseRespected` | `EffectStore_proofs` | `Spec => LeaseIsRespected`, if `~ClaimsByAppend` |
| `StoreImplementsDelivery` | `EffectStore_proofs` | `Spec => ImplementsDelivery`, if `~ClaimsByAppend` |
| `DueAreSelectable` | `EffectStore_proofs` | `Spec => []DueIsSelectable` |
| `TypeCorrect` | `RateAdmission_proofs` | `Spec => []TypeOK` |
| `CounterProved` | `RateAdmission_proofs` | `Spec => []DecisionsProveCounter` |
| `LimitIsKept` | `RateAdmission_proofs` | `Spec => []LimitHolds` |
| `RetriesLand` | `RateAdmission_proofs` | `Spec => []RetryMeetsNextWindow` |
| `RevocationFinal` | `RateAdmission_proofs` | `Spec => RevocationIsFinal` |
| `CommandsAuthorized` | `RateAdmission_proofs` | `Spec => CommandsAreAuthorized` |
| `RateImplementsContract` | `RateAdmission_proofs` | `Spec => ImplementsContract` |
| `TypeCorrect` | `RuntimeWorker_proofs` | `Spec => []TypeOK` |
| `CallsAreDurable` | `RuntimeWorker_proofs` | `Spec => []CallIsDurable` |
| `CallsAreNotRepeated` | `RuntimeWorker_proofs` | `Spec => NoRepeatedCall` |
| `OutcomesFollowCalls` | `RuntimeWorker_proofs` | `Spec => []OutcomeFollowsCall` |
| `CallsDoNotOverlap` | `RuntimeWorker_proofs` | `Spec => []OneCallPerEffect` |
| `WorkerImplementsDelivery` | `RuntimeWorker_proofs` | `Spec => DeliverySpec` |
| `RuntimeTypeCorrect` | `Execution_proofs` | `RuntimeSpec => []TypeOK` |
| `DependenciesFirst` | `Execution_proofs` | `RuntimeSpec => []WorkFollowsDependencies` |
| `FailuresReachDependents` | `Execution_proofs` | `RuntimeSpec => []NothingWaitsOnAFailure` |
| `EndsOnce` | `Execution_proofs` | `RuntimeSpec => []EndsWithItsLastStep` |
| `OutcomesAreEarned` | `Execution_proofs` | `RuntimeSpec => []OutcomeIsEarned` |
| `NoStepDeadlock` | `Execution_proofs` | `RuntimeSpec => []SomeStepCanMove` |
| `SettledStaysSettled` | `Execution_proofs` | `RuntimeSpec => SettledIsFinal` |
| `NoStartOnceCancelled` | `Execution_proofs` | `RuntimeSpec => NoStartAfterCancellation` |
| `DriverTypeCorrect` | `Execution_proofs` | `DriverSpec => []DriverTypeOK` |
| `DriverImplementsRuntime` | `Execution_proofs` | `DriverSpec => RuntimeSpec` |
| `LateOutputIsUnused` | `Execution_proofs` | `DriverSpec => []SuccessIsTimely` |
| `CancelledIsNotCalled` | `Execution_proofs` | `DriverSpec => NoCallAfterCancellation` |
| `ApiTypeCorrect` | `RuntimeApi_proofs` | `Spec => []TypeOK` |
| `StatementsImplementContract` | `RuntimeApi_proofs` | `Spec => ImplementsContract` |
| `CallersArePermitted` | `RuntimeApi_proofs` | `Spec => MutationsArePermitted` |
| `LedgerIsProof`, `HistoryIsProof`, `ReceiptIsProof` | `RuntimeApi_proofs` | `Spec => []LedgerProvesLinks`, `[]HistoryProvesHeads`, `[]ReceiptsProveMutations` |
| `WriteSetsAreStoredWhole` | `RuntimeApi_proofs` | `Spec => []WriteSetsAreWhole` |
| `AnswersCanBeTrusted` | `RuntimeApi_proofs` | `Spec => []AnswersAreTrue` |
| `RepeatsAreRecognized` | `RuntimeApi_proofs` | `Spec => RepeatIsRecognized` |
| `TypeCorrect` | `OfficeExecution_proofs` | `Spec => []TypeOK` |
| `AgentsRunOnce` | `OfficeExecution_proofs` | `Spec => []AgentsRunOncePerKey` |
| `PackagesAgree` | `OfficeExecution_proofs` | `Spec => []PackageAgreesWithRuns` |
| `AuditsCover` | `OfficeExecution_proofs` | `Spec => []AuditsCoverCalls` |
| `KnowledgeTyped` | `KnowledgePipeline_proofs` | `Spec => []TypeOK` |
| `CursorSafe` | `KnowledgePipeline_proofs` | `Spec => []CursorCoversFeed` |
| `VersionsAccounted` | `KnowledgePipeline_proofs` | `Spec => []VersionsAreAccounted` |
| `ChunkSetsWhole` | `KnowledgePipeline_proofs` | `Spec => []ChunkSetsAreWhole` |
| `RecordsFollowVectors` | `KnowledgePipeline_proofs` | `Spec => VectorsPrecedeRecords` |
| `DeadlocksNeedTheRow` | `KnowledgePipeline_proofs` | `Spec => []OnlySyncsDeadlock` |

Those that no run checks (the type invariants, `EndsWithItsLastStep`,
`LeaseIsRespected`, `SettledIsFinal`, `NoStartAfterCancellation`,
`MutationsArePermitted`, `WriteSetsAreWhole`, `OneCallPerEffect`,
`CommandsAreAuthorized`, and `DeliverySpec` as a property of the workers) were
checked by TLC before they were proved and hold by their proofs.

*History.*  Neither `HeadProjectsHistory` nor `HistoryFollowsGraph` is inductive:
a request in flight could be anything.  The inductive invariant `IInv` adds
`WellRead`: every request in flight was valid for the revision it names as the
one it read, and that revision is still in the history at its place.  The
compare-and-set gives `head.revision = previous`, `HeadProjectsHistory` gives
`head.revision = Len(history)`, hence what was valid for the revision read is
valid for the last one (`WriteContinues`).  Two structural lemmas carry the case
analysis over the actions once: only `Write` touches the rows (`StoreStep`), and
a request in flight is an old one or was just built (`CallStep`).

*Answers.*  An answer must stay true while other callers go on writing (that of a
conflicting enqueue claims nothing, §2.1).  `Kept`
says what keeps it: another row under the request id, a history that is longer
than what the request read, or a terminal effect; each of them lasts
(`AnswerStays`) and each answer starts with one of them (`AnswerGiven`).
`RowsOwned`, that a row lies with the effect it names, makes the replay lookup by
id agree with the history of the effect.

*Leases and refinement.*  Both need what a request carries from the moment it was
built: its clock reading is at most `now`, and a claim is a claim request
(`InFlight`); a history opens with an enqueue that carries no claim
(`Openings`).  `Continuation` collects what a written request owes to the
revision before it, `WriteAdvances` shows that a write is a compare-and-set of
the register, and `WriteImplements` goes through the statuses.  A tick ends
leases (`TickImplements`); every other step leaves the register alone.  The
assumption `~ClaimsByAppend` is needed: an append that claims skips the checks
of the lease, which the code leaves to its callers.

*Due selection.*  What is due is decided on the head, what is selectable on the
evidence of the last revision.  `HeadsShow` relates them: a head shows status,
claim and eligibility of the last revision, whose evidence was validated when it
was built, and `WriteShows` says that every written revision is shown like this.
A revision that follows a call that was not made is the exception the property
names.

*Rate admission.*  The invariant `Inv` is one of locks.  `Exclusive`: a lock has
one holder.  `Steady`: an admission holds its policy row from the reading of the
revocation to the commit, a command the rows of the authority; so what they read
(`NotRevoked`, `HoldsAuthority`) and the decision they are about to commit
(`Written`: it is the decision on the count as it stands) stay true.  Two
transactions that hold their policy rows have different policies
(`PolicyLocked`), which is why a commit does not disturb another transaction;
every other step leaves the rows alone (`QuietSteps`).  A commit then extends the
decisions of one window by the next count (`ProvesNext`).

`Windowed` adds that a decision names the window of its instant and the seconds
to its end.  An instant lies in one window of the grid only (`WindowContains`,
`WindowUnique`), so the admissions of a window are those with that window, and
their counts, different numbers below the limit, bound how many they are
(`LimitIsKept`).  Seconds that are rounded up lead past the end of the window but
less than a second past it (`RetryLands`), because the cap of a day never cuts
them: a window lasts at most that long.

The contract needs two more facts of a transaction at its commit, which no lock
gives it.  The policy it found is still there, as nobody deletes rows
(`Founded`); and no row with its identity is committed (`Unstored`) or pending in
another session (`Unrivalled`): its insert waited for pending rivals and would
have met a committed one, and a later insert waits for it (`InsertIsAlone`).
`Unstored` alone is not inductive, since a rival could commit first.  With them
the commit is `Decide`, `Provide` or `Withdraw` (`CommitIsDecision`,
`CommitIsCommand`): the authority and the revocations by `Steady`, the window by
`Windowed`, and the count because the counts 0, 1, ... of the admitted decisions
number them (`CountIsCardinality`).

*Worker.*  `NoRepeatedCall` and `OutcomeFollowsCall` speak of calls and rows; what
connects them is where each task is.  `Started`: a task between its claim and its
DELIVERING write has the claimed row or has lost it to a *later* version.
`Underway`: from its DELIVERING revision on nobody else moves the row, and its
call is made exactly when revalidation is passed.  Hence no two tasks are
underway for one effect (`OneTaskPerEffect`), and a DELIVERING version is new
when it is written, because calls are for versions that were written
(`CallsWereWritten`).  A step is a task's (`TasksMove`) or a row's (`RowMoves`),
and each case is checked against the invariant once.  The worker's own steps on
the register are compare-and-sets of `EffectDelivery` with the version the task
knows (`TaskImplements`); with `StoreImplementsDelivery` this closes the
composition of worker and store.

*Executions.*  `RuntimeInv` adds to the properties that an open step has an
attempt left, that nothing happens before initialization, and `EndKnown`: the
execution is over exactly when every step is settled, with one terminal event.
`Finishing` shows this for all three transitions that may settle a step,
`Propagated` that the least closed set of dependents is what one pass skips, and
`RunsWithAStep` finds the step that can move by `PlanAssumption` for the set of
unsettled steps.  The driver's `DriverInv` adds `CallsKnown`: a call belongs to
an attempt that was made, and a call of the *current* attempt carries the
current deadline; so an answer that is accepted was in time.

*Runtime API.*  The proof has two halves.  `Promise` is what the contract keeps
(`ContractKeepsPromise`), whatever implements it.  `Exclusive` and `Sound` are
what the row and advisory locks keep true between the statements of one session:
what was resolved is still permitted (`Submitting`), what was flushed still fits
the heads (`Writing`), a change is still the next of its link (`Changing`).  With
that, a commit is one step of the contract (`CommitIsOneStep`), every other
statement none, and no commit disturbs what another session holds
(`OthersStillFit`).  The properties of the rows then follow from the contract.

*AI Office.*  The invariant is local to a request except for the key.
`Progress` says how far rows and results are at each place, `Audits` that only
the call under way is not audited yet, `Books` that rows and answers agree;
`KeysAreHeldOnce`, that a key belongs to one request from its insert on, is
`AgentsRunOncePerKey` made inductive.  A step changes one request (`OneMoves`).

*Knowledge.*  An upload or a sync reads, decides, inserts and commits in
statements of their own, and the rows it has inserted are visible to nobody.
`Sound` collects what it knows at each place: which records are left (`Placed`),
that the ones it has passed are stored or will be with its commit (`Covers`),
that its rows continue the numbers of what is committed (`Continues`), and that a
number it has read may be taken by now but is never too high (`Read`).  Others
commit at any time; what saves a call from them is `Apart`: two transactions
never hold versions of one document, because the insert of the second waits for
the first and then finds its number taken (`Inserts`).  So a commit leaves the
other calls sound, `CursorSafe` follows from `Covers` at the commit, and
`VersionsAccounted` from `Continues` and `Logged`.  Chunking and embedding need
less: `Chunked` says which chunks and citations have been inserted, in their
order, and `Embeds` that a success a call is about to record has its vector in
the store; the vectors are only lost together with the calls (`LoseProcess`), so
a commit finds them (`RecordsFollowVectors`).

`DeadlocksNeedTheRow` follows a waiting call to the one it waits for.  A chunking
call waits for one of the same version that has inserted more, or is not waiting.
Whoever waits for the row waits for a sync that holds it and so waits, if at all,
for a key (`HolderWaits`).  Where no sync that wants the row holds keys, whoever
waits for a key waits for a call that does not want the row: an upload, which has
nothing more to wait for, or a sync that is further on in the feed or with the
same record at a later place (`Rank`), because both read the same feed.  Such
calls that all wait would have one of the greatest rank.

Left to TLC: liveness, for which the provers have no rules (`ShutdownCompletes`,
`EffectsSettle`, `TransactionsEnd`, `ExecutionEnds`, `RequestsEnd`).  Every safety
property of every passing run is proved.

## 5. Plan

1. *(done)* The delivery core: contract, store, register, worker, and rate
   admission; the safety of store, worker and rate admission and the refinement
   of the store proved.
2. *(done)* The execution engine and its driver; the Runtime API with receipts,
   record store, write sets and grants as an implementation of its contract; the
   requests of the AI Office; all proved safe.
3. *(done)* Knowledge ingestion, syncs, chunking and embedding, with their
   safety proved; the limit and the retries of rate admission, due selection,
   the workers as users of the register, and rate admission as an implementation
   of its contract.
4. Next proofs: an abstract specification of the knowledge tables (a version is
   stored with its number and its jobs at one instant) that uploads and syncs
   implement; one of the AI Office.
5. Next models: the review of artifacts (two reviewers of one state), the run
   state of evaluation, the cache and circuit of the connector client.

## 6. Not modelled, and why

Most of the 85,000 lines of `app/` are immutable contracts, their validators,
scorers and serializers.  They keep no state that outlives one request or that
two actors change, and their correctness is that of pure functions that unit
tests reach; a model of them would repeat them.  This is why the modelled lines
are a small share of the source although the code that changes shared state is
largely covered.

- Evaluation runs, the HTTP client of connectors and the request window of the
  middleware have state in one process and one writer; health, audit and
  retention of connectors are single statements.
- The review of an artifact (`services/artifacts.py:112`) is a read and a write
  with one observation, given above.
- The states of `runtime/state` and the audit contracts are tables of allowed
  successors that no code composes with a store.
- Planning, provider resolution, synthesis, parsing, chunking and retrieval are
  computations over the data of one call; their results are inputs here.

Serialization of contracts to JSON is the identity on the modelled facts because
every read deserializes with the same model and compares for equality.  Two
facts of the worker are outside the bounds on purpose: a shutdown observation
that fails for ever makes `run()` spin without waiting, and the set of admitted
tasks has no limit (`runtime_worker.py:263`).
