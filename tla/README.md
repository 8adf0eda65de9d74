# vinctor-core: specification, model checking and proofs

Vinctor decides whether an AI agent may perform an action. Agents hold *grants* (a set
of scopes with an expiry); before acting, the agent itself or a policy enforcement point
(PEP) on its behalf asks the service, which permits or denies and records the decision in
a tamper-evident audit trail. This directory holds TLA+ modules of the parts of
`src/src/vinctor_core`, `src/src/vinctor_service` and `src/src/vinctor_mcp_server` in which something can go wrong
that a unit test would hardly reach, TLC models of them, and TLAPS proofs.

`PROJECT.json` is the index: components, runs, the source lines behind every definition,
the deliberate mutations each property is tested with, findings, hazards and theorems.

## 1. Inventory

### Parts, their state and their operations

| Part | State | Operations | Correct when |
|---|---|---|---|
| Keyed mutations (`idempotency_*`) | results, nonce ledger, key versions with slot counters and barriers; per request a reservation | lookup, reserve, recheck, claim, complete, collect | one key runs one mutation per replay window; an answer is a committed result; no nonce is used twice |
| Key lifecycle (`idempotency_lifecycle*`) | write-disable, drain and retirement times; writer attestation (a file lock) | write-disable, complete drain, retire, start and stop of services with key rings | no writer of a drained version; no replayable result of a removed version |
| SQLite pool (`sqlite_pool*`) | contexts, FIFO of waiters, build-in-flight flag, probes, deferred closes | acquire, return, quarantine, retire, replenish, probe, close | a context is held by one thread; none is lost or leaked; no waiter is forgotten; refusal ends |
| Scopes (`scope.py`) | none | validate, match, subsume | what bounds subsume, bounds permit |
| Enforcement (`enforce.py`, `v1_enforce.py`, `v1_http.py`) | per request what it has read | direct and delegated enforce | dead authority permits nothing; tenants stay apart; mandates are obeyed; decisions are recorded |
| Subject tokens (`subject_tokens.py`) | token rows | mint, revoke, verify | a token is never wider or longer-lived than its grant |
| Proofs of possession (`pop.py`, `SQLiteReplayStore`) | nonce rows with caps | verify, check-and-record | a proof is accepted once |
| Boundaries (`registry.py`) | rows with a status | register, enable, disable, resolve | only an active boundary of the grant's workspace supports a permit |
| Mandates (`agent_enforcement_settings`) | one row per agent and per workspace | set, look up by precedence | agent row, else workspace row, else default |
| Grants, bounds, requests, auto-approval | rows; bounds; rules | issue, revoke, request, approve, reject, auto-approve | no scope outside the bounds; a request is decided once and yields at most one grant |
| Audit trail (`audit*.py`, chain writer in `sqlite.py`, `control_audit.py`) | hash chain, anchors, deferred announcements | append, append best-effort, verify, anchor, read by page | a change and its row commit together; only committed rows leave the database; verification accepts no other history |
| Audit export (`audit_export.py`) | a bounded queue, a sender thread | emit, send, close | never blocks a decision; what was accepted is tried |
| Readiness (`health_checks.py`, `service_runtime.py`) | workers, the current probe, abandoned count, the check's connections | check, time out, abandon, cancel, reclaim | a wedged store is reported within the bound; threads and sessions are limited; readiness comes back |
| PostgreSQL backend (`postgres*.py`, `idempotency_postgres*`) | one serialized connection with a generation; advisory locks | transact, quarantine, replace, recover | an ambiguous commit is never used again; same promises as SQLite |
| Local keys (`keys.py`, `key_ops.py`) | key rows with a status | seed, create, rotate, revoke, resolve and touch | a revoked key stays revoked; every change has its audit row |
| Policy files (`policy_files.py`, `postgres_policy.py`) | versions and the rows they cover | apply, roll back, export | rollback restores what was applied |
| Storage operations (`storage_ops.py`) | main file, write-ahead log, lease, backup | back up, reset, restore | the database is always the old one or the new one |
| HTTP edge (`local_http.py`, `*_http.py`, `ratelimit.py`, `oidc.py`) | limiter windows, failure windows | limit, route, authenticate, key, answer | nobody acts without the right; a 429 is earned; failures are counted |
| MCP server (`vinctor_mcp_server`) | none of its own | reports: an object with its whole audit history | no event missing, repeated or of another database |
| In-memory service, CLI, launchers, demos | none shared | parse, print, start | outside the scope of this project |

### How they interact

An HTTP thread passes the rate limiter, leases a context (one SQLite connection and the services over it) from the
pool, authenticates the caller (a local key or an OIDC token), and runs one handler. A control-plane handler does its
work and its audit event in one `BEGIN IMMEDIATE` transaction; with an
`Idempotency-Key` it goes through the keyed-mutation protocol, which is four
transactions. An enforcement is *no* transaction: it reads the grant, up to three
mandates of two rows each, the token, the replay store and the boundary one after the
other, then writes its audit event. Several service processes may share the database file.
Readiness workers borrow pool contexts, and a wedged worker is replaced while its statement still
runs. An operator rotates idempotency keys and local keys against running services, and commands replace the database file under
an exclusive lease. A committed audit row is announced to the anchor file and to the exporter after the commit of the outermost
transaction. The MCP server is a client of the HTTP service and reads its audit log page by page.

### What is hard

Other requests' writes between the reads of one; commits whose outcome is unknown; crashes
between the transactions of a protocol; retries of what was already done; clock readings
that reach the database out of order; expiry and collection against replay; a key
version removed under a running writer; a pool rebuilt, probed and closed at once; FIFO
wake-ups; a cancel that reaches the next statement; a power loss between two file operations; credentials that are rotated between two
look-ups of one request. `PROJECT.json` lists each at its line (`hazards`), with the properties that
would catch it.

## 2. Modules

| Module | Models | Proofs |
|---|---|---|
| `KeyedMutations` | the promise of a keyed mutation, in one step | |
| `Idempotency` | the SQLite protocol, key lifecycle and services that implement it | `IdempotencyProofs` |
| `PostgresIdempotency` | the same on PostgreSQL, with one connection per process, advisory locks and orphaned commits | `PostgresIdempotencyProofs` |
| `SQLitePool` | the pool, its admission queue, probes and shutdown | `SQLitePoolProofs` |
| `Readiness` | `BoundedBackendProbe` over `PostgresReadinessProbe` and the serving connection | `ServingProofs` |
| `Scope` | the scope algebra | `EnforcementProofs` |
| `PopReplay` | the replay store of proofs of possession | `StoresProofs` |
| `Enforcement` | the decision path and minting under a changing control plane; extends `Scope` | `EnforcementProofs` |
| `GrantLifecycle` | requests, approval, auto-approval and issuance under changing bounds and rules; extends `Scope` | `GrantLifecycleProofs` |
| `Policy` | policy documents, versions, rollback, export and direct changes, on either backend | `StoresProofs` |
| `AuditChain` | row hashes, links and what verification accepts | `AuditProofs` |
| `AuditTrail` | connections that write the chain, control changes and local keys; extends `AuditChain` | `AuditProofs` |
| `StorageOps` | backup, reset and restore, crashes and power loss; extends `AuditTrail` | `AuditProofs` |
| `RequestLimits` | the rate limiter and the throttle of authentication failures | `ServingProofs` |
| `Gateway` | HTTP handler threads: routes, authentication, keyed requests; extends `RequestLimits` | `ServingProofs` |
| `AuditReports` | paginated audit reading and the MCP reports built on it | `AuditProofs` |
| `AuditExport` | the OTLP export queue | `AuditProofs` |

An `MC…` module instantiates each for TLC. Where components share no state, one run checks several of them: a variable that never changes
(`kind` or `part`) says which one a behaviour is about. Definitions marked as a *variant* or a *plausible slip* are bugs the code does
not have, used only to test that a property can fail.

### Idempotency
A service is `[on, ring]` plus the stage of its request. `Lookup`, `Reserve`, `Recheck`
and `Complete` are the transactions of `SQLiteIdempotentMutationExecutor.execute`,
`reserve_nonce` and `claim_and_complete_sqlite_result`; each may commit and lose its
acknowledgement, which `Quarantine`s the service's connection and answers 503. `Claim`
and `RunMutation` are the two halves of the completing transaction. A service that finds its version full, or a nonce used,
write-disables the version itself (`WriteDisableOwn`); the commit of that is as ambiguous as any other and quarantines the connection. Rows are `Effect`s (key, fingerprint,
version, nonce, expiry); ciphertext is abstracted to who can read it. `WriteDisable`, `CompleteDrain` and `Retire`
are the operator's; `NoWriters` is the exclusive attestation lock. `performed` and `encrypted` are
histories used by properties. `KeyedMutations` says: a key runs a mutation when no result is
live, otherwise replays it or refuses.

### SQLitePool
One step per critical section of the pool's re-entrant lock, which the admission
condition shares, or per piece of I/O outside it. Generations and epochs
are only compared for equality in the code, so a context is a reusable name and "epoch
passed" is a set of waiters; the state space is finite without a bound. Assumed: closing a service or a connection does not raise
(`Dispose`, `CloseConnection`). It releases a file lock and closes descriptors with no statement under way; if it did, the rest of
the sequence would be skipped, which nothing in the pool makes up for.

### Scope
A resource is a sequence of segments; the code's string operations are stated by what they do to
segments, and a segment is known by what validation makes of it: `Plain`, the wildcard, `Illegal`, or `Odd`, with a character outside
the alphabet. The code accepts a path with a terminal wildcard before it looks at the alphabet, so an odd segment is refused in a request and
in a scope without a wildcard, and allowed before one: such a scope is valid and permits nothing. A wildcard is valid in the last
position only and matches strictly below its prefix.

### PopReplay
A request has a clock reading of its own, taken at arrival. `check_and_record` is the whole
transaction: purge by that reading's cutoff, look for the row, check both caps, insert.
The MAC is abstracted to "valid". `newest` is the newest reading the store has seen.

### Enforcement
`Begin` … `Respond` follow the two contracts in `v1_enforce.py` read by read; any read may fail
(503). The audit event is written (`Record`), then the answer is sent (`Respond`). The write may fail, or commit and be reported as failed; either is a 503. The
answer may never arrive. `trail` is what the log has of each request. The two statements of a mandate lookup are two steps (`partial` holds the first).
Control-plane operations are single steps. `since` is a history of what has been
true at every moment of the request: which mandates the same row kept in force, and which grants, tokens and boundaries could support nothing.
Expiry is `exp <= now`.

### GrantLifecycle
A decider (thread) runs one transaction at a time, statement by statement as on PostgreSQL: `Lock`
is the advisory lock on a hash of the request id (two ids may share a key), `Read` the look-up with the
workspace and status checks, `Evaluate` the rules, `Claim` the conditional `UPDATE` of `decide_request`, `Issue` the
read of the bounds row with its checks, `Commit` the end. An automatic approval reads twice, as the code does: once for the
rules and again inside `approve_grant_request`. `Fail` is an error in any statement or a lost answer to the commit, after
which the transaction may or may not have happened. A direct issue takes no lock. What the transaction has
written stays in `txn` until it commits, since nobody else sees it. On SQLite the whole transaction excludes other
writers, so its behaviours are among these. `seen` is a history of the bounds rows and rules in force while each transaction
ran.

### Policy
One workspace. An apply and a rollback are one transaction each, in six statements and a commit; `txn` holds the rows written so
far, `Over` what the transaction itself reads. `MayWrite` is where the backends differ: on SQLite a
direct change waits for the transaction, on PostgreSQL only for a row it has written. `backend` is chosen in `Init` and never
changes. Mandate
settings have a value and a presence bit in the code: `"unset"`, `"on"`, `"off"` here. A cap in a document is a value, `Null`
(clear it) or `Absent` (leave it). `disable_auto_approval_rule` and `export_policy_document` are several
transactions, and so several steps.

### PostgresIdempotency
A process has one connection, whose lock a thread holds for a transaction. `Break` loses the session; a commit whose
acknowledgement is lost makes the transaction an *orphan*, which keeps its locks until `ServerResolves` it either way, while the process has
already replaced the connection (`Replace`) and answered 503. A process shuts down in two halves: `Release` gives up its attestation (`registered`), `Stop`
closes the connection; handler threads are daemons and go on in between, on the connection or on a replacement that attests nothing. A process that
dies takes the second half at once. An orphaned completion knows whether its session held the attestation (`lock`). The two reasons for which a service disables
its own version are one, an answer is known by the effect it reports, and a connection that is broken or quarantined is `"none"`. `LockKey` … `Commit` are the statements of the completing
transaction, where another session can be seen; reserving, claiming and disabling are one step each, since the row lock hides their inside.
The operator's `Begin`, `Apply` and `Recover` are a command, its transaction, and the look at the outcome over a second connection
after an ambiguous commit.

### Readiness
`Call…` are the ways through `BoundedBackendProbe.__call__`, one per branch of its critical section. `Park` … `Exit` are the
worker: wait, wake, connect, query, check in, check the serving connection, report. `Reclaim` collects the calls past
the bound and `Deliver` is the arrival of one cancel. `up` is the store; `Outage` and `StoreReturns` change it at will.
A worker or a reclaimer that cannot be started leaves the old worker abandoned and counted, and the old probe in place, for those who wait for it. A call may be
cancelled as long as it holds its connection, while that is being checked in too. Assumed of the environment: a delivered cancel ends its statement; while the store is up an unwedged worker does not miss the deadline;
threads fail to start only while the store is down. A caller whose probe is
replaced keeps its outcome: what a finished probe reported, and FALSE when the deadline passed.

### AuditTrail, AuditChain and StorageOps
A hash is the list of everything hashed into it: SHA-256 without collisions. A connection runs one unit of work at a time (`write`,
best-effort `reject`, `rotate`, `revoke`, `create`, `composite`, `resolve`); `work` is what its transaction would commit, `scope` the
deferral scope, `due` what it must announce before it goes on. Any announcement may fail (anchoring and export are fail-open). The database is a
main file and a log, and the log belongs to whatever main file it stands beside when that is opened; `PowerLoss` undoes any removal
or rename that no directory sync has made durable. `Tamper` changes rows behind the writers' back, to give verification something to find.
Assumed: SQLite syncs the directory when it first syncs a log it has created; `_fsync_dir` takes effect. `migrate_sqlite` is
an `Open` and a `Close`. The connections over which a command reads the chain head and copies the database take no lease; when such a connection is the
last to close, it moves the log into the main file (`UnleasedConnectionCloses`). One storage command runs at a time: two of them, of which one
reads without a lease what the other replaces, are not modelled. Failure of discarding a best-effort savepoint is not modelled.

### Gateway and RequestLimits
A request is a route, credentials, a shape (method and path right or not), a body (readable and valid or not), an idempotency key and an origin. A route is a
record: whose credentials count, where failures are recorded, whether the method is looked at before the body, and what the service call can answer,
with whether it acted. `Gate`, `EnterHandler`, `ResolveScope`, `Authenticate`, `CountFailure`, `WriteFailureEvent`, `Work`,
`Replay` and `Execute` are the stations of a thread; `RotateKey` and `RevokeKey` come from other processes in between. A lost backend
may have committed what it was asked to (`LostOutcomes`). Whatever goes wrong in the limiter lets the request pass (`FailOpen`). A bearer token is verified with keys fetched from the
issuer, which may fail each time anew (`jwks`), so two look-ups of one request may differ. A stored answer is replayed for `Retention`; one that holds a token,
no longer than the token lives (`Expiries`). `effects` is the history of everything a keyed request changed: under its key, or without it when nobody was found to scope the key to
and the plain handler found the caller after all. A failure event is written on a best-effort basis: a write that fails is swallowed,
and what it carried is counted as lost. The clock is read before the limiter's or the throttle's lock is taken, as in the code. The
idempotency store is one step here: that it may be is what `Idempotency` shows.

### AuditReports
One grant request, its grant and one boundary, with their writers; each page is one step. The client's checks
(`Malformed`, `InSequence`, `Disagree`) are those of `_complete_audit_events` and `_merge_audit_event_streams`. What the code sorts by sequence
number is stated by rank (`InOrder`): the k-th event is the one with k - 1 smaller ones. A backup may replace the database between any two
requests.

### AuditExport
`Emit` under the state lock, `CloseExport`, `PutStop` and `CloseReturns` as the stages of `close()`, and the sender thread. An
event that finds the queue full or the exporter closed is dropped with a line on stderr.

## 3. What is checked

| Run | Bounds | Shows |
|---|---|---|
| `idem` | 2 services, 1 key, 2 bodies, 2 versions, 2 nonces, limit 2, time 0..2; retries on one version, or a rotation with equal bodies, requests in the first second and one nonce value | `AtMostOnce`, `ReplyIsCommitted`, `ReservationsAreSound`, `RotationStrandsNothing`; the protocol refines `KeyedMutations` |
| `pg_idem` | 2 processes with a thread each, 1 key, 2 versions (old active, the operator's ring has the new one), 2 nonces, time 0..1, one process closing at a time | `PgPromiseHolds` (at most one effect per replay window, answers are committed), `NoWriteAfterDrain`, `OperatorIsToldTheTruth` |
| `pool` | 2 callers, 2 probes, 2 contexts, 6 names | no context shared, lost, leaked or closed under a probe; no lost wake-up; refusal ends; shutdown completes |
| `readiness` | 1 caller, 1 abandoned worker, 3 workers, 4 connections, requests keep coming; or 2 callers that share probes, none abandoned | threads and sessions are bounded and owned once; a cancel hits the call it was meant for; a ready answer is about the current probe; readiness returns |
| `readiness_latch` | the same without requests | violated: see finding 1 |
| `enforce` | 2 workspaces, 2 agents, 3 PEPs, 2 boundaries, 1 grant, 1 token, time 0..3; authority changes, or mandates change at one moment | `PermitsAreSound` (dead authority permits nothing, tenants stay apart, tokens stay within their grant), `DecisionsAreRecorded`, `SteadyMandatesAreObeyed` |
| `grants` | 2 deciders, 2 transactions, 1 request, 3 asks (no lifetime, too long, wide), 2 bounds rows, 1 rule, 2 changes | `DecisionsAgree` (requests, grants and answers), `IssuedWithinBounds`, `AutoApprovalNeedsRule`, `DecisionsEnd` |
| `stores` | replay store: 2 requests, 2 tokens, 2 nonces, window 1, caps 2 and 1, time 0..2; policy: both backends, 1 agent and its workspace, 1 rule, 3 documents, 2 versions, 2 direct changes | a fresh proof is single-use; no rollback exempts anybody; snapshots agree, rollbacks and re-applied exports are exact (SQLite); no cap is cleared and no rule revived by accident |
| `pop_reorder` | 2 requests, 1 token | violated: see finding 2 |
| `policy_mandates` | as in `stores`, SQLite | violated: see finding 3 |
| `storage` | 1 service and 1 command connection, 2 keys, 2 rows, 2 storage operations or tamperings, 1 power loss | `OnlyCommittedRowsLeave`, `ControlChangesAreAudited`, `VerifiedHistoryIsAnchored`, `DatabaseIsWhole`, `RevocationSticks` |
| `serving` | gateway: 2 threads, 7 keys with 2 successors, 4 tokens, 19 routes, 7 mixes of requests with up to 4 arrivals and 3 clock ticks, limit 1 in a window of 2, 2 sources, answers kept for 1; reports: pages of 2, 6 events, 1 restore; export: queue, batch and attempts of 2, 4 events | `RefusalsAreEarned`, `FailuresAreCounted`, `ActionsAreAuthorized`, `KeyedActionsHappenOnce`, `ReportsAreExact`, `HonestWalksSucceed`, `AcceptedIsTried` |

Why the bounds suffice for the cases aimed at: two requests are the smallest race, and
requests share no state but the tables; two versions are one rotation; a hard limit of two lets both
the last slot be contended and a first reservation be burned; two callers and two probes over two contexts queue behind a full
pool and let a probe overlap its replacement; a window of one and three clock values give readings before, at and
after the edge. `enforce` has one request in flight: requests change none of the rows it reads
except by minting, and the operator's steps are unrestricted between its reads. It leaves the token mandate out: it is looked up like the other two and
asks for less than the proof mandate. In `grants` the two bounds rows are such that only a mixture of both (the scopes of one, the cap of the other) would pass
one of the asks. In `Policy` two versions are a change and its rollback; the direct change between and the one inside the transaction are the two writes.
In `readiness` one abandoned worker, its replacement and the one after it are every role a worker can have;
a second caller, which only joins a probe or replaces it, is left out of the behaviours with abandoned workers, where it would triple them. In `storage` two operations are
a backup and the restore of it, with any connection's unit of work around and between them. In `serving` the mixes put together
requests that meet in some piece of state (a limiter source, a failure window, an idempotency scope); every
other request is alone in its behaviour with the rotations. Keyed requests have two clock values and an answer kept for one, so that a retry comes in time or too late; `MaxRequests`
of one leaves counting up to a higher limit to the proof. In `pg_idem` one process at a time is between the halves of its shutdown (`MaxClosing`), while the other writes. Pages of two and six events give walks of up to three pages. Handler threads are interchangeable, and so
are services, processes with their threads, nonces and tokens where the configurations say so.

### Fairness
`SQLitePool!FairSpec`, `GrantLifecycle!Spec` and both specifications of `Readiness` state fairness. In the pool, a thread inside the pool keeps running (weak fairness per
thread step): critical sections do no I/O, a statement ends by its busy timeout or is interrupted, and a
lease wait has a deadline. A rebuild that is attempted again and again succeeds eventually (strong
fairness of `BuildSucceeds`), since it fails only while the file cannot be opened. Requests keep arriving, since a
pool without requests replaces nothing until one comes. A probe's statement ends. Nothing is
assumed about quarantine, timeouts or shutdown happening.

In `GrantLifecycle` a decider goes on with its statements (weak fairness of `Decide`): a statement ends or fails, by the
connection's timeouts. A lock that is free again and again is given to each waiter in the end (strong
fairness of `Lock`), as PostgreSQL queues them. Failures are never required. `MaxBegun` bounds the transactions, so
nobody depends on others stopping for good: the lock is released by each of them.

In `Readiness` callers, workers, the reclaimer and the delivery of cancels go on (weak fairness), deadlines pass, and a request that holds the serving
connection ends while the store is up, by the statement timeout. `CheckServing` is strongly fair: it competes with requests for the connection's
lock, which Python threads are granted in no order but not withheld for ever. That requests arrive (`WF(Request)`) is assumed
only in `TrafficSpec`; the property is about a store that stays up from some moment on.

## 4. What is proved

For every value of the constants allowed by the assumptions.

* **IdempotencyProofs**, from `IdempotencyAssumption` (a TTL and a limit of at least one, a
  removal window not shorter than the longest TTL, key rings with their active version). Type correctness; `AtMostOnce`;
  `ReplyIsCommitted`; `ReservationsAreSound` (from `NonceUsedOnce` and `SlotsMatchLedger`); `RotationStrandsNothing` (from
  `RetirementIsSafe` and `DrainedHasNoWriters`); and that every step of the protocol is a step or
  a stutter of `KeyedMutations` (`ImplementsPromise`). None is inductive
  alone. The invariant ties the stored row to the newest run of its key, each reservation to a ledger row of
  the same owner and version, the ledger to the counter, barriers to each other in order, and live services to the versions
  they may write. `AtMostOnce` then follows because a mutation runs only in the transaction that has
  just found no live row.
* **EnforcementProofs**, first the scopes, from the assumption that the wildcard is no ordinary segment. Subsumption is sound (a request permitted
  by the narrow scope is permitted by the broad one), complete (a scope that permits something, and nothing its bound does not, is accepted), transitive and antisymmetric; hence
  `BoundsCapEnforcement`: a grant within its bounds permits nothing the bounds do not. Then the decision path, from `EnforcementAssumption`
  (well-formed calls and issues; `None` is no row; grants, tokens and boundaries are named apart, since one history
  variable holds the dead ones of all three): type correctness, `PermitsAreSound`, `SteadyMandatesAreObeyed` and
  `DecisionsAreRecorded`. The first two say nothing of a request half way, so the invariant has `Sound`: what each stage of a request stands
  for. A row is written once and afterwards only dies, so what was read goes stale in one direction only: a row read alive was alive when the
  request arrived. For mandates, a row that keeps one on throughout is found at whichever of the two statements reads it. For
  `DecisionsAreRecorded` it says what the trail has of a request at each stage: nothing before the write, the verdict between the write and the answer.
* **StoresProofs**, the replay store: its state is well formed; a row fresh for the newest reading is never dropped; a proof fresh for the newest reading is
  accepted once. The invariant is that every accepted proof that is still fresh for the newest reading has its row.
  Policy, from `PolicyAssumption` (well-formed documents, the workspace is no agent, the marks for an absent and a null cap are no caps):
  `RoundTripsAreExact`, `SnapshotsAgree`, `RollbackNeverExempts` and `ChangesAreDeliberate`. The invariant follows the open transaction
  statement by statement (`BoundsReady`, `RulesReady`, `SettingsReady`, `SnapshotReady`): what it has written stands to the committed rows as it did
  when it was written, since on PostgreSQL nobody else writes those rows and on SQLite nobody writes any. Of a restored settings row it says that
  the other mandates are kept or, when none of them is on, cleared (`Softened`), which is all that `RollbackNeverExempts` needs. Exports never hold a
  null cap (`ClearsNoCap`).
* **GrantLifecycleProofs**, from `GrantsAssumption` (well-formed asks, bounds and rules, a positive default lifetime, `None` distinct from all of
  them); nothing is assumed of the hash. Type correctness; `DecidedOnce`; `GrantsMatchRequests` and `RepliesAreTrue`, together `DecisionsAgree`;
  `IssuedWithinBounds`; `AutoApprovalNeedsRule`. The invariant has three parts. `AllSound` says what each stage stands for: from its
  first read a transaction holds the lock of its request, and what it has read of a pending request is
  still so, because only a holder of the lock decides (`Undisturbed`). `RefsAreFresh` says that no grant and no answer bears the reference
  of a transaction under way, so that grants can be told apart. `AllWitnessed` says that the row that covers a grant about to
  be written, and the rule that allowed its request, were in force while the transaction ran.

* **SQLitePoolProofs**, from `PoolAssumption` (a positive size, at least as many names for contexts). `ContextsAreAccountedFor`
  and `NoWakeupIsLost`. The invariant says where a name may be: what a thread has in its hands follows from its program counter (`HandsOf`),
  what it builds is nowhere else (`BuiltApart`), what is in the pool is open, healthy and not to be closed (`PoolIsSound`, `Apart`), and
  what `close()` left to a probe is still with that probe (`Kept`, `Borrowed`). The wake-ups need only that a waiter is in the queue (`WaitersQueue`)
  and that every step either notifies all or takes nothing away from a sleeper's reasons to sleep.
* **PostgresIdempotencyProofs**, from `PgAssumption` (as for SQLite; the hard limit may be zero). Type correctness; `PgPromiseHolds`;
  `OperatorIsToldTheTruth`; and the action property `NoWriteAfterDrain`. Two locks carry the invariant. A key is locked by one completion at a
  time, an orphaned one included, so what a completion found under the lock still holds when its commit takes effect,
  however late. A drained or retired version has no shared holder and gets none, so nothing that may still be committed was written
  with it. What the recovery of a lost command reads is what that command or nobody did.
  A closing process breaks the second argument: it may complete without the attestation. A second layer of the invariant (`Punctuality`) says that what is yet to commit
  was evaluated before the drain of its version, if there was one, so that the removal window, which starts at the drain and is no shorter than the longest TTL, outlasts its result: when the version is retired, what may still come of it has expired.
* **AuditProofs**. The trail and its files, from `TrailAssumption` (service connections are connections, seeding creates a known key) and
  `StorageAssumption` (bounds are numbers): type correctness, `OnlyCommittedRowsLeave`, `ControlChangesAreAudited`, `VerifiedHistoryIsAnchored`,
  `DatabaseIsWhole` and the action property `RevocationSticks`. No action sees all the invariant relates. `LeaseHolds` says who may
  have the file open while a replacement is under way, `LogsBelong` which main file a log stands beside, now and in any directory a power loss may
  bring back, `FilesBalance` that each copy of the database, files and backup alike, has one control row for every control operation, and `ConnSound` what an open
  transaction has written, holds back until its commit and still lacks. That verification accepts no other history is an argument about chains of
  any length: in linked rows every hash tells the rows up to it (`HashTellsStory`), since of the rows whose hash does not there would be a first, and the
  one before it has the right hash. That there is a first (`LeastNumber`) is the library's well-founded minimum, which serves where an induction would be needed.
  The exporter, from `ExportAssumption`: `AcceptedIsTried`, by an invariant that says that the stop marker is the last element there will
  ever be and that what was accepted is tried, in the batch or in the queue.
  The reports, from `ReportsAssumption` (a page holds at least one event): `ReportsAreExact` and `HonestWalksSucceed`. `LogsInv` says that the log and its
  backup `Agree`: an event they share is at one place in both, with the same history before it, since ids are never given out again. `CallInv` says that a
  walk under way has a past (`WalkedTo`): the log its first page was read from, of which it has shown exactly the chosen events
  down to its cursor. Whatever has been appended or restored, a log that knows the snapshot cursor agrees with that past up to it, so the next page
  continues where the last one stopped. What a sorted, limited query returns follows from counting: ranks of distinct numbers fill an
  interval (`RanksAreTaken`), so a page is all there is or exactly as many of the newest as fit (`PageOfRows`), and two sequences that show the same places are equal (`ShowsOnce`).
* **ServingProofs**. The gateway, from `GatewayAssumption` (a key succeeds at most one key; finitely many threads):
  `KeyedActionsHappenOnce`, since the newest stored effect of an intent has its answer in the store, under the scope of that intent, as long as it is kept, and since a key that was active on
  arrival and is not found for the scope has been revoked, for good, and is not found again by the plain handler; and `ActionsAreAuthorized`, for any
  keys, tokens and mixes of requests, from what a caller already resolved is entitled to (`Fits`), from the keys barred on arrival
  being revoked for good (`BarredAreRevoked`), and from a successor not being issued before its predecessor ends (`SuccessorsWait`).
  With `LimitsAssumption` (positive limits and windows), `SendersAssumption` (who sends a request is the peer, or the client a trusted proxy names) and `SurfacesAssumption` (failures are counted
  on known surfaces): `RefusalsAreEarned`, because a window counts no more than was let pass since it started (`LimiterInv`) and requests of one source have one
  sender; and `FailuresAreCounted`, because what the log says of a surface, what it lost, the open window and what threads still owe it add up to its failures after every step
  (`FailuresBalance`). Sums over histories and over threads are cardinalities of sets of units (`Units`), for which the library has theorems.
  Readiness, from `ReadinessAssumption` (finitely many names for threads and connections, more of each than may be abandoned, so that a name
  is free when the code makes one): type correctness; `SessionsAreAccountedFor`; `CancelsHitTheirCall`; `ReadyIsFresh`. The
  count of abandoned workers is compared with a limit, yet is adjusted by three different threads: `Crew` says that a live worker is either the
  current one or counted, once; `Owners` that a connection is in one call or parked; `Bounded` puts both into cardinalities. `Cancels` says that a
  call whose connection a cancel was sent against knows it (`attempted`) until it gives the connection up. `Fresh` says which worker may still
  finish the current probe, and that there is at most one (`Sole`): the one on record, unless it was abandoned and its replacement could not be started; and that somebody was waiting when the store answered it.

Safety theorems of components with fairness are stated for the
specification without it, which the fair one implies.

Every invariant a passing run checks is stated by a theorem. Only model-checked: the liveness properties, with the fairness they need, since neither
it nor ENABLED is in the prover's reach (`DecisionsEnd`, the ends of refusal and shutdown of the pool, the return of readiness).

## 5. Findings

1. *Readiness of a drained instance can stay down.* `docs/deployment/postgres.md:87` says that the readiness probe "is what reconnects a serving
   connection whose backend died", since a drained instance gets no requests. The check returns FALSE at once when that connection is quarantined and
   never touches it, so without requests `/readyz` stays 503 although the store is back (`readiness_latch`). With requests it recovers (`readiness`).
2. *A replayed proof may be accepted.* The purge uses the clock reading of the request that purges; a delayed request with an older reading then
   finds its nonce gone (`pop_reorder`). What does hold is `FreshProofsAreSingleUse`.
3. *A rollback can drop an exemption.* `docs/decisions/0013-versioned-policy-rollback.md:22` says that the token and proof mandates
   remain unchanged. A row whose mandates are explicitly off is deleted, presence bits and
   all, so the workspace's mandate applies again (`policy_mandates`). It never loosens: `RollbackNeverExempts`.

More that a reader of the code should know; the properties state what does hold:

* A 409 may have reserved: `docs/api-contract.md:91` says that a conflict makes no new reservation, but the executor reserves between its two
  look-ups (`idempotency_sqlite_executor.py:41`), so a conflict found by the second one has consumed a slot.
* "audit write failed; no decision was recorded" (`v1_enforce.py:476`) need not be so: the write may have committed and only its acknowledgement be lost. The trail then
  holds a decision nobody was told of. `DecisionsAreRecorded` is about what was told.
* A keyed request may act without its key. When nobody is found to scope the key to, the plain handler resolves the caller once more
  (`local_http.py:873-876`, and likewise for the other keyed routes); a bearer token whose signing key could not be fetched the first time, or a key issued in between, is
  then found, and the mutation runs outside the store, to run again when it is repeated. `docs/api-contract.md` says of the header: "Supplying it opts into fail-closed encrypted replay".
  `KeyedActionsHappenOnce` holds of stored effects, and rules this out for local keys that were active on arrival.
* A failure event that cannot be written is gone, and with a summary all the failures it counted (`audit.py:46-60`). A restart forgets the open windows, too, as
  `docs/decisions/0008` says; the model has no restart of the throttle. `FailuresAreCounted` says that nothing else is missing.
* On PostgreSQL a process gives up its attestation before it closes its connection, while its handlers, daemon threads, go on: a result may be written under a version that has been drained
  meanwhile. It was evaluated before the drain and so expires within the removal window: nothing of a retired version is ever replayable, but its expired row may stay behind, and a
  service that starts without the retired key does not become ready until the row is collected.
* A mandate is looked up in two statements, agent row first. One that moves from the workspace's row to the agent's between them is missed,
  hence "kept on by one row" in `SteadyMandatesAreObeyed`.
* An export reads scopes and caps in two statements and may pair those of different rows. Applied again it still
  clears no cap (`ChangesAreDeliberate`).
* On PostgreSQL direct changes take no apply lock, so a version may differ from the live policy from the start, and a rollback from its
  source. `SnapshotsAgree` and the exactness of a rollback are about SQLite.
* On PostgreSQL a schema migration takes the exclusive guards of all versions while a service that replaces its connection takes shared ones:
  the order may be inverted and is left to the server's deadlock detector.
* The connections over which a storage command reads take no lease, so it is SQLite's own locks, and an operator who runs one command at a time, that keep them apart from a replacement.
* A storage operation reads the chain head it announces before it has the lease: rows committed in between, whose own anchor also failed, go untraced.
* A merged report whose two walks straddle a restore may mix two histories unnoticed when no sequence number collides; `TimelineCoversObject`
  is about reports without a restore.
* The limiter and the throttle use clock values read before their lock. A value that comes late can be counted in a window that opened after it was read;
  `RefusalsAreEarned` allows for that.
* A command with an OTLP exporter configured never closes it; what its queue holds is lost when the command ends.
* An exception other than an unavailable pool or connection leaves a handler thread without an answer, and handler threads are daemons that shutdown
  does not join.

## 6. Not modelled

Left out: cryptography and serialisation (who can read a row, and what a hash covers, is modelled); response bodies, metrics and the access log; the in-memory reference
service and the CLI, which call the operations modelled here; inference of policies from observations, a pure function; launchers, demos and deployment
files. The PostgreSQL repositories other than those of keyed mutations, decisions and policy repeat the SQLite statements and are covered by the SQLite models as far as
statements behave alike.
