# Formal models of ai-backend-foundation

TLA+ models of the parts of this backend that keep state under concurrency and
failure, checked with TLC and, for the core, proved with TLAPS. Every definition
is translated from the code; `PROJECT.json` names the lines each one stands for,
lists the hazards of the code that are hard to test, and pairs every checked
property with a mutant of a definition that breaks it.

## The system

One FastAPI process with an asyncio event loop, PostgreSQL and Redis. Nothing
runs in threads: concurrency is that of requests interleaving at `await`, of
several processes sharing the two databases, and of the environment (crashes,
lost responses, clocks, dependencies that stop answering).

| Component (code) | State it keeps | Operations | What is hard |
|---|---|---|---|
| Refresh-token table (`app/auth/persistence.py`, migration 0002) | rows of `refresh_tokens`: user, family, expiry, `revoked_at`, `replaced_by`; a unique index on a family's unreplaced row; a deferred foreign key | grant, rotate, revoke one, revoke a family | a family must stay one chain whatever commits |
| Sessions (`app/auth/service.py`, `deps.py`, `api.py`) | one `AsyncSession` and its locals per request | login, refresh (rotation, reuse detection), logout | several SQL statements per request under READ COMMITTED; records used after later awaits; rollback half-way; a response lost after the commit |
| Accounts, access tokens, profiles (`app/auth/service.py`, `deps.py`, `app/users`) | `users`, `user_profiles`, signed access tokens | register, issue, `get_current_user`, `GET /users/me` | SELECT-then-INSERT races, claims that are older than the row, a flush nobody commits |
| Rate limiter (`app/infrastructure/rate_limit/redis.py`) | one Redis hash per key with a time to live | `allow` (one Lua script) | lazy refill against expiry and a clock that steps back |
| Idempotency store (`app/infrastructure/idempotency/redis.py`) | one Redis string per key with a time to live | `begin`, `get`, `complete` | the key lapses between commands, or during the run it protects |
| Process life cycle (`app/core/lifespan.py`, `wiring/`) | container, probe registry, `app.state.ready` | startup hooks, shutdown | a hook, or one of two awaits of shutdown, raises |
| Health (`app/observability/health.py`) | none but the registry | `/livez`, `/healthz`, `/readyz` | concurrent probes with a timeout, during startup and shutdown |
| Request pipeline (`app/observability`, `app/api`) | request id in a context variable and in `request.state` | middlewares and exception handlers | the 500 handler runs outside the other middlewares |
| Outbound HTTP (`app/infrastructure/http/client.py`) | per call its attempt; what the server has carried out | `request_json` with retries | a request that timed out may have been executed, or be executed later |
| Blob storage (`app/infrastructure/storage/local.py`) | files and directories under `base_path`, the files streams have open | `put`, `get` (a lazy stream), `delete` | a stream that is read while the blob changes, writes cut short, names that lie on top of each other |
| Redis cache, hashing, signing, settings, logging, metrics, tracing, pagination, migrations, task-queue port | — | — | no decision that depends on an order of events |

How they interact: the life cycle fills the container and registers the probes
that Health runs; the API handlers open one database session each and call the
services; the services of auth and users share the tables `users`; rate limiter,
idempotency store and cache share a Redis client but no keys. Refresh and access
tokens are issued together, but no decision about one reads the other, which is
why they are two models.

What makes each part correct: a refresh token buys at most one successor, a
family of tokens is a chain with one live end that revocation reaches and
nothing revives, a disabled user gets nothing new; an email has one account and
a 201 means it is there; a key is granted no more than a burst plus its refill,
and no less than its quota; a request is processed once while its key lives, and
keys always lapse; ready means wired, and a 200 of `/readyz` was true; a POST
takes effect at most once, and what a call reports is so; who was given a
`BlobRef` finds the whole blob, and an undisturbed stream yields what `get` found.

## Modules

| Module | Models | State and actions |
|---|---|---|
| `TokenFamilies` | what the table promises: the abstract specification | `tokens`; `Grant`, `Rotate`, `Revoke`, each one committed transaction |
| `AuthService` | login, refresh and logout by concurrent requests; implements `TokenFamilies` | committed `tokens`, uncommitted `writes[s]`, and per request `pc` (the awaited statement) and its locals; one action per awaited statement with the code up to the next one; `Abort` anywhere; `Tick`; `DisableUser` |
| `AuthServiceInvariant` | the inductive invariant of `AuthService` | |
| `UserAccounts` | register, access tokens, `/users/me` | committed `users` and `profiles`, tokens signed, `pc` per request; statements as above |
| `TokenBucket` | what the limiter promises: the abstract specification | `level` of each key's bucket, the last `decision`; `Pass` of time, `Allow`, and `SetBack` of the clock; nothing is stored, computed late or expired |
| `RateLimiter` | the Lua token bucket; implements `TokenBucket` | `bucket[k]`, Redis' `clock`, real `uptime`; `Allow` is the whole script, `Expire` Redis' expiry, `StepBack` the clock set back |
| `IdempotencyStore` | the keys and the callers the port is made for | `entry[k]`, `ttl[k]`, per caller `pc` and `age`; one action per Redis command, so `begin` is two when the key exists |
| `Lifespan` | startup and shutdown | `phase`, `ready`, what is wired; startup is one step because its hooks never wait, each await of shutdown is a step |
| `Health` | `/healthz` and `/readyz`, composed with `Lifespan` | per request the probes it waits for; dependencies stop and resume at any moment |
| `RequestPipeline` | the middlewares and the exception handlers | per request the direction and depth of its way through the stack, its two copies of the request id, its response, its log lines; one action per middleware and direction, one per way a handler ends |
| `HttpClient` | `request_json` against a server | per call `pc`, attempt, arriving answer and outcome; requests on the `wire`, and which attempts the server has `executed`; one action per outcome of `client.request` with the code that handles it; `Serve` and `Drop` are the server's and the network's |
| `LocalBlobStorage` | put, delete and streamed reads | the `tree` of paths, the `content` of files, per stream the file it has open and what it has yielded; `put` and `delete` never wait and are one step, the first chunk of a stream opens the file |
| `MC*` | symmetry and constant functions for TLC | |
| `*Proofs` | theorems; `ObservabilityProofs` has those of `Health` and `RequestPipeline`, whose definitions have names of their own (`Task`, `way`, `PipelineNext`) so that both can be extended | |

How PostgreSQL is modelled (`AuthService`, `UserAccounts`; external to the
repository). The engine is created without an isolation level, so transactions
are READ COMMITTED. A SELECT reads the committed rows. An UPDATE waits while
another open transaction has written the row, then works on the newest version
and re-evaluates its WHERE clause there (`ReuseApply`), but never looks for rows
that were not in its snapshot (`ReuseSnapshot`). An INSERT waits for an open
transaction holding a conflicting index entry, then fails if the entry is
committed. A deferred foreign key is checked at COMMIT. Row locks are not a
variable: a row is locked when some `writes[s]` holds a version of it. PostgreSQL
takes the locks of the family UPDATE one by one, `ReuseApply` all at once: that is
the same, for `NoDeadlock` shows that the UPDATE's snapshot holds at most one row
(a family has one tail, and every replaced row is revoked, which the WHERE clause
leaves out).

`HttpClient` keeps, of a response, the class of its status, and of an exception
what `request_json` tells apart: `ConnectTimeout` stands for every connection or
pool that does not come in time, `ReadError` for every broken connection. The
server may carry out a request at any time after it was sent, whether or not the
client still waits. Only a success tells that it has done so: a redirect, which
the client does not follow, a refusal or a 5xx may come with the effect or
without it.
`LocalBlobStorage` splits names at `/`, measures data in chunks of 64 KiB, and
takes from POSIX that an unlinked file lives on in the streams that have it open
and that opening a file to write keeps the file and drops its content. A process
that dies after `mkdir` leaves directories, which is also what `PutTorn` and
`Delete` leave. `stored` and `promise` are history variables: what the last `put`
that returned had put, and what `get` found, until somebody changes it. A put that
is cut short takes the path out of `stored`, since the code makes the earlier
`BlobRef` false then.

`issued`, `reported` and `tails` are the history variables of `AuthService`: the
tokens clients have been given, the families a reuse was reported of, and the row
that ended the family in the snapshot of reuse detection's UPDATE.

What is abstracted. A signed token is the id of its row: hashing, signing and
passwords are taken as correct, and a refused login or refresh is `Reject`,
a step that changes nothing. Columns no decision reads are left out. Time is
counted in small units; `RefreshTtl`, `AccessTtl`, `Leeway`, `Ttl`, `MaxRun`,
`Quota` and `Window` are parameters. `MaxClock`, `MaxUptime` and `MaxBacks` bound
the counters for TLC; the proofs hold for any value of them. `IdsLeft` bounds
the ids a run may draw. Tokens in the bucket are counted in 1/Window of a token,
so refill is exact where the script rounds doubles.

## Runs

| Run | Question and bounds |
|---|---|
| `auth_concurrent` | Every interleaving of three requests on up to two families, with three ids (a login and two rotations, which is what two racing refreshes and a third request need), aborts anywhere, an expiry and the disabling of the user. Checks that every family is a chain (`FamiliesAreChains`), `SingleUse`, the inductive invariant (types are part of it), that the unique index lets through exactly the rotation that came first, that no requests wait for each other in a circle, the refinement of `TokenFamilies`, and four action properties. `RefreshTtl = 0` and `Leeway = 2` put the row's expiry before that of the claims, the case in which the two checks differ; the clock takes two values. |
| `auth_liveness` | Two requests, no symmetry: does every lock wait end? |
| `auth_reuse_race` | See "Disagreements". Two requests are enough. `ReuseSparesOnlyARace` in `auth_concurrent` shows the other half: whenever a reported family is not revoked, the row that ended it in the snapshot has been rotated between the snapshot and the commit. |
| `accounts` | Two requests, two users, two emails, two clock values: racing registrations and first profiles, disabling during a grant. |
| `accounts_profile` | See "Disagreements". |
| `rate_limit` | Two keys with a quota of 2: in a window of 3 (the refill of a unit is no whole token) and in a window of 1 (it is several). Four units of time: longer than either window, so buckets expire and refill, with one step back of the clock. Besides the bounds on what is granted, checks that the script implements `TokenBucket`. |
| `requests` | Two requests, three ids, with and without an id of the client's, every way a handler or a preflight ends. |
| `requests_unhandled` | See "Disagreements". One request is enough. |
| `idempotency` | Three callers (owner, overdue owner, newcomer) on two keys, two results, a time to live of 2 and runs of up to 3, so that a run may outlive its key. |
| `health` | Two requests over every start, failed start and shutdown, with both dependencies failing and recovering at any time. |
| `http_client` | One call, since calls share nothing but the pool, with every method, and three attempts, the default: a first, a middle and a last one, whose requests the server carries out in any order. Deadlock is not checked: when the call has ended and the wire is empty, nothing is left to do. |
| `blob_storage` | One stream, since streams share nothing but the files, and puts and deletes of four names: one, one below it, the same path by way of another bucket, one beside it, and a fifth that is refused. Data of one and two chunks, so that a stream has a middle; three files: there are at most two under the paths and one more, unlinked, in the stream. |

One case of `NoDeadlock` is outside the bound: a rotation waits for another
rotation of the same family only if a token of that family has been rotated before
and its successor exists, which takes four ids with the two they draw. The theorem
`NobodyDeadlocks` covers it.

The expected counterexamples need at most two requests and three ids, which is
inside every bound above; the proofs remove the bounds for the core.

A property that limits a hazard states the condition under which the code meets
it. `SpentFamilyStaysSpent`, `DisabledUsersAreCutOff` and `AccessDiesOut` exempt
requests that had passed their checks before; `OneRunner` speaks of runs within
their time to live; `DoneIsFinal` of keys no run is left for; `QuotaServed` of a
clock that has not been set back; `ReuseSparesOnlyARace` allows for a rotation
of the very row that ended the family in the UPDATE's snapshot;
`OnlyExceptionsSlipPast` exempts the 500 of an unhandled exception; `CallsEnd` exempts a response that begins and never ends;
`StreamsAreWhole` a blob put again while it is read, or put or deleted before the
first chunk. Without those conditions each is false of the
code.

### Fairness

`AuthService` and `UserAccounts` assume `SF(Step(s))`: the event loop resumes
every request, and PostgreSQL's lock queues are first-come, so a waiter whose
lock is released again and again gets it. Nothing is assumed of clients, of
failures or of the clock. `IdempotencyStore` assumes that time passes
(`WF(Tick)`) and that the event loop runs a caller that has begun; it bounds no
caller's speed but by `MaxRun`. `RequestPipeline` and
`LocalBlobStorage` have no liveness property. `HttpClient` assumes `WF(Step(c))`: the
connect and read timeouts of `build_http_client`, which end a wait for the
connection and for the first byte, and the timer of the backoff; nothing obliges a
server that has begun to answer to come to an end. `Health` assumes `WF(Step(r))`: the event loop,
and its timer for the five seconds of `_safe_check`; it does not assume that a
dependency ever answers.

## Proofs

All theorems hold for every value of the constants that satisfies the named
assumptions of the modules (`ClockAssumption`,
`ValuesAssumption`: `None` and `NoRow` are not ids or rows, times are naturals;
`LimitsAssumption`, `NullsAssumption`: quotas and windows are positive;
`TimesAssumption`: a time to live is positive; `AttemptsAssumption`,
`NoneAssumption`: at least one attempt, and `None` is no id, email or status;
`BlobAssumption`, `SizeAssumption`,
`NullsAssumption`: names are sequences, sizes naturals). No set of requests, tokens,
keys, calls, tasks or files is assumed finite. The theorems of
`TokenFamiliesProofs` have `RowAssumption` as a hypothesis; the service's
`ValuesAssumption` implies it of the table the service keeps.

- `TokenFamiliesProofs`: `ChainsAreSound` — the rows of every family form one
  chain. The invariant is inductive with `TypeOK`; acyclicity is stated as "every
  non-empty set of rows has one whose successor is outside", which needs no
  induction over the chain; `TableTyped` is its part on types. `RowHistoryIsFinal` —
  revoked and replaced are final. The abstract table has no run of its own: TLC
  checks both properties on the service (`FamiliesAreChains`, `HistoryIsFinal`).
- `AuthServiceProofs`: `InvariantHolds`, `ServiceTyped`, `TokensAreSingleUse`,
  `ServiceRefinesFamilies`, `ServiceKeepsChains`, `ServiceKeepsHistory`. None of these is inductive:
  that a rotation's commit is an abstract `Rotate` needs that `arg[s]` was
  unreplaced when it was written and has been locked since. `IInv` therefore says,
  per request, which rows it has written at each statement and how they relate to
  the committed ones (`WritesOK`, `LocalsOK`, `FamilyOK`), and between requests
  that no row is written twice (`LocksExclusive`), no id drawn twice
  (`IdsDistinct`) and no login's family used elsewhere (`FamiliesDistinct`).
  `IssuedOK` ties what clients hold to the table, which gives `SingleUse`: a token
  has one `replaced_by`. There is one lemma per action. The refinement follows
  from the same lemmas: three commits map to `Grant`, `Rotate` and `Revoke`, and
  everything else stutters; `ServiceKeepsChains` and `ServiceKeepsHistory` then transfer the
  abstract theorems. From the same invariant: `IndexDecidesRaces`, since a rotation has taken
  exactly its own token out of the index and a family has exactly one tail; and
  `DisabledStaysOut` and `SpentIsFinal`, from three facts about a step: rows stay
  what they are (`RowsStay`), a new row is one a login or a rotation was holding
  (`NewRows`), and how a request comes closer to a token (`Moves`).
  `ReuseMissesOnlyRaces` needs more (`ReuseInv`): from the snapshot of reuse
  detection's UPDATE to its commit, some row that ended the family in the snapshot
  (`tails[s]`) is still of that family and, unless it has been rotated since, is
  revoked or among the rows the UPDATE writes (`SeenTail`); and at the commit the
  UPDATE has written every live row of its snapshot. If that row has not been
  rotated it is still the only unreplaced one of the family and leaves the commit
  revoked; every other row is replaced, and a replaced row is revoked.
  `NobodyDeadlocks`: a request that waits for a lock and holds one is a rotation
  between its UPDATE and its INSERT (`WaitingHolder`), since every other statement
  that waits is the first write of its transaction. If such a rotation waits for
  another of its kind, that one is rotating the tail of the family
  (`InsertWaitsForTail`), and the rotation of the tail waits for nobody
  (`TailRunsThrough`): with its own token taken out, the index has no entry of the
  family left that anyone could hold. So a chain of waits has at most three
  requests and no circle (`WaitsEnd`). That reuse detection's snapshot has at most
  one row (`OneTarget`) is an invariant next to `IInv`.
- `RateLimiterProofs`: `LimiterTyped`, `LimiterBoundsRate`,
  `LimiterServesQuota`, `LimiterIsHonest`, `LimiterIsATokenBucket`. The second and third come from a
  law of conservation: what a key was granted since a
  moment, plus what its bucket would hold if the script ran now, is at most a full
  bucket plus the refill since (`NotOverdrawn`), and, as long as the clock has not
  been set back, at least that refill up to a full bucket (`NothingLost`). The
  first needs that a bucket's expiry is exactly one window after its last write
  (`BucketsOK`): expiry may only drop a bucket that would be full. `LimiterIsHonest`
  is the separate invariant that what a caller was told is at most what its bucket
  held when it was last written (`PromisesKept`). `LimiterIsATokenBucket` is the
  refinement of `TokenBucket`, with `Level(k)`, what the script would find, as the
  bucket of `k`: a call maps to a call with the same decision (`IdealAllow`), a tick
  to a refill, exact while the clock runs evenly (`IdealPass`), a step back to
  `SetBack`, and expiry to no step at all (`LevelExpire`).
- `IdempotencyStoreProofs`: `StoreTyped`, `OneRunAtATime`,
  `LapsedKeysStayLapsed`, `ResultsStand`. `OneRunner` is not inductive: a new run
  must know that no other is in time when it finds the key free. The invariant
  that tells it is that an in-time run is exactly as old as its key
  (`RunsOwnKeys`).
- `HttpClientProofs`: `CallsTyped`, `CallsTakeEffectOnce`, `ReportsAreTrue`. The
  invariant says what is known of every attempt: one that has not been sent is
  neither on the wire nor carried out, none is both (`SentOK`), and an attempt
  that has been answered is off the wire, so that it takes no effect later, and was
  carried out if the answer is a success (`AnswersOK`). A call that may not be repeated stays at its first attempt
  (`AttemptsOK`).
- `LocalBlobStorageProofs`: `StorageTyped`, `BlobsStand`,
  `UndisturbedStreamsAreWhole`. Files are under one path each (`FilesOK`), so a put
  reaches one name; a put that meets a file above or a directory at its path
  raises, so it never replaces a file by a directory. For a stream the invariant
  says where what `get` found still is: under the path, then in the open file, of
  which the stream has yielded the beginning (`StreamOK`). That the path of a valid
  name is among the paths of the model is a lemma on sequences (`PathsAreWalked`).

- `UserAccountsProofs`: `AccountsTyped`, `OneUserPerEmail`, `AccountsStand`,
  `DisabledLoseAccess`. The invariant says that the id a registration has drawn
  names no row and no other registration (`IdsApart`), and that an email that has
  been inserted is no user's and no other open transaction's (`EmailsApart`): what
  the unique index keeps so from the INSERT to the COMMIT.
- `ObservabilityProofs`: `HealthTyped`, `ReadyIsWired`, `ReadyzTellsTheTruth`. The flag is
  up in one phase only (`ReadyServes`); a `/readyz` that is probing began with both
  probes, because the flag was up, and has seen up every dependency whose check is
  neither pending nor failed (`RequestOK`).

  `PipelineTyped`, `ResponsesCarryTheirIds`, `OnlyTheUnhandledSlipPast`: the
  invariant `PipelineInv` says, for each layer a task may be in on its way in and
  out, what the layers it has passed have done to it: the ids it carries, the
  headers of its response, its lines in the log.

Only model-checked: liveness (`RequestsEnd`, `KeysLapse`, `HealthAnswers`,
`CallsEnd`), which is out of this prover's reach. Every other property of a passing
run is a theorem.

## Disagreements with the documentation and the tests

With a run that finds the counterexample:

- `auth_reuse_race`: reuse detection's UPDATE works on the rows of its snapshot.
  A rotation of the tail that commits between that snapshot and the locks leaves
  its new token active in a family that is reported as revoked
  (`service.py:124`; `docs/implementation/tasks/T-906.md:81`).
- `accounts_profile`: the profile `/users/me` creates is flushed and never
  committed, so the row does not outlive the request
  (`tests/integration/test_users_me.py:98` expects the same row again).
- `requests_unhandled`: an unhandled exception leaves by way of Starlette's
  `ServerErrorMiddleware`, outside of the middlewares (`call_next` raises at
  `observability/middleware.py:25`). Its 500 has no security headers, though
  `docs/implementation/tasks/T-505.md:44` says every response carries them, and no
  access-log line. `OnlyExceptionsSlipPast` in `requests` shows that nothing else
  gets past them.

Seen while modelling, described here only:

- A logout that commits while a refresh of the same token is between its SELECT
  and its UPDATE does not stop the rotation: `mark_refresh_token_replaced`
  updates by id (`service.py:156` against the check at 139). `AuthService` has
  the interleaving, and `SpentFamilyStaysSpent` the limit: once no such rotation
  is running, the family stays dead.
- `delete` is to be idempotent (`docs/implementation/tasks/T-704.md:36`), yet it
  raises when the path is a directory left from, or lies below, another blob:
  only `FileNotFoundError` is suppressed (`storage/local.py:97`). A name that has
  once been a directory can never be put again. Buckets do not separate names:
  bucket `a` with key `b/c` and bucket `a/b` with key `c` are one file.
- A put that fails has already truncated the file: the blob that was there is lost
  (`storage/local.py:73`), and a stream that is reading it ends early without an
  error. `StoredBlobsStand` and `StreamsAreWhole` exempt this.
- `ConnectTimeout` is no `ConnectError`, so a connection that is refused is tried
  again and one that does not come in time is not (`http/client.py:57`).
  `total_timeout_s` limits only the wait for the pool.
- Two registrations of one email that both pass the SELECT: the second gets an
  unhandled `IntegrityError`, not the `ConflictError` of
  `docs/implementation/tasks/T-906.md:38`. `RegisterInsert` has the step;
  `EmailsUnique` holds thanks to the index.
- An `HTTPException` is answered by FastAPI's own handler without Problem Details,
  where the docstring of `register_exception_handlers` (`app/api/errors.py:46`)
  says the fallback handler catches it. The `UpstreamProviderError` that
  `request_json` raises is not the `AppError` of the same name, so it is a 500.
- Two refreshes of one token: the second waits, overwrites nothing that commits,
  and fails on the unique index with an `IntegrityError` (a 500) rather than an
  authentication error. `SingleUse` holds thanks to the index.
- A client that loses the response to a committed rotation and retries presents a
  replaced token, which is reuse: its family is revoked.
- An access token of a disabled user is accepted until it expires
  (`app/auth/deps.py:151` reads the claim, not the row).
- An in-flight idempotency key lapses under a run longer than its time to live,
  after which a second run may begin (`platform/idempotency/ports.py:20` speaks
  of exactly-once).
- A token bucket may grant up to twice its quota in a window: a full burst and
  the refill (`RateBound` is the exact bound).
- If `engine.dispose()` raises, `shutdown_redis` is skipped (`lifespan.py:44`;
  `T-708.md:27`). `Lifespan` has the step.
- `/healthz` runs the probes, where `docs/architecture.md:204` has it as an alias
  of the liveness check.
- `refresh_ttl_seconds // 86400` is 0 for a lifetime under a day.

## Plan

Order: the session core first (`TokenFamilies`, `AuthService` and their proofs),
then the Redis adapters whose whole logic is time (`RateLimiter` with proofs,
`IdempotencyStore` with proofs), then `UserAccounts`, then `Lifespan` and
`Health`, then `RequestPipeline`, `HttpClient` and `LocalBlobStorage`. All of these
are in place, and every safety property they check is proved.

## Not modelled

Settings, logging, metrics, tracing, routing, pagination, migrations and the
engine factory keep no state another component decides on. The Redis cache is
five calls without a decision. Password hashing and signing are cryptography.
The task-queue port has no implementation. The database's connection pool, the
loss of Redis' data, forward jumps of its clock, and more than one database or
Redis node are outside the models.
