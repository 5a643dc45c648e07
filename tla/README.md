# Verification of zrun-backend

TLA+ models of the parts of zrun-backend that are hard to test, checked with TLC
and, where it matters most, proved with TLAPS. Paths below are relative to the
repository root.

## 1. Inventory

zrun-backend is a Python monorepo: a gRPC service for SKUs (`services/zrun-base`),
a FastAPI gateway for devices and browsers (`services/zrun-bff`), a shared library
(`shared/zrun-core`) and packaging stubs for services that do not exist yet (stock,
ops, analytics, integration, settlement, shipping).

| Component | State | Operations | Hard behaviour | What makes it correct |
|---|---|---|---|---|
| SKU service (`zrun-base`: `servicers/`, `logic/`, `repository/`) | the `skus` table; one `SkuLogic` with one `_repo` pointer for all RPCs; one SQLAlchemy session per RPC and one of `main()` | CreateSku, GetSku, UpdateSku, DeleteSku, ListSkus | coroutines interleave at every await while they share `_repo`; check-then-write over several statements; deletes flushed by COMMIT; lost COMMITs | codes unique; deleted stays deleted; an RPC works in its own transaction; "ok" means done; every RPC answered |
| Single-node lock (`zrun-core/lock/single.py`) | one Redis key with a TTL; token, `_acquired`, watchdog task and stop event of every instance | acquire, release, watchdog renewal | expiry against renewal, late replies, release of a lock somebody else has got meanwhile | at most one holder as long as renewals are timely; release never frees another holder's lock |
| Redlock (`lock/distributed.py`, `factory.py`) | one key per Redis node, token of every instance | acquire (node by node), release (all in parallel) | majorities, partial failure, lost replies, clocks, node restarts | two instances never hold the lock within its validity |
| JWKS cache (`auth/jwks.py`) and token verification (`auth/verification.py`) | TTL cache, key index, refresh lock | get_jwks, get_key_by_kid, verify | stampedes, key rotation, expiry between check and use | one fetch at a time; a key that is served was published |
| Channel pool (`grpc/client.py`) and BFF clients (`clients/`) | one channel and one count per target, under a lock | get, release, close_all; calls of `BaseSkuClient` | release after close_all, a close that raises, synchronous stubs on an event loop | a channel in use is open; what nobody uses is closed |
| Server lifecycle (`grpc/server.py`, `health.py`, `zrun-base/main.py`) | health status, shutdown event, engine | start, stop, wait_for_termination, signals | a signal during start, hanging handlers, a shutdown that overtakes its calls, crashes | a signal ends the process; a call is not executed oftener than it is sent |
| Retries and error mapping (`clients/utils.py`, `errors.py`, `zrun-core/errors`) | attempt counter | retry_with_backoff, abort_with_error, grpc_error_to_bff_error | a retry of what was done already, an error behind an error | the answer tells whether the call was executed |
| Tokens and user context (`zrun-bff/auth/`, `zrun-core/auth/auth.py`, `signing.py`) | the key file, the pairs that clients keep, the key sets that services cache | login, refresh, user context, scope dependencies, jwks endpoint | the file changes between two reads, caches and clocks lag behind | new pairs work; renewal adds no rights; services come to agree with the issuer |
| OAuth login and sessions (`auth/router.py`, `middleware.py`, `casdoor.py`) | session cookie with the state parameter | login, callback | several steps through a browser with several tabs | a callback finds the state of its own login |
| Secrets (`zrun-bff/secrets/`), logging, sentry, schema | settings | load once | none | out of scope |

Components meet in these ways: a BFF handler takes a channel from the pool and calls a
zrun-base servicer, whose answer or error is mapped back to HTTP; the servicer swaps
its session's repository into the shared logic, which calls the repository, which
sends statements to PostgreSQL; locks talk to Redis; the callback of a login takes
Casdoor's keys from one JWKS provider, and services take the BFF's keys from another.
Nothing in the running code uses the locks yet, and `run_service` installs no
interceptor.

## 2. The SKU service

### Modules

| Module | Models |
|---|---|
| `SkuDomain` | requests, rows and the pure part of `logic/sku.py`: normalisation, refusals, what an update makes of a row |
| `SkuPromise` | the verdict a request is due and the effect it has, as operators on the rows |
| `SkuStore` | the abstract specification: each request takes effect at one moment and its answer tells the truth |
| `SkuDatabase` | PostgreSQL at READ COMMITTED and SQLAlchemy sessions as the service uses them (external) |
| `SkuService` | servicer, logic and repository as coroutines on one event loop |
| `MCSkuService` | requests and codes for TLC |
| `SkuServiceProofs`, `SkuStoreProofs`, `SkuRowsProofs` | theorems |

A coroutine runs without interruption from one await to the next, so a step of
`SkuService` is either the database executing a statement (`ExecSelect`, `ExecInsert`,
`ExecUpdate`, `ExecCommit`, `ExecRollback`) or the loop resuming one coroutine up to its
next await (`Start`, `AfterGetById`, `AfterGetByCode`, `AfterReload`, `AfterWrite`,
`AfterList`, `AfterError`, `Finish`). `repo` is `SkuLogic._repo`. A session is named
after its owner, so "`repo = r`" reads "the logic points at the repository of r's
session". `frame[r]` is the coroutine: `pc` is the await it is suspended in, `saved`
is `original_repo`, `via` the session whose statement it awaits.

What the abstraction leaves out: the text of codes and names (a raw code is a model
value, `Normalized` says what `strip().upper()` makes of it, one value stands for all
codes and one for all names that `validate` refuses), timestamps, log lines, the paging
of ListSkus (`list` reads and answers), and the pool of connections. RPCs above
`maximum_concurrent_rpcs` are refused by gRPC before they reach the program; `Start`
simply waits for a place. Choices about the libraries, read off the calls the code makes:

- A session is used by one connection. A statement sent to a session whose connection
  is at work either raises or is lined up behind it (`Send`); SQLAlchemy and its drivers
  do one or the other depending on the moment.
- A statement that fails rolls the session's transaction back and leaves it unusable
  until its owner leaves; statements lined up behind it fail as well. A refused flush
  leaves nothing behind in the unit of work.
- `session.begin().__exit__` sends no COMMIT for a transaction that a failed flush has rolled
  back, and raises nothing, so the owner of the session answers "ok" if the failed statement
  was another RPC's; one whose connection is gone raises (`Unsent`). Statements of others that
  are lined up in a session when it is closed end with an error.
- `session.delete` marks a row and every later statement of that session, COMMIT
  included, flushes it.
- A session nobody has begun begins a transaction by itself at its first statement and
  nobody ends it (`autobegun`). `Collect` is the garbage collection of such a session.
- A deadlock that PostgreSQL breaks by killing one statement, a cancelled RPC and a lost
  connection are all `Lose`.

### Runs

| Run | Instance | Shows |
|---|---|---|
| `serial` | 2 RPCs one after the other, every kind of request, 1 fault | the service implements `SkuStore`; every RPC is answered |
| `pair` | 2 writers that may overlap, 1 fault | `SoloDurability`, `NoResurrection`, `AnsweredWhenIsolated` |
| `three` | 3 RPCs that overlap, writers of one code and one SKU | `UniqueCodes`, `SoloIsolation` |
| `isolation` | 2 writers | violated: an RPC works in another one's session |

Two RPCs are the smallest number that can swap each other's repository, and one seed
row with two codes the smallest table on which two writers can compete for a row and
for a code. The third RPC of `three` adds
what two cannot do: an RPC that a leaving one sends to a session that is closed already, and a
transaction that a foreign RPC has joined while a third one competes with it. `three` uses symmetry in
the RPCs, which the requests of `CodeWriters` do not tell apart. Deadlock checking is off in all of them:
each RPC runs once and then the system stops. It may also stop earlier: an RPC that
drifted to the start-up session takes locks there that nobody releases, and a later
statement that needs them waits for ever. That is why `AnsweredWhenIsolated` is
conditional.

Fairness: asyncio resumes every coroutine whose result has arrived (`WF` on `Resume`) and
PostgreSQL executes every statement that waits for no lock (`WF` on `Exec`). Arrivals,
faults and garbage collection are never forced.

### What the violation run says

`SkuServicer._with_repo` promises to replace the logic's repository temporarily "to
ensure transaction isolation per request". That fails as soon as two RPCs overlap.
RPC 1 suspends in its first query; RPC 2 enters and points the logic at its own
repository; RPC 1 goes on in the session of RPC 2. And if RPC 1 leaves before RPC 2,
RPC 2 puts back the repository of RPC 1, whose session is closed. What survives is what
the proofs below state: codes stay unique, deleted SKUs stay deleted and an RPC that
overlaps with none is not affected by what earlier ones left behind.

### Proofs

The theorems hold for any number of RPCs, SKUs, codes, names and faults, under `DomainAssumption`, `NoCallAssumption`, `DatabaseAssumption` and `ServiceAssumption`
(the special values differ from the ordinary ones, normalisation maps raw codes to
codes, at least one place for an RPC). Four layers, the first two in `SkuServiceProofs`, the
third in `SkuRowsProofs` and the last in `SkuStoreProofs`:

- `TypeInv`: types, and in `Core` the facts about coroutines the types do not say, such
  as which sessions a statement can be lined up in. It gives `TypeCorrectness`.
- `SoloInv`: an RPC in flight that has not been overlapped is the only one in flight,
  its statements go through its own session, and while it is in the body `repo` is its
  own. `SoloIsolation` alone is not inductive: one has to know that nobody else is there
  to swap. It gives `SoloIsolated` and, with `MaxRpcs = 1`, `SerialIsolated`:
  with one place the docstring of `_with_repo` is true.
- `RowsInv`: the unique index protects committed rows *together with* the pending writes
  of every transaction. Uniqueness of `db` is not inductive, since a COMMIT makes
  pending writes visible; the invariant therefore says that no two transactions hold
  writes to one row (`Exclusive`), that a transaction's own view is unique
  (`EachUnique`), that no pending write clashes with another one or with a committed row
  (`NoClash`), and that no transaction has a row pending for a SKU that is gone
  (`NoRevival`). None of the parts mentions whose RPC sent the statement, which is why
  `CodesAreUnique` and `DeletedForGood` survive the swapped repositories.

- `SoloIInv` says what an RPC that has not been overlapped has achieved at every place
  where it may be suspended. It adds four things to the first two layers:
  - `SoloProgress`: what the coroutine has read agrees with the rows its session sees
    (`Reading`), what it has decided is the verdict `SkuPromise` gives (`Deciding`), and
    what it has written is the effect it is due (`Writing`).
  - `QueueInv`: a statement lined up in a session belongs to an RPC that waits for it,
    once. Without it a statement of an RPC that is gone could still write into the
    session of the one that is there.
  - `IdleInv`: an RPC that has not arrived has left no trace: its session is blank and no
    session holds a row under its id. Earlier RPCs that swapped repositories with each
    other may have left open transactions behind, and a new RPC must not find its own
    work half done.
  - `SoloBegun`: as long as no statement has failed the RPC's transaction is open, so that
    leaving with "commit" sends a COMMIT and "ok" means that it took effect.

  Each resumption of the RPC and each statement executed for it, also one that is lost,
  keeps `Progress` and is, to the client, a step of `SkuStore` or none (`Advances`, one
  lemma per action). `AnswersAreDurable` states `SoloDurability` for any `MaxRpcs`. With
  `MaxRpcs = 1` every RPC is alone (`NeverOverlapped`), its steps are all the steps that
  touch the rows, and `SerialImplementsStore` follows, for every request and any number
  of faults. That assumption is needed: with two places the run `isolation` shows
  that an RPC does not even work in its own transaction.

These proofs say what a statement does when it is executed. That it is executed, and
its coroutine resumed, is liveness: `EveryRpcAnswered` and `AnsweredWhenIsolated` are model-checked
only.

## 3. The locks

### Modules

`ExclusiveLock` is what a lock promises: one owner at a time, who alone makes room for
the next one. `SingleNodeLock` and `Redlock` model a user's whole life with a lock
object: acquire, body, release, again and again, `MC...` name two users, `...Proofs`
hold the theorems.

A token is a fresh random string, so all that matters is whose *current* token a key
holds; a key with an older one holds `Stale`. A command is one step, at the moment Redis
executes it; the coroutine that has sent it resumes in a later step. A command that
fails may or may not have been executed.

**`SingleNodeLock`.** `user[l].pc` is the await the user's task is suspended in,
`dog[l]` the watchdog task. `granted`, `acquired`, `stop` and `task` are the answer of
SET, `_acquired`, whether `_stop_watchdog` is set, and whether `_watchdog_task` is not
`None`. The one second that `release` gives the watchdog (`JoinTimesOut`) may run out at
any time, and every step of a coroutine or a command may be up to `Delay` ticks late.
When the watchdog ends with an exception nobody sees it before `release` awaits the
task, where it comes out (`JoinRaises`).

**`Redlock`.** `user[l].node` is the client the `for` loop of `acquire` has reached,
`got` the nodes `acquired_count` counts, `clock` the ticks since `start_ms`, `pending`
the EVALs of `_release_all` that have no answer yet. `SetKey` lets a node's clock gain
up to `Drift` ticks. There is no bound on how late a step may be. The critical section
is the part of the body within `validity_ms` less the drift (`InCriticalSection`).
Users die, tasks are cancelled between two nodes, and nodes restart without their keys.

Both locks are used as `async with` and `redis_lock` use them: the body runs whether or
not the lock was got, `release` follows, and one task uses a lock object at a time.

### Runs

| Run | Instance | Shows |
|---|---|---|
| `lock_timely` | 2 users, TTL 6, renewal after 1, steps late by at most 1, 2 faults (SET, crash) | `HeldWhileInside`, `ImplementsLock`, `DeadUsersKeyExpires` |
| `lock_late` | TTL 3, steps late by up to 4, 2 faults of any kind | `OnlyOwnerReleases`, `NoOrphanWatchdog`: what does not depend on time |
| `redlock_exclusion` | 2 users, 3 nodes, TTL 3, drift 1, 2 faults (SET, crash) | `ImplementsLock`, `OnlyOwnerReleases`, `NothingLeftBehind` |
| `redlock_expiry` | 2 users, 2 nodes, TTL 2, drift 1, 2 faults of any kind | `AbandonedKeysExpire` |

Two users are enough to compete, to overwrite and to release each other's keys; the
theorems cover more. Three nodes are the smallest number with a quorum that is neither
one node nor all of them; two nodes, in `redlock_expiry`, the smallest on which a node
can restart while the other one remembers. The times are the smallest for which renewal
after `RenewAfter`, four late steps and expiry are different moments.

Fairness: time passes (`WF` on `Tick`). `SingleNodeLock` also assumes that Redis executes the
commands it is sent and that the event loop resumes a user and its watchdog when their answer or
their time has come (`WF` on each `Call` and each `Watch`): no step is more than `Delay` late
there, so `Tick` waits for the ones that are due. Nobody has to come or to leave the body, and
a user that has died takes no step at all. `Redlock` has no bound on delays and assumes
fairness of `Tick` only: a key must expire although its user does nothing any more.

### What the runs leave out on purpose

`lock_timely` has no failing EXPIRE and no failing EVAL, because `HeldWhileInside` does
not survive them. An exception of EXPIRE is caught by nobody: the watchdog ends, `_acquired` stays
true, and the key expires under the body although `single.py:23-24` promises that a
background task extends the lock. The same comes of a failed EVAL in `release`, which leaves
`_stop_watchdog` set for the next acquire.

`DistributedLock.acquired`, "if the lock is currently held" (`distributed.py:135`), does not
look at the clock. Nothing renews the keys, and `validity_ms` is computed, logged and dropped, so a
body that outlives its validity finds `acquired` true while another user has got the quorum.
`ImplementsLock` is therefore stated for the part of the body within the validity.
`lock_drift_factor` of the configuration is read by nobody, so callers who compute the
validity themselves have to deduct the drift.

A node that restarts without its keys may vote twice within one validity. No document
promises exclusion then, so there is no run for it: `redlock_exclusion` has no restarts, and
the theorems name the assumption `NodesRemember`.

### Proofs

For any number of users (and of nodes), any times and any number of faults.

- `SingleNodeLockProofs`. `AllGuarded` says where a watchdog can be for each `pc` of its
  user; it gives `WatchdogsAreJoined`. `LeaseInv` counts: at each point of the
  watchdog's round, the ticks the key has left are at least what the round may still
  take. It needs `InTime`: EXPIRE and EVAL do not fail, renewal is on, and the TTL
  exceeds the renewal interval by four delays (SET's answer, the watchdog's wake-up, its
  EXPIRE, the answer). With it `WatchdogHolds` and `LockImplemented` follow;
  `OwnerReleases` and the types need no such assumption.
- `RedlockProofs`. Exclusion counts votes: `Promised` says that as long as a user is
  within its validity, every node it counts holds its token for long enough. Two
  quorums of `1..N` share a node (proved from `FS_` facts on cardinalities for every
  `N`), and a node holds one token. `RedlockExcludes` and `RedlockImplemented` assume
  `NodesRemember` (no restart without the keys), which the code cannot give.
  `TokensAreSwept` says that a failed acquire and a release leave nothing behind when no
  EVAL fails and no task is cancelled; its invariant follows the set of nodes that may
  hold the token through the loop and the parallel EVALs.

`DeadUsersKeyExpires` and `AbandonedKeysExpire` are liveness and model-checked only.

## 4. The JWKS cache and token verification

`JwksProvider` models `get_jwks` with its double-checked lock and `TTLCache`, the index
of `get_key_by_kid`, and `verify_jwt_with_jwks`, which calls both without an await in
between. A coroutine goes without interruption from `Verify` to the lock or to the
fetch, and from the arrival of the answer to the verdict. `holder` and `queue` are
`asyncio.Lock`, which is fair: who comes while others wait queues behind them, even if
the lock is free at that moment. `index` is `_key_index`, `left` the time the cache entry has
left. What jose makes of the signature and the claims is open (`accepted` or `invalid`).

The identity provider publishes and withdraws keys at will. Two steps are of a kind that
tests hardly meet: `ExpiresUnder`, where the entry expires between `in` and `[]` and a
`KeyError` becomes a failed verification, and `ArriveMalformed`, where "keys" is no list
of keys and the entry is cached before building the index fails, so that an old index
lives on beside it. The history variable `matched` keeps the two apart, and
`AcceptedKeyIsRecent` and `UnknownKeyIsNew` are stated for an index that was built from the
entry. Otherwise there is no bound: a withdrawn key
passes as long as malformed answers come.

`zrun_bff.auth.casdoor` keeps the provider in a `WeakValueDictionary`, so it may be
collected with its cache whenever no verification is under way (`Collect`, with
`KeptAlive = FALSE`); `zrun_core.auth.auth` keeps it in an attribute
(`KeptAlive = TRUE`).

| Run | Instance | Shows |
|---|---|---|
| `jwks` | 3 calls, 1 key, TTL 3, answers travel up to 2 ticks, weakly held provider | `OneFetch`, `WaitersAreInLine`, `ImplementsKeySetCache`, `AcceptedKeyIsRecent`, `UnknownKeyIsNew`, `EveryCallAnswered` |

Three calls make a queue of two behind the fetch, which is what the second look at the
cache and the cancellation of a waiter are about. One key is enough: the membership of
each key in published set, answer and index changes independently of the others.

Fairness: the event loop resumes the task that is next for the lock, and httpx ends a
request one way or the other, for it has a time-out. `EveryCallAnswered` counts an error as
an answer, that of `ExpiresUnder` too, which `jwks.py:108-109` does not announce: it is a
`KeyError`, and nothing was fetched.

`KeySetCache` is the abstract specification: a place for one key set, which is asked for
only when there is none, is what the source publishes when it answers, and is dropped in
time. `ImplementsKeySetCache` maps all the calls together to it: an answered call is the
entry on its way, and `index` with `left` is the entry that is kept. An index beside a malformed
entry counts as none. Time is compared through `recent`, the spans within which the
source has changed; once that is empty a tick changes nothing the cache promises, and may be
a stutter.

Proofs (`JwksProofs`), for any number of calls and keys and any times: the types are an invariant
(`TypeCorrectness`; the run leaves them to the proof). `LockInv` (who fetches
holds the lock, and nothing is cached meanwhile) gives `SingleFlight`. With it `WaitersAreInLine` is
inductive and gives `NobodyIsLeftBehind`; three lemmas say what joining the queue, being next and
leaving it from any place (a cancelled waiter) do to who is in it. `TravelInv` and
`CachedInv` say how old an answer on its way and a cached one can be; the second needs
the first when an answer arrives, and both are needed for `AcceptedRecently` and
`UnknownRecently`. `FetchedOnce` needs `KeptAlive`: the weakly held provider of the BFF
is collected between two logins, and each login may fetch the key set again.
`KeySetCacheImplemented` needs `LockInv` at each step: because who fetches is alone and finds
nothing cached, an answer is the only entry there is, a failure loses it and leaves nothing, and
an expiry under a reader (`ExpiresUnder`) meets nothing on its way.
`EveryCallAnswered` is model-checked only.

## 5. The gateway and the process behind it

### Modules

| Module | Models |
|---|---|
| `ChannelPool` | `GrpcClientManager` of `zrun_core.grpc.client` and the coroutines that borrow from it |
| `ServerProcess` | `run_service` from start to exit, and the calls it is sent |
| `ErrorMapping` | the status an error of the servicers has on the wire, and gRPC status to HTTP status |
| `Gateway` | requests of the BFF; composes the three |
| `MCGateway` | two requests and two channel objects for TLC |
| `GatewayProofs` | theorems, of the pool by itself too |

**`ChannelPool`.** `pool[t]` is `_channels` and `_ref_counts` of a target, `lease[u]` the
channel a coroutine was given, `open` the channels that are not closed. Although
the pool is guarded by an `asyncio.Lock`, nobody is ever suspended in it:
`create_channel` makes a *synchronous* `grpc.Channel`, `close()` of which returns `None`,
and awaiting `None` raises at once. So every operation is one step, and the release
that closes a channel leaves by an exception, after the pool has been updated. The
history variable `swept` says that `close_all` met somebody's channel; no running code calls
`close_all`, and what the pool promises is stated for the time in between.

**`ServerProcess`.** `phase` is how far `run_service` is. `Launch` goes up to
`await server.start()`, or fails to bind the port; `BeginServing` from there to
`wait_for_termination`, which contains `mark_healthy`, the signal handlers and the
registration of the servicers, with no await between them. A signal before its handler is
installed ends the process. `Crash` is the end of grpc.aio's own loop. `Stop` withdraws
health, refuses new calls and disposes of the engine, all in one step, for `stop` does not wait
until the calls are over: `wait_for_termination` cancels its second task when the signal came
(`server.py:168-171`), the task awaits the future that tells the end of grpc.aio's shutdown
and cancels it too, so `server.stop(grace)` raises `CancelledError` at once, which `stop`
catches (`server.py:149`). `run_service` then disposes of the engine, `main` returns, `asyncio.run` cancels the
handlers that are left (`CancelTasks`), and the process ends when they have (`Exit`).

`handler[c]` is a call's coroutine on the server and `reply[c]` what its client knows.
They part when a connection breaks (`LoseConnection`), in a crash or in `CancelTasks`: the
client is told UNAVAILABLE, or told nothing yet, while the cancelled handler goes on as one of `orphans[c]`, and
its COMMIT may still take effect (`OrphanEnds`). `strays` are cancelled handlers that have no
commit ahead that anybody counts. The client may send its next call meanwhile; all of them take up
places on the server (`Busy`). A servicer answers an exception with an error (`Fail`), and
an exception of COMMIT itself may come although it took effect: `Fail` may follow
`Commit`. `overlapped` are the calls during which another handler was there; as run `isolation`
shows, what such a call wrote may be lost with the transaction of the other, and it is answered OK
all the same (`Respond`).
grpc.aio and `grpc_health` are external; what the model takes from them is listed at
the head of the module.

**`Gateway`.** `request[r].pc` says over which channel and through which wrapper a request
calls zrun-base. The routes of `api/pda/sku.py` call nothing: `get_sku_client` does not await
`create_sku_client` (`dependencies.py:91`), so what they are given is a coroutine without
methods and they answer 500 (`SkuRoute`). What `get_base_channel` documents, a
`BaseSkuClient` over a channel of the pool, blocks the event loop in the stub and ends as
`InternalError` whether or not the call succeeded (`CallBlocking`, `Unblock`). Over a
`grpc.aio` channel, as the tests use it, the client works: alone, inside
`retry_with_backoff`, which never retries there since the decorator has already turned the
`AioRpcError` into a `BFFError`, or as a bare stub inside `retry_with_backoff`, which does.
Channels and calls, the limit and the phases of the server are composed by `EXTENDS`;
a request is a user of the pool and a client of the process (`Users = Calls`).

### Run

`gateway` (2 requests, 1 target, 2 channel objects, 2 starts, 1 broken connection,
1 retry, 1 place on the server):

| Property | Question |
|---|---|
| `InUseOpen`, `NothingLeaks` | does the count per target follow the borrowers, over exceptions and `close_all`? |
| `ExecutionsBounded` | how often may one request be executed? |
| `AnswerTellsOutcome` | may a caller of `BaseSkuClient` whose call nobody overlapped trust 200? |
| `RequestsEnd` | does every request end if no handler hangs? |
| `SignalEndsService` | does a signal end the process, even under hanging handlers? |

Two channel objects are enough for two users: one that is closed and still in
somebody's hands, and the one opened since. One place makes the second call meet the
limit; two starts let a request meet a process that is not the one it was
sent to; one retry is the smallest number for which a first attempt that was executed is repeated.
With one place no two calls overlap, for a cancelled handler keeps its place until it ends; that
`AnswerTellsOutcome` and `ExecutionsBounded` survive overlapping ones is left to the theorems,
which hold for any number of places.

Fairness: the server's event loop runs on (`GoOn`), grpc.aio refuses or dispatches what it
is sent and sends what is done, and a cancelled handler ends (`WF`): cancellation comes out of
the await it is suspended in, and what it awaits then is a rollback. A handler that nobody
cancels is not assumed to end, and nobody is assumed to start the service again. A request's turn
is `SF`: asyncio runs what is ready in its order, so a coroutine that is ready again and again, with
others blocking the loop in between, is not passed over for ever.

### What the models show of the code

- 200 means "executed" for a call that no other overlapped on the server. Every other answer
  leaves it open: 503 because the connection may break after the commit, and 500 as well, because the
  answer of a COMMIT may be lost although it took effect (`database.py:133`), and the servicer
  makes UNKNOWN of that exception as of any other. Of a call that was overlapped not even 200
  tells the outcome. `retry_with_backoff` around a bare stub repeats a call on 503 and may so
  execute it once per attempt; that is the bound, `ExecutionsBounded`.
- `abort_with_error` does not await `context.abort`, so a servicer's domain errors arrive as
  UNKNOWN and leave the BFF as 500, although `errors.py:118` promises "the appropriate error
  status". The tables would not fit either if the status got through: `InternalError` of zrun-core is FAILED_PRECONDITION
  and so 400, and 429, 499, 501 and 504 have no class in the BFF and become 500.
- There is no graceful shutdown, although `server.py:130` grants existing RPCs a grace period: after a
  signal `stop` returns at once and the engine is disposed of under running handlers, which are then
  cancelled (`Stop`, `CancelTasks`). What is left is that the process ends
  (`SignalEndsService`), and that it waits for the cancelled handlers.
- No call has a deadline; a hanging handler keeps its request, and behind a synchronous
  stub the whole BFF. `RequestsEnd` is conditional for that reason.
- A crash of the main loop ends in exit code 0, although the docstring of `run_service`
  promises another one for failures; `return 1` cannot be reached, since
  `asyncio.wait` does not raise what its tasks raise. A port in use leaves by an
  exception before the `try`, with the engine not disposed of.
- A `HealthServicer` is born SERVING, so the order of health and registration is right
  only because no await lies between `start` and the loop over the servicers.

### Proofs

For any number of users, targets, channels, calls, starts, losses and retries.

- The pool (`PoolCorrect`). The count cannot be shown to be the number of borrowers, for
  `close_all` breaks that. `PoolInv` says that it never exceeds it (`CountedAreThere`) and
  equals it while nothing is swept (`NobodyIsMissed`); the first part is what makes
  `NothingLeaks` hold after `close_all` too. The cardinalities come from the `FS_` facts.
- The gateway. `ImplementsPool` maps every step of a request to a step of the pool or
  to a stutter, so `PoolHolds` and `PoolIsTidy` are inherited. `GatewayInv` relates the handlers of a call
  to what its client knows (`HandlerInv`), and counts (`AttemptInv`): executions and orphans
  together are at most the attempts, and fewer while the last attempt is still on its way or running.
  An orphan counts because it may still commit, which is why the number of executions alone
  is not inductive. `ExecutionsAreBounded` follows from the second part and `AnswerIsHonest`
  (`AnswerTellsOutcome`) from the first.

`SignalEndsService` and `RequestsEnd` are liveness and model-checked only.

## 6. Tokens and login

### `Tokens`

The state is the key file, the pairs that clients keep (`pairs`, one per slot), one request on its
way through the BFF (`visit`), and per service the key set it has (`cache`) or waits for
(`coming`). Key and kid part ways here: the kid is a setting, `key-1` by default
(`config.py:55`), so a token is verified with the key that is cached, whatever key signed it.
`Generate` and `Complete` are the two halves of `generate_token_pair`, each of which reads the
file; `Busy` says that a pair is half done, and since nothing is awaited there, only somebody
outside the BFF, who replaces the file or restarts the process, can act in between. `Enter` is
`UserContextMiddleware`, which lets everything pass and sets a user context only for a token that
verifies; `Admit` is `get_current_user` with its scope check, which verifies again. The
clocks of the services are `Lag` behind the BFF's, and jose has no leeway. The JWKS cache is
abstracted to one entry that lives `TTL` ticks; `JwksProvider` is the detailed one. The two
meet in `KeySetCache`: `JwksProvider` implements it, and per service `cache` and `coming` obey it
(`ServicesCacheKeySet`). So both stay within the same bounds; that `Tokens` leaves out
nothing a provider may do is not stated, and `Forget` it does leave out, since
`zrun_core.auth.auth` keeps its provider.

What the abstraction leaves out: subjects of other shapes, audiences and issuers that
do not match, and malformed headers, which are all refused alike.

`tokens` (1 user, 1 scope, 2 keys, 2 slots, 1 service, life times 1 and 2, TTL 2, way of a key
set 1, lag 1; symmetric in keys and slots): `GrantBacksPair`, `ServicesAgree`,
`NewPairsWork`, `AdmittedHasContext`, `ServicesCacheKeySet`. Two slots hold a pair and its renewal, two keys are what
it takes to change the file, with `NoKey` for a file that is gone. The times are the
smallest for which the expiry of an access token, of a refresh token and of a cache entry, and
the arrival of an old key set, fall on different ticks. The run states no liveness, so it needs no fairness. `NewPairsWork` is about pairs issued after the file's last change and `AdmittedHasContext`
about visits during which it does not change; what a change in between does, see below.

What the model shows of the code:

- Renewing invalidates nothing: the old refresh token goes on working until it expires, though
  `tokens.py:165` and `router.py:229` say that it is invalidated. The
  BFF keeps no record of tokens.
- A file that changes between the two halves of `generate_token_pair` leaves a pair signed by two
  keys, one that changes between middleware and route a request that is admitted with no user context.
- Middleware, `get_current_user` and `_validate_token` take tokens of either type; only
  `refresh_access_token` and `verify_access_token`, which has no caller, look at it.
- While the file is gone the middleware treats every request as anonymous,
  and `get_current_user`, which catches only `JWTError`, answers 500.
- With a `jwt_public_key_path` the key that verifies refresh tokens comes from another
  file than the one that signs them. `Refresh` therefore does not depend on the signature.

Proofs (`TokensProofs`), for any life times, bounds and sets: each property has an invariant of
its own, and the types are one too (`TypeCorrect`; the run leaves them to the proof). `Granted` names the login a pair descends from. `OnTheWay` and `Cached`
relate the time since the file changed to what a key set has left, and
give `KeysSpread` when that time reaches `TTL + Travel`. `SignedByFile` covers
half-done pairs, which `NewPairsWork` does not mention. `ContextFirst` says what the
middleware has seen of a request that is not admitted yet. `Dropped`, an entry without time
left is gone, is what `ServicesCacheOne` needs: a service asks when its entry has run
out, and the cache of `KeySetCache` must be empty then.

### `Login`

One browser with several tabs, the session cookie, the callback and Casdoor. `request[t].session` and
`request[t].session_data` are the two variables of `SessionMiddleware.dispatch`; they name
the same object, because `request.state.session` is assigned the dict that was loaded and
`login_redirect` changes that dict in place. So `_session_modified` compares a dict with itself,
no cookie is ever set, and the callback answers 400 "Missing state parameter".
`login_session` (2 tabs, 3 states) finds it: `StateIsVerified` is the docstring of
`login_redirect`, restricted to the newest login with no other callback in between, so
that a second tab that overwrites the state is not held against the code. A browser may come with
a cookie from an earlier build, which is how the later steps of the callback are reached.
With a copy of the dict in `Load` the property holds.

`IssuerAccepted` records one more: `casdoor.py:109` passes an empty issuer with the comment
"Casdoor issuer varies, so we don't validate it", and jose compares `iss` with it all the same, so
a token that names its issuer is refused. `Login` has no proofs; there is nothing in it to
prove while the cookie is not set.

## 7. Bounds, in one place

`MaxRpcs` and `MaxWorkers` are the service's `max_workers`. `MaxFaults` bounds lost
statements, failed commands, crashes and restarts; two are enough for one to hit the
consequences of the other. `MaxStarts` and `MaxLosses` bound the starts of a process and
broken connections, `MaxRetries` is `max_retries`. `TTL`, `RenewAfter`, `Delay`, `Drift`, `Travel`, `Lag`,
`AccessLife` and `RefreshLife` are times in ticks. `Horizon` caps a time at the
point where nothing depends on it. A user of a lock, a verification, a request of the
gateway and a tab repeat for ever; an RPC of the SKU service runs once, and a run
that needs several uses several.

## 8. Not modelled

| Part | Why |
|---|---|
| Secrets, logging, sentry | pure input or output; secrets have no caller; no state that later steps depend on |
| `AuthInterceptor.intercept_service` | no service installs it. It resets `USER_ID_CTX_KEY` as soon as the continuation has returned the handler, before the handler runs, and a refusal calls `_abort` of a class that has none; its verification is `ServiceAccepts` |
| `create_test_server`, `serve_forever`, secure channels, `verify_access_token` | no caller in the running code |
| Protobuf schema, stub services | generated code and packaging |
| Paging of ListSkus | cut with OFFSET from a listing that changes; no document says what a caller may expect of two pages |

## 9. What is left

1. The interceptor and its context variable, when a service installs it.
2. Two pages of ListSkus, once it is said what they promise together.
3. `SkuService` behind `ServerProcess`: the start-up session of `main()` closes only after
   the engine is disposed of.
4. Cancellation in `SingleNodeLock`, which is modelled in `Redlock` only, and what its
   proofs say then.
