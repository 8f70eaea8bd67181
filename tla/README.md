# ezai: a TLA+ verification project

ezai is a gateway written in Go in front of several LLM providers (Claude, GPT, Gemini,
Perplexity, Ollama). It authenticates clients, routes a request over a chain of targets with
fallback, circuit breakers and concurrency limits, streams answers, processes batches through a
Redis queue, and keeps keys and request logs in SQLite. This directory models the parts of it
whose correctness depends on the order of concurrent steps and on failures between them.

Paths below are relative to the repository (`src/`). `PROJECT.json` maps every definition that
models code to its lines.

## 1. The system: inventory

| Component | Code | State | Operations |
|---|---|---|---|
| Circuit breaker | `internal/router/circuitbreaker.go` | per provider: state, failure and success counts, time of the last failure, under a mutex | `Allow`, `RecordSuccess`, `RecordFailure` |
| Semaphore | `internal/concurrency/semaphore.go` | a buffered channel per provider | `Acquire` (blocking, cancellable), `Release` |
| Fallback policy | `internal/router/fallback.go` | none | classification of errors, `shouldFallback` |
| Router | `internal/router/router.go` | the breakers and semaphores; per request the attempts and, for `always_fastest`, a result channel | `Execute` = `executeSequential` or `executeFastest`, `tryProvider`, and the methods the streaming handler calls |
| Streaming handler | `internal/handler/stream.go` | per request: current target, whether content was sent, whether an error chunk came | the walk over targets, relay of chunks, recording, release |
| Batch queue | `internal/queue/*.go` | in Redis: a hash per job, a list of items, a sorted set of jobs being processed | `Enqueue`, worker loop, `processItem`, `failJob`, reaper, `Start`, `Stop` |
| Batch handler | `internal/handler/batch.go` | none | submit (calls `Enqueue`), read a job |
| Client keys | `internal/service/clientkey_validator.go`, `internal/store/clientkey.go`, `internal/handler/clientkey_*.go`, `internal/middleware/auth.go` | rows of `client_keys`, copies in Redis for five minutes | validate, create, rotate, revoke, reissue |
| Chat handler, response cache | `internal/handler/chat.go`, `internal/cache` | cached responses in Redis | look up, execute, log, save |
| Provider keys | `internal/store/keystore.go`, `audit.go`, `internal/handler/admin.go`, the `keys` commands of `cmd/ezai` | rows of `provider_keys`, audit log; in the server, the keys it loaded | create, update, rotate, deactivate, load at start |
| Request log, shutdown | `internal/store/requestlog.go`, `internal/server/server.go`, `cmd/ezai/main.go` | a buffered channel and its writer goroutine | `Write`, `Close`, `Server.Start`, `Server.Shutdown` |
| Usage administration | `internal/store/usage_admin.go`, `internal/handler/usage_admin.go` | log rows and their daily summary | archive, soft reset, hard delete |
| Usage queries | `internal/store/usage.go`, `internal/handler/usage.go`, `RequestLogReader` | none, read only | usage report, statistics |
| Providers, registry | `internal/provider` | registry fixed after start; per stream a goroutine and a channel | `Chat`, `ChatStream` |
| Rate limiting, trusted networks | `internal/middleware` | counters in Redis | a limiter library (GCRA) per client |
| Prompts, pricing, configuration | `internal/config` | files loaded at start | composition, price lookup |
| Crypto, migrations | `internal/crypto`, `internal/store/sqlite.go`, `encrypted.go` | none | |
| Health, models | `internal/handler` | none, read only | |

How they interact. The chat and batch paths call `Router.Execute`; the streaming handler walks the
targets itself and calls the router's `CheckCircuitBreaker`, `AcquireSemaphore`,
`ReleaseSemaphore`, `RecordSuccess` and `RecordFailure`. All three therefore compete for the same
breakers and semaphores. `executeFastest` starts one goroutine per target and takes the first
success from a channel. Batch items go from the producer through Redis to the workers; a reaper
goroutine looks at the same Redis structures. Every authenticated request reads the client-key
cache, which the key handlers invalidate. Chat and streaming handlers end by writing a record into
the channel of the request log; its goroutine stores them in the table that usage reports read and
usage administration shrinks. A provider's stream is fed by a goroutine of the provider and read by
the handler's loop. The server loads the provider keys when it starts; the admin API and the
command line tool, another process, change them meanwhile. At the end `Server.Shutdown`, in the
goroutine of the signal, takes everything down while `main` returns.

What is hard:

* **Concurrency**: race losers that go on after the answer; outcomes recorded in a breaker state
  other than the one the call was admitted in; two paths with different acquire and release
  points over one semaphore; reaper against worker; validation against revocation; the stream
  goroutine against the handler; `Shutdown` against `main` and against running handlers; the
  command line tool against the server.
* **Failure**: a crash or stop between two Redis commands of one operation; commands that fail;
  replies that get lost; an ignored error of a cache invalidation; SQL statements that fail between
  a change and its audit record; providers that break a stream off or fall silent.
* **Ordering and time**: the recovery timeout of a breaker, backoff of retries, the threshold of
  the reaper, the expiry of keys and of cached copies, contexts cancelled half-way.

What makes each modelled component correct:

* breaker: it opens, tests and closes exactly by the outcomes and the time the configuration
  names, whatever the mix of late outcomes;
* semaphores: taken slots are the calls that hold one, never more than the limit, and all come back;
* router: fallback follows the policy, the answer reported is one that was given, failure is
  reported only when nothing succeeded, every request is answered;
* streaming: the same accounting of slots, every stream whose provider does not fall silent ends;
* batch: an item is in one place, answers are not taken back, jobs keep their owner, accepted jobs
  settle but for named losses, the reaper recovers what crashes leave behind;
* client keys: the cache never lengthens a key's life, a revoked row stays as it is until reissue,
  and decisions converge to the current row;
* provider keys: one row per provider and name, failed calls change nothing, changes are audited,
  the server calls a provider with the newest key of it that was active when it read the table;
* request log: a record is in one place, `Close` flushes, a failing INSERT costs one record;
* cache: a hit was made for the same query, as far as the key can tell;
* usage: rows and daily summaries together account for everything stored, reports show outsiders
  their own usage only;
* provider streams: the text arrives complete and in order, up to the write deadline the verdict is the
  provider's, neither goroutine is left behind.

## 2. Modules

| Module | Models | Composed of |
|---|---|---|
| `CircuitBreaker` | one breaker as a record and operators | |
| `AbstractBreaker` | what a breaker promises, over runs of outcomes instead of counters | |
| `ProviderPool` | all breakers and semaphores and the router's methods on them | `CircuitBreaker`, instance of `AbstractBreaker` |
| `Fallback` | classes of errors, policy table | |
| `Router` | `Execute`: sequential and racing requests | `ProviderPool`, `Fallback` |
| `Stream` | the streaming handler | `ProviderPool` |
| `Gateway` | chat or batch requests and streams over the same pool | `Router`, `Stream` |
| `BatchQueue` | producer, workers, reaper, Redis, outages | |
| `ClientKeys` | the row and the cached copy of one client key, and the calls that use them | |
| `ProviderKeys` | the table of provider keys, its audit log, the calls that change it, the keys the server loads | |
| `RequestLog` | channel, consumer and table of the request log | |
| `Service` | chat requests with the response cache, streams, and the end of the process | `RequestLog` |
| `UsageLedger` | usage administration and reports over the stored records | `RequestLog` |
| `StreamSource` | the goroutine of a provider's stream, the channel, the handler's loop | |
| `RouterProofs`, `GatewayProofs`, `BatchQueueProofs`, `ClientKeysProofs`, `ProviderKeysProofs`, `ServiceProofs`, `UsageLedgerProofs`, `StreamSourceProofs` | theorems | the module they are named after (`RouterProofs` begins with the breakers of `ProviderPool`); `GatewayProofs` uses `RouterProofs` |
| `MCRouter`, `MCGateway`, `MCBatchQueue`, `MCClientKeys`, `MCProviderKeys`, `MCService`, `MCUsageLedger`, `MCStreamSource` | instances for TLC | |

Definitions whose comment begins with "Faulty:" are wrong variants of the definition that follows
them. No specification uses them; they serve to show that a property notices the mistake
(`PROJECT.json`, "mutants").

### Correspondence to the code

**CircuitBreaker, ProviderPool.** Every breaker method runs under one mutex, hence is one step.
`lastFailureTime` appears as the number of ticks since the last failure, saturated at the recovery
timeout, because only "has the timeout passed" is asked. Thresholds may be any integers, as the
configuration file is not validated; `NewSemaphore` replaces a limit below one by one. Providers
without an entry in `fallback_global.yaml` have neither breaker nor semaphore. `streak`, the run
of equal outcomes recorded last, is a history variable for the refinement only.

**Router.** A call `<<r, i>>` is the attempt of request `r` at its `i`-th target; its `pc` says
where in `tryProvider` or in the goroutine of `executeFastest` it is. The actions are the points
where other goroutines can interfere: ask the breaker and look up the registry (one step, since
the registry is fixed after start), acquire, return from `Chat` and record the outcome (merged:
nothing observable lies between them), send, release. `Advance` is the loop body of
`executeSequential`, `Collect` that of `executeFastest`, `Drain` its clean-up goroutine.
`FallbackUsed` of the response is `winner > 1`. When a request is answered and its goroutines are
gone its identifier serves another request (`Retire`), so behaviours are unbounded with finitely
many identifiers. `Execute` without a policy means `on_error`.

**Fallback.** The code looks for fragments in the error text. An error is represented by its kind,
one kind for each combination of classes a text can fall in (a `504 Gateway Timeout` is both a
server error and a timeout).

**Stream.** The order of the code is kept: slot before registry lookup, release by hand on the two
early error paths and by `defer` on the third, outcome recorded when the channel has ended.
`Eager` is the set of providers whose `ChatStream` may return an error itself; the handler has
that path although none of the five providers uses it, as all of them report errors in the
channel. The handler's path without a router is not modelled.

**BatchQueue.** Each Redis command or pipeline is one step. `processItem` is the sequence read,
mark, track, run with backoff, complete or fail, clear. A command may fail without effect
(`RedisFails`; always so while the consumer's context is cancelled), or take effect and lose its
reply (`LostReply`): go-redis retries three times by default, which doubles an `LPUSH` and loses
the item of a `BRPOP`. The producer runs under the context of the HTTP request and may fail at any
command. A crash keeps Redis and nothing else; `Crash` is possible while stopping because `main`
returns when the listener is closed (`cmd/ezai/main.go:243-255`), without waiting for
`Consumer.Stop`. The 24-hour expiry of job hashes and items that are not valid JSON (the producer
writes none) are left out.

**ClientKeys.** One `client_id`, since keys share nothing. A call is one request; the SQL
statements and Redis commands it makes are its steps. Secrets are numbered in the order of
generation, hashing is injective. Expiry is kept as time left, which ages in the row, in the
cached copy and in the copies calls hold. With `Faults`, any statement or command may fail: a
failing `GET` reads the database, failing `SET` and `DEL` are ignored as in the code. That also
covers the service without Redis (`redis == nil`), and a process that dies between changing the
row and invalidating the cache. `revoked` and `late` are history variables of one property. The
audit records that the handlers write at the end are left out.

**ProviderKeys.** The database is shared by the server (pool of one connection) and the command line tool;
each statement, and the transaction of `Rotate`, is one step. The id of a key is its position, as rows are
never deleted. Values and their encryption are left out. `Create` takes the time before it looks for the
key, and takes an error of the SELECT for "no such key". `updated_at` has seconds, so the newest active key
need not be unique: `Register` takes any. The server registers provider by provider, so calls may fall in
between. `Restart` ends the API calls under way at whatever statement they are; a command line call dies
like one whose next statement fails. `changes` and `hurt` are history variables, as is `since`: the keys
changed after the server read the one it loaded, which is emptied at every read, so that it excuses nothing
that was changed before. The INSERT in `Rotate` has the provider and the name of the row it replaces, which
is only deactivated, so in every reachable state it violates `idx_keys_provider_name` and the transaction is
rolled back: the branch in which a rotation succeeds is in the model as in the code, and never taken.

**RequestLog.** `Write` is a non-blocking send, part of the handler's step; on the closed channel
it panics, which the composing module models. An iteration of `consume` has three steps: `Take`,
`Stamp` (`insert` reads the clock) and `Insert` or `InsertFails`. Between the last two the statement waits
for the only connection of the pool, which an archive may have; the row carries the earlier date.
`dropped` and `failed` are history.

**Service.** A chat request looks up, executes, logs and saves, in this order; a stream executes and logs. A
query is a prompt (provider, model, messages, maximal tokens), a temperature, and whether it uses grounding
or is a stream. `buildKey` writes the fields one after the other, a NUL byte between them, so a prompt is
the text between its NUL bytes together with which of them separate fields; the key has only the text. A
temperature counts ten-millionths and is printed with six decimals (`Printed`); `top_p` is treated in the
same way and goes with it. The hash is injective. An answer is represented by the query it was made for.
`Execute` stands for `Router.Execute` or the relay (see `Router`, `Stream`). Requests refused for their form
write no record and are left out, as are the fallback list and the policy, which are not part of the cache
key. `Shutdown` has one action per numbered step of `Server.Shutdown`; `main` returns, closes the database
and exits beside it.

**UsageLedger.** A row carries client, status, cost (0 or 1) and date. Archive, reset and delete are
transactions on the only connection, hence one step each; a line of the summary that is there already
violates the unique index and rolls the archive back. A report is two statements. A report's numbers are
represented by the ids of the rows they count. Periods, the other filters and groupings only narrow or
partition the rows. An archive is `TooEarly` when a row of a day it took in may still come: the day is not
over, or the record in hand is dated and not stored. `sent`, `kept`, `erased`, `waived`, `refused`, `early`
are history.

**StreamSource.** The provider sends a fixed sequence of events, each with text, usage, both or
neither, and then ends or breaks the stream, or stops sending at any point. The `select` of every send is
`Send` and `GiveUp`; `Receive` looks at the context before the event, as the loops do. The five
goroutines differ in the chunks they make of an event and in how Gemini learns of errors. gin's
`Context.Stream` looks for a client that left between two chunks, and blocks in the step function. The handler
sets a write deadline (`stream.go:270`). Its passing (`DeadlinePasses`) ends nothing, but the next write fails
(`Write`): the piece is lost, net/http cancels the context of the request, and the loop, which ignores
errors of writing, goes on although the client is there. `ctxDone` is set by that, by a client that leaves
and by the handler's return.

## 3. Runs

Every run finishes within three minutes on two cores.

| Run | Instance | Shows |
|---|---|---|
| `router` | 2 requests, sequential (default policy, `on_timeout`) or racing, chains of 2 over a provider with one slot and a timeout, one without configuration and an unregistered one; errors that both policies, one or none cover | `TypeOK`, `SlotsAccounted`, `SequentialDiscipline`, `AnswerFaithful`, `BreakersKeepPromise` |
| `gateway_shared` | 1 chat request and 2 streams, one slot, thresholds 2, a target without a key, a target without configuration | `GatewayTypeOK`, `SharedSlotsAccounted`, `BreakersKeepPromise` |
| `gateway_liveness` | 1 request (sequential or racing) that names one provider twice, and 1 stream, over its one slot (a limit of 0 counts as 1), with fairness | `EverybodyServed`, `EverySlotReturned` |
| `batch_safety` | 2 jobs, 2 workers, 1 retry, an outage, a failed command, a lost reply | `TypeOK`, `ItemInOnePlace`, `OwnerKept`, `WorkersKeepAnswers` |
| `batch_liveness` | 2 jobs, 1 worker, 1 retry, 2 outages, a failed command, a lost reply, with fairness | `AcceptedJobSettles`, `TrackedJobSettles` |
| `client_keys` | 2 calls at a time, 2 secrets, lifetimes up to 2, cache TTL 2, any command may fail, with fairness | `TypeOK`, `ExpiryHonoured`, `RevokedRowUntouched`, `DecisionsConverge` |
| `client_keys_revoked` | 2 calls, 1 secret, no failures | violates `RevokedAtOnce` |
| `provider_keys` | 2 calls, 2 providers, 2 names, an empty database or one key, a failing statement, a restart | `TypeOK`, `OneRowPerName`, `FailedCallChangesNothing`, `ChangesAudited`, `LoadedKeyKnown` |
| `service` | 2 requests out of 5 queries, a buffer of 1, a failing INSERT, the signal at any time, with fairness | `TypeOK`, `AnswersRecorded`, `HitMatchesRequest`, `PanicOnlyAfterTimeout`, `AcceptedRecordSettles` |
| `shutdown_flush` | the same without failures | violates `ShutdownFlushes` |
| `usage_ledger` | 2 requests of 2 clients over 2 days, every operation allowed | `TypeOK`, `UsageConserved`, `PastArchivesSucceed`, `OwnUsageOnly` |
| `provider_stream` | 5 providers, every sequence of up to 3 events, a channel of 1, a write deadline that may pass, with fairness | `TypeOK`, `RelayExact`, `VerdictFaithful`, `HandlerReturns`, `SourceEnds` |

### Bounds, and why they are enough

* `gateway_liveness` gives a request both its targets on the provider whose only slot the stream may hold:
  racing, its two calls wait for each other and for the stream.
* Two requests suffice for the races at a semaphore and a breaker: one holds or reports while the
  other waits or is admitted. Chains of two contain every transition of the fallback loop (go on,
  stop by policy, stop at the end, stop because the client left). Identifiers are recycled, so
  late outcomes of earlier requests meet all later ones. Thresholds of two in `gateway_shared`
  make the counters matter; the theorems cover every threshold.
* The recovery timeout of one or two ticks distinguishes "not yet" from "passed".
* Two jobs and two workers give duplicates, reordering, and a reaper that handles one job while
  another changes; one retry gives the first, the last and the exhausted attempt. `MaxOutages`,
  `MaxRedisErrors` and `MaxLostReplies` bound the environment; one of each combines them pairwise, and
  what the code loses is lost by one or two of them together. The second outage of
  `batch_liveness` hits the reaper that repairs the first.
* Two calls are the validation and the change that overlaps it; calls are recycled, so the request
  that profits from a stale copy is a third one. Two secrets are "current" and "previous". A TTL
  and lifetimes of two let the cached copy outlive the row's expiry and the other way round.
* Two calls over the provider keys are the two that race between SELECT and INSERT, or between a
  rotation and what it read; a row to begin with gives them something to rotate at once. One failing
  statement meets every step, two seconds tell old from new.
* Two requests and a buffer of one give a full buffer with and without a consumer at work, a second
  request that finds, misses or overtakes the cache entry of the first, and a handler that is still
  running at each step of `Shutdown`. The first three of the queries have one key: two messages; one message
  with NUL bytes and a temperature that differs in the seventh decimal; and the first with grounding. The
  fourth differs from the first in the sixth decimal and has another key; the fifth is a stream.
* Two records over two days give two rows of a group, two groups, a row that arrives after an archive of its
  day, of the day before, or between its date and its INSERT. Cut-off dates go to the day after the last
  one.
* Three events and a channel of one chunk (the code has 32) let the goroutine block on a full channel with
  chunks left, and put usage and text before, in and behind one another.

Symmetry is used only in runs without liveness properties. Deadlock is checked except in the batch
runs, where the system may rest once every job is settled, and in the runs of `ProviderKeys`,
`Service`, `UsageLedger` and `StreamSource`, whose calls, requests or stream come to an end.

### Fairness

* Router and streams (`GatewayFairness`): goroutines run, and a chat call returns, made to by the configured
  timeouts and those of the HTTP clients. Streams have neither (`stream.go:192`), so a stream that is with
  its provider (`WithProvider`) is under no fairness unless its client has left. A silent provider can keep
  a stream and its slot for ever, and `EverybodyServed` has the premise `StreamsMove`, that this does not
  happen; `EverySlotReturned`, about chat calls that hold a slot, needs no such premise. Waiting for a slot
  needs strong fairness: the slot is free again and again, but not continuously. Go serves blocked senders
  of a channel in order, so nobody is overtaken for ever. Nothing is assumed of clients: they need not send,
  and need not disconnect.
* Batch (`Fairness`): workers, the reaper and accepted enqueues proceed, time passes, a process
  that went down is started again (by its operator; the recovery the reaper promises presupposes
  it). Jobs need not be submitted.
* Client keys: a handler that runs goes on to its end, and time passes.
* Service: handlers, the consumer of the log, `Shutdown` and `main` go on while the process is
  alive. Nobody has to send the signal.
* Streams of providers: both goroutines run, and a call of an SDK returns when its context is cancelled.
  Nothing is assumed of the provider, which may go silent for ever, or of the client.

### Where the code falls short

Two runs show a documented promise broken.

* `shutdown_flush`: `ListenAndServe` returns as soon as `Shutdown` closes the listener, and `main`
  with it, while the goroutine of the signal still waits for requests, consumer and log. The process
  exits with records of answered requests in the buffer, and possibly with requests unanswered.
* `client_keys_revoked`: a revoked key is accepted again, for up to the cache's TTL, when a
  validation that read the row earlier fills the cache after the invalidation.
  `DecisionsConverge` shows the TTL to be what repairs this.

Other behaviour of the code that the models contain, and a maintainer should know of:

* Rotation of a provider key always fails (see `ProviderKeys` above; `keystore.go:257`), through the
  API and the command line. `FailedCallChangesNothing` shows that the old key stays active.
* `Allow` admits every request while half-open (`circuitbreaker.go:83`), although the comment at
  line 16 speaks of a limited number. `half_open_requests` is the number of successes that close the
  breaker, not a limit.
* Streams fall back only if `ChatStream` returns an error, and no provider's does (`stream.go:201`).
* The reaper saves "failed" over a job that completed after it listed the job (`consumer.go:307`);
  `WorkersKeepAnswers` names the reaper as the only exception.
* `Consumer.Stop` cancels the context under which the answer would be saved (`consumer.go:75`); the
  job is left in processing until the reaper of the next process finds it (`TrackedJobSettles`).
* `Update` of a key that does not exist succeeds and is audited (`keystore.go:179`).
* An archive up to a date that is not over makes the next one that meets the same day fail, as a whole,
  until the rows are removed otherwise (`PastArchivesSucceed`); the date is not checked. An archive of a
  finished day has the same effect if it gets the connection between the `time.Now` of a record of that day
  (`requestlog.go:129`) and its INSERT.
* Reports read the detailed rows only, so archived usage disappears from them; total and breakdown
  of one report are read one after the other.
* Different queries can share a cache entry: temperatures that agree in six decimals (`cache.go:83`), and
  messages that hold NUL bytes, which the separators of `cache.go:67` are then mistaken for.
  `HitMatchesRequest` says up to what the queries agree.
* A batch job can be lost without an outage. A result that cannot be saved leaves the job in the sorted set
  for the reaper; but when `failJob` cannot save the failure and then clears the job (`consumer.go:240`), it
  stays "processing" for ever (`FailureLost`), and so does the item of a `BRPOP` whose reply is lost, as
  "pending" (`ItemLost`). A second delivery after a lost reply of `LPUSH` can set a job that the reaper is
  about to clear back to processing, and a crash then loses it.
* A stream has no timeout of its own (`stream.go:192`): a silent provider keeps handler and slot as long as
  the client stays. Its write deadline does not end it either as long as nothing is written.
* After the write deadline a stream goes on unnoticed until a write fails; then the cancelled call's error is
  recorded as a failure of the provider, or, when Gemini just closes or `ctx.Done` wins the race, a stream cut
  short as a success, while the client is there. `VerdictFaithful` is stated up to the deadline.
* A hit in the cache is recorded with tokens and cost of the answer it repeats.
* Gemini's stream ends with the first event that counts output tokens, and text in later events is
  not relayed (`gemini.go:197`). `RelayExact` is stated up to that event.
* For a client that left, the race between the error chunk of the cancelled call and `ctx.Done`
  decides whether the breaker counts a failure of the provider.

The premises of passing properties are limits of the same kind. `OwnerKept` holds only while no
command fails: when the read of the job fails, the worker goes on with an empty owner and saves it
(`consumer.go:136`). `WorkersKeepAnswers` and `ItemInOnePlace` hold only while no reply is lost:
an item pushed twice is processed by two workers at once, since the guard against duplicates looks
only at settled jobs. `TrackedJobSettles` begins with the sorted set: a crash after `BRPOP`, or
between the two commands of `MarkProcessing`, leaves a job that no reaper sees. A call cancelled
by its client counts as a failure of the provider (`router.go:170`), so clients that leave can
open the breaker of a healthy provider.

## 4. Proofs

Eight modules hold theorems, all checked by TLAPS, for every value of the constants. Assumptions, which TLC
evaluates in every run of the modules they are in: `BreakerConfig` (thresholds are integers, the recovery
timeout a natural number), `PoolConfig` (sets of providers, limits are integers), `RouterConfig` (finitely
many requests, chains of length 1 to `MaxTargets`), `StreamConfig` (the same for streams), `BatchConfig`
(finitely many jobs and workers, the bounds are natural numbers, the absent job is none), `KeyConfig` and
`NoKeyIsNoRow` (the bounds are natural numbers, the absent key is not a row), `ProviderKeyConfig` (the
default name is a name, environment keys belong to providers, natural bounds), `RequestLogConfig` (the
buffer has room), `QueryConfig` (queries are records, and there is one), `LedgerConfig` (outsiders are
clients, there is a day), `AllIsNoClient` (no client has the empty `client_id` that stands for everybody;
creating a key requires one) and `SourceConfig` (the channel has room, the providers are the five there are,
and an event of Claude's carries text or the usage but not both, since each is a type of event of its own,
`claude.go:126`). Each proof has an inductive invariant, which TLC checked on the instance of the
corresponding run before it was proved. The properties themselves are seldom inductive, and each bullet says
what has to be added.

* **`RouterTypeCorrect`**: `Spec => []TypeOK`. The section on the breakers supplies that each
  breaker operator and each pool method keeps types.
* **`RouterSlotsAccounted`**: `Spec => []SlotsAccounted`, for every number of requests, targets,
  providers and slots. `SlotsAccounted` alone is not inductive: starting a request changes
  `targets`, and with it the set of holders, unless the idle calls of an idle request are known to
  hold nothing; a call that has "released" must have had a slot. `SlotInv` therefore adds
  `Structure`, which ties each call's location to its request's phase and its target. The
  counting argument is stated once (`Balance`): an action adds one call to the holders of one
  provider and takes one slot, or removes one and gives one back, or changes neither; the
  cardinality of a finite set with one element more or less does the rest.
* **`RouterBreakersKeepPromise`**: `Spec => BreakersKeepPromise`, the router's breakers implement
  `AbstractBreaker` for all thresholds and timeouts. The invariant `BreakerInv` relates the code's
  counters to the history: while closed, `failureCount` is the length of the run of failures (up to
  saturation), while half-open, `successCount` is covered by the run of successes. Each router
  action then maps to `Succeed`, `Fail`, `Probe`, `Tick` or a stutter (`AbstractStep`).
* **`RouterSequentialDiscipline`**, **`RouterAnswerFaithful`**: both follow from `AnswerInv`, which says
  of every request, whatever the others do, where its calls are. `Loop`: a sequential request has a
  prefix of its chain behind it, each of whose calls ended in a way that let it go on (but for the one
  it stopped at), at most one call under way, and nothing begun behind that. `Race`: the result channel and
  the list of attempts of a racing request are without repetitions and disjoint, and a call in either has
  nothing left to do but give its slot back, so its outcome cannot change any more. `Verdict`: only the
  last attempt of a request that succeeded was a success.
  A step of one call or request leaves the facts of every other request alone (`RequestFrame`), so
  each action is looked at for its own request only.
* **`GatewayTypeCorrect`**, **`GatewaySharedSlotsAccounted`**, **`GatewayBreakersKeepPromise`**: the same
  for requests and streams over one pool. The counting argument of the router is applied to the sum of
  two sets of holders; the steps of a stream, whose points of acquisition and release differ
  from the router's, are shown to gain or return a slot of their own provider or to leave the slots
  alone, and to reach the breakers only through the pool's methods. The theorems about the router
  do not apply directly, since `Router` has no streams; its step lemmas do.
* **`BatchTypeCorrect`**, **`BatchItemInOnePlace`**, **`BatchOwnerKept`**, **`BatchWorkersKeepAnswers`**: for
  any number of jobs, workers, retries, outages, failures and lost replies. `BatchInv` adds what the
  code relies on silently. `Placed`: a worker has an item exactly while it processes one. `Saved`: only
  jobs with a hash are queued, processed or watched, so nobody saves a job without an owner by reading
  a hash that is not there. `Owned`: a read that failed because of `Consumer.Stop` leaves
  a worker or the reaper without the owner, but then nothing it saves succeeds; the process that starts
  next has no such goroutine. `OnePlace`: the queue has no repetitions, and what a worker has is neither in
  the queue nor with another. `Unanswered`: the job of an item that is queued or under way has no answer,
  which needs `OnePlace`, since otherwise another worker could have completed it.
* **`KeyTypeCorrect`**, **`KeyExpiryHonoured`**, **`KeyRevokedRowUntouched`**: for any number of
  concurrent calls, secrets, lifetimes and any TTL. `KeyInv` says that a copy of the row, in the
  cache or in the hands of a call, may be old but not wrong about itself (`CopiesFaithful`: its
  secret was issued, and as long as it is the row's secret it carries the row's expiry), and that
  a call past the point where it saw the row can rely on it (`Knowledge`). It is inductive because
  rotation keeps the expiry, and because creation and reissue, which set one, use a secret that no
  copy carries.
* **`ProviderKeyTypeCorrect`**, **`ProviderKeyOneRowPerName`**, **`ProviderKeyFailedCallChangesNothing`**,
  **`ProviderKeyChangesAudited`**, **`ProviderKeyLoadedKeyKnown`**: for any number of calls, providers, names,
  failing statements and restarts. `OneRowPerName` rests on the unique index alone; the others need
  `Informed` (what a call has found out when it comes to a statement; an id once seen stays good because
  rows are only added and keep provider and name) and `Accounted` (before its changing statement a call has
  changed nothing; after it, every key it changed is in the audit log or still to be recorded).
  `LoadedKeyKnown` is inductive with `since`: a step that changes a row puts it there.
* **`ServiceTypeCorrect`**, **`ServiceAnswersRecorded`**, **`ServiceHitMatchesRequest`**,
  **`ServicePanicOnlyAfterTimeout`**: for any number of requests, queries, failing INSERTs and any buffer.
  `ServiceInv` has `Placed` (the five places of a record are disjoint, and together hold the records
  of exactly the requests that have been through `Write`), `AnswersMatch` (a cached answer was made for a
  query of its key that does not use grounding; that is why the key can leave grounding out; `KeyTells` says
  what two queries of one key have in common) and
  `ShutdownOrder` (the channel is closed, the consumer ended and no request in flight exactly as far as
  `Shutdown` has come, unless it gave up waiting).
* **`LedgerTypeCorrect`**, **`LedgerPastArchivesSucceed`**, **`LedgerOwnUsageOnly`**: for any number of
  requests, clients and days. `LedgerInv` has `InOrder` (as long as no archive was too early, every summary
  line is older than today, than every row and than the record that is dated and waits for its INSERT, so
  that no group can come up twice), `Dating` (a date is never in the future, and records in the channel have
  none yet), `Distinct` (ids are used once from channel to table, and a row
  left over by resets and deletions belongs to the client it was stored for) and `Reported` (a
  report counts what was stored when it was made, so that later records cannot fall under it).
* **`LedgerUsageConserved`**: for every client and day, and any number of them. `UsageConserved` speaks
  of sums, which do not tell a step what it may take away; `Accounts` says instead what the two tables
  hold: every row is a stored record (without its cost, if that was reset), and a line of the summary counts
  just the records of its group that are `Gone`, neither in the table nor deleted. An archive is the
  only step by which records go; it finds no line of their group, so nothing of it was gone before and
  the new line counts all of it. Insertions, resets, deletions and archives that fail leave
  `Gone` as it is (`NothingGoes`). Rows and records are counted against each other by a bijection
  (`Matched`), so that no sum over lines is needed.
* **`SourceTypeCorrect`**, **`SourceRelayExact`**, **`SourceVerdictFaithful`**: for scripts of any length
  and any capacity of the channel. `SourceInv` follows the pieces of text through `todo` and the channel to
  the client: `InOrder` (each is behind the one before it, and only the last chunk is behind all),
  `Complete` (while the goroutine works, what passed it are just the wanted pieces of the events it read,
  but for the one in its hand; a last chunk in the channel keeps that true for good; past the deadline, when
  written pieces get lost, they are some of these) and `Ending` (a last chunk is justified by how the
  provider ended, the goroutine ends without one only under a cancelled context, and while the handler runs
  the context is cancelled only if the client left or the deadline has passed). So a client that stayed can
  rely on a last chunk before the deadline.

Only model-checked:

* the liveness properties, since fairness is out of the prover's reach;
* the two violated promises, of course.

No module declares a RECURSIVE operator.

## 5. Plan

Done: breaker, pool, router, streams and their composition, batch queue, client keys, provider keys, request
log, cache and shutdown, usage administration and reports, provider streams, each with proofs of all its
safety properties that hold.

`Stream` lets a relay end with or without an error as it pleases (an error needs a failing provider or a
client that left; the failed write of a stream past its deadline counts as a fault). Which of the two it is,
`StreamSource` shows for one stream at a time: its `VerdictFaithful` justifies that guard up to the
deadline. The two are not joined in one module, since the pieces of text of several streams would multiply
the states without meeting one another.

### Not modelled

* Rate limiting: one call of a limiter library per request, whose error lets the request pass; trusted
  networks: a pure check of an address.
* Prompts, pricing, configuration: file loading, text templates and table lookup, without state that
  several actors change.
* Cryptography and secret generation (assumed injective and fresh), SQL migrations, read-only lists,
  formatting of provider requests and answers, logging.
* The handlers' path without a router, which `main` takes only without `fallback_global.yaml`.
