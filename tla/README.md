# Verification of idp-sdk

TLA+ models of the packages of this repository that keep state across steps, with TLC runs that
check them on small instances and TLAPS proofs of the properties that matter most. Paths are
relative to the repository (`src/`); a line number is a line of the file at this commit.

The repository is a toolbox: independent packages that a service composes. Most of them are
short, and what is hard about them is not in their lines but between them: a reply that is lost, a
process that dies between two commands, a connection that goes away while another goroutine is
about to use it, a library that reports an end in the same way as a failure. The tests that would
reach this do not exist in the repository, so the models are about these steps.

## Inventory

| Component | State it keeps | Operations | Talks to | What is hard | What makes it correct |
|---|---|---|---|---|---|
| Redis lock `cache/redis/redis.go:69-81` | the key in Redis with its TTL | `Lock`, the release function | other callers, through Redis | expiry under a slow holder, repeated and late commands, crashes | mutual exclusion; a dead holder never blocks for good |
| JSON cache `cache/redis/redis.go:50-67` | values in Redis | `GetJSON`, `SetJSON` | Redis | nothing of its own | - |
| Rate limiter `ratelimit/ratelimit.go` | one counter per window in Redis | `Allow`, `GinMiddleware` | Redis, the clock | three commands per call that interleave, lost commands, clock skew | never more than the limit; nobody rejected too early; counters expire; a useful Retry-After |
| RabbitMQ client `messaging/rabbitmq/rabbitmq.go:39-145` | `conn`, `ch`, `closeCh`, a goroutine | `New`, `Close`, `Publish`, `Check`, the reconnect loop | the broker; publishers through `c.mu` | loss at every step of a reconnect, Close at every step, channels that fail alone | it reconnects; it stops; it leaves nothing open |
| RabbitMQ consumer `rabbitmq.go:154-194` | a subscription, unacknowledged deliveries | `Consume` | the broker, other replicas, the client above | loss between handler and Ack, cancelled calls, exclusive queues | nothing acknowledged unhandled, nothing lost, everything delivered |
| Kafka consumer `messaging/kafka/kafka.go:98-119` | the position of a reader, the group's offset | `Consume`, `Close` | the group, other replicas | crash, rebalance and failing commits between fetch, handler and commit | at-least-once delivery |
| Kafka producer `kafka.go:33-67` | the library's batch | `Publish`, `Check` | the brokers | retries against order | order per key |
| Postgres `database/postgres/postgres.go` | transactions, a pool | `WithTx` | the server, other callers through the pool | panics, Goexit, failing Commit and Rollback, contexts that end | nil means committed; all or nothing; no connection is kept |
| Health registry `health/health.go`, `health/middleware_gin.go` | the checkers | `Register`, `Check`, the routes | every other component's `Check` | registrations and outages during a probe, checkers that hang | a probe tells the truth, and ends |
| Server lifecycle `server/server.go:71-129` | the http.Server, a goroutine, a signal | `New`, `Run` | the process, net/http, clients | signals, listen errors and traffic in every order | drains what it serves; ends when it is told to |
| Middleware chain `server/server.go:71-91,131-159`, `logging/middleware_gin.go` | the request's context | request ID, recovery, logging, auth, rate limit | each other, through gin | aborts and panics in a chain | every request is answered |
| NATS `messaging/nats/nats.go` | streams and durable consumers on the server, what a client has received | `EnsureStream`, `ConsumeDurable`, `PublishJS`, `Close`; `Publish`, `Subscribe` | the server, other replicas | releases that start together, redelivery against a handler that still runs, publishes whose confirmation is lost, stopping in the middle | at-least-once delivery; nothing repeated without need; a consumer that comes up |
| HTTP client `database/httpclient/httpclient.go` | the attempts of a call | `Do`, `Get` | the called service, the caller's context | late answers against retries, bodies sent again, cancelling while it waits | only failures are repeated; responses are closed; a bounded time |
| Authentication `auth/` | the configuration, cached keys, Claims in a request's context | `New`, `Validate`, `RequiredAuth`, `OptionalAuth`, `RequireRoles` | the identity provider, gin | key rotation, revocation, clocks that differ, answers late or never, claims of any shape | who is served had a good token and a role that was given; who is denied is denied for a cause; everybody is answered |
| ClickHouse `database/clickhouse/clickhouse.go` | a batch | `BatchInsert` | the server | a batch that is not sent | - |
| Config `config/` | the struct that is filled | `Load`, `MustLoad` | the environment, `main()` | tags in combination, empty variables, narrow numbers | every field has what its variable or default means, or the service does not start |
| Observability `observability/observability.go` | the batcher's spans, providers, one connection | `Setup`, `Providers.Shutdown` | the collector, the server's requests | the order of the shutdown, a collector that is away | spans of answered requests survive the shutdown, if the batcher has room |
| Errors, validation, logging, migrate | none, or the library's | pure functions and wiring | - | - | the documented mapping |

## Modules

| Module | Models | Proofs |
|---|---|---|
| `Mutex` | abstract specification of a lock: a set of callers inside, never more than one | |
| `RedisLock` | `Lock` and release; implements `Mutex` | `StoreProofs` |
| `RateLimit`, `MCRateLimit` | `Allow`, `GinMiddleware` | `RateLimitProofs` |
| `RabbitMQClient` | `New`, `connect`, `reconnectLoop`, `Close`, `Publish` | `RabbitMQProofs` |
| `AtLeastOnce` | abstract specification of a consumer: settled only after a handler has succeeded | |
| `RabbitMQConsumer` | `Consume` by replicas on one named queue; implements `AtLeastOnce` | `RabbitMQProofs` |
| `KafkaConsumer` | `Consume`, `Close` by replicas of a group; implements `AtLeastOnce` | `KafkaConsumerProofs` |
| `NATS` | `EnsureStream`, `PublishJS`, `ConsumeDurable`, `Close` of package `nats`; implements `AtLeastOnce` | `NATSProofs` |
| `HTTPClient` | `New`, `Do` of package `httpclient` | `HTTPClientProofs` |
| `PgTx` | `WithTx` on a pool | `StoreProofs` |
| `HealthRegistry` | `Register`, `Check`, the readiness route | `ServiceProofs` |
| `Config` | operators for the loader of package `config`, and what its documentation asks for | `ServiceProofs` |
| `Server` | `Run` and the traffic it serves | `ServiceProofs` |
| `Service` | a whole service: `Config` loads, `Setup` of package `observability`, `Server` runs, `Providers.Shutdown` | `ServiceProofs` |
| `Auth`, `MCAuth` | package `auth` inside the middleware chain | `AuthProofs` |

**RedisLock.** A caller goes from "idle" over "setnx" (the command is on its way), "ok" or "taken"
(Redis has executed it and the reply is on its way) to "held", and back over "del" and "done".
`key` and `ttl` are the key in Redis, `lease` what is left of the TTL a caller was granted.
`Resend` is the retry of go-redis, which the repository uses with its defaults, `GiveUp` an error
or a crash, `Late` a command that Redis executes after its caller has moved on. Redis stores the
same value for everybody; `key` names the caller it stands for only so that properties can speak
about it. The abstract `inside` is the set of callers whose lease runs and whom nobody robbed.

**RateLimit.** One action per Redis command: `Incr`, `Expire`, and `Answer` for TTL and the
decision. `Shows` is the window number of line 41, taken from the clock of the caller's replica
before the first command. `IncrLost` and `ExpireLost` are commands that Redis executed and whose
reply did not come, `Fail` one that was not executed, or a dead process; in both cases the
middleware lets the request through. A tick is a fraction of a second (`Second` of them make one),
because Redis keeps expiries to the millisecond while windows change at whole seconds; `Seconds` is
what TTL, go-redis and the header make of a remaining life: the nearest second. `stray` and
`disturbed` are histories: windows that an INCR reached late, and windows in which something failed.
`MCRateLimit` adds the symmetry of the calls.

**RabbitMQClient.** `pc` is the goroutine of the loop (and, before it exists, `New`), `closing`
the goroutine in `Close`, `pub` the publishers. Critical sections of `c.mu` are one step, except
that of `Close`, which talks to the broker inside. `Register` is NotifyClose with its two cases.
`Lose` and `ChannelException` are what the broker and the network do. `Down` is what `Check`
reports: it reads the connection, and not the channel, so a channel that the broker has closed alone
is not down. The histories `down` and `excepted` tell the two apart: publishers whose Publish saw
the client down, and open connections whose channel was closed alone.

**RabbitMQConsumer.** `inbox` is what the broker has sent to a subscription and nobody has
acknowledged, `stuck` what it has sent to a subscription whose Consume has returned: nothing in the
code cancels it. `current` tells whether the channel that Consume read at its start is still the
open one. `durable` is chosen in Init, so both kinds of queue are checked in one run. Connections
come and go as RabbitMQClient lets them.

**KafkaConsumer.** `pos` is the position of a reader, which moves when it fetches, `committed` the
offset of the group. A rebalance (`Assign`) may happen while the old owner works on a message.
`Reuse` says whether Consume is called again on a reader after an error.

**AtLeastOnce** has two variables: what handlers have succeeded with, and what the broker will not
deliver any more. The three consumers instantiate it with their own: acknowledged messages, the
entries of a stream that are acknowledged, the messages below the group's offset. Unsettling is
allowed, because an offset can move back.

**NATS.** `pc` is a replica from `EnsureStream` over `ConsumeDurable` to `Close`; whatever fails
ends the service, which is started again. `Old` are the replicas of the release before, whose
stream has another configuration. An entry of the stream goes from `avail` to a client (`buf`), its
handler (`hand`) and its acknowledgement (`acking`); what is in none of these and not acknowledged
waits for the AckWait on the server (`AckWait`), and so may an entry that a client still has. `Ack`
and `Nak` are what the server makes of them, whoever has the entry by then. An Ack is published and
nobody waits for it, so the next handler may run while several are on their way. `net` holds published
messages that may be stored late. The server does not forget: the stream is on disk.

**HTTPClient.** One call of `Do` from its first attempt to its return. `flight` holds attempts that
may still reach the service, `executed` those that did, and `failed` those that the client has seen
fail; they overlap. `Continue` is the `continue` of the loop with the head of its next turn.
Time is counted in ticks and passes only while the client waits; a cancelled context leaves it
nothing to wait for.

**PgTx.** `FnEnds` covers every way fn can end, `Deferred` is the deferred function, `CommitFails`
the three meanings of an error of COMMIT. `tx` is the truth on the server.

**HealthRegistry.** The read and write lock, one goroutine per checker, and dependencies that go
up and down. `taken` is what a probe has copied out of the registry's map, `Stubborn` the checkers
that ignore their context.

**Server and Service.** `main` is the goroutine in `Run`, `listener` the one it starts; signals come
before NotifyContext, while Run asks for them, and after Run has given them back (`Notified`): the
first and the last end the process, the ones in between end Run, and a second one changes nothing.
`conn` are the connections that net/http serves. `SelectSignal` to
`ShutdownReturns` or `ShutdownExpires` is the shutdown; `Exit` is the end of `main()`, which cuts
off what is still served. `Service` puts Run into the `main()` that the packages' documentation
describes. `MustLoad` is one turn of the loop of `loadStruct` per step, on every environment that
tells the outcomes of the fields of `Schema` apart; it ends the process at the first error. `Setup`
succeeds only with OTEL_EXPORTER_OTLP_INSECURE, without which the connection has no transport
credentials, and may fail whatever the configuration. A request that is answered may end a span
(`EndSpan`): whether it has one is for the caller's span to say, or for the ratio. The span waits in
the batcher for `Export` or for the first step of `Shutdown`, unless `QueueSize` of them wait
already and it is dropped. `ServerConfig`, `PostgresConfig` and
`OTelConfig` keep one field of each kind and tag: a string, a list, a duration, a narrow integer, a
float, a bool, with a default, required, or neither.

**Auth.** `New` picks a configuration and a discovery document. A request then takes the steps of
the chain: `Request` (request ID, recovery, logging), the authentication of its route (`Verify` with
the cached keys, or `Introspect`, the provider's answer and `Conclude`), `RequireRoles`, the
handler, which writes, returns or panics, and `Answer`. The provider revokes, publishes and
withdraws keys, and its clock runs; the service's clock is `skew` ahead of it. `Refresh` and
`Refetch` are the two ways in which keyfunc downloads keys. The history `good` says whether the
token of a request was acceptable when the request came. Claims are maps, lists and strings, so that
the extractor meets every shape its type switches tell apart. Which roles a token gives is stated
apart from the extractor (`Given`): the first of the documented sources that names any role
(`roles.go:8-14`). Tokens are what the provider issues: signatures that match no key of the provider
are not enumerated.

The modules ending in `Proofs` hold the theorems. A definition named in a comment that begins with
"Mutant" is a plausible bug of the definition below it; PROJECT.json names, for every property, a
mutant that breaks it.

Libraries and servers (go-redis and Redis, amqp091-go and RabbitMQ, kafka-go and Kafka, pgx and
Postgres, net/http, keyfunc and the identity provider) are modelled from how the code uses them and
are marked external in the map.

## Runs

| Run | Question | Answer |
|---|---|---|
| `redislock` | Under lost, repeated and late commands, crashes and leases that run out: is it a lock, who can break it, does a key stay? | The leases that nobody robbed implement `Mutex`; only a stale, repeated, robbed or late DEL robs; a key always goes |
| `ratelimit` | With lost replies, dead processes and clocks that differ: what does a window grant, who is rejected, does Retry-After help, do counters expire? | At most the limit; nobody is rejected early, Retry-After ends less than half a second before the next window or later, unless the EXPIRE is still on its way, and every counter expires, in windows without failures |
| `rabbitmq_client` | With losses and channel exceptions at every step and Close at any time: which publishes fail, what is left after Close, does the loop end, does it reconnect? | Those that saw a loss, a channel that the broker closed, or Close; a connection only after one race; yes; yes after a loss that the loop was told of |
| `rabbitmq_consumer` | Acknowledged unhandled, handled twice without need, never handled? | None, except what is sent to a cancelled Consume or lost with a queue that is not durable |
| `kafka_consumer` | Can an offset pass an unhandled message? Is every message handled, and once if nothing fails? | No; yes, with a new reader after every failure |
| `kafka_reuse` | And if Consume is called again on the same reader? | The failed message is skipped (violation) |
| `pgtx` | nil without commit, failed work committed, connections kept, calls that wait for ever? | None |
| `health` | Can a probe answer 200 although a checker was down all along? Do probes and registrations end? | No; yes, probes if every checker heeds its context, registrations always |
| `service` | Has every field what its variable or default means, or does the service not start? Does nil from Run mean drained? Are the spans of answered requests exported? Does a signal end it? | Yes, also with a handler that hangs, but numbers that do not fit their field; spans unless the batcher was full, or the collector or Shutdown said no |
| `auth` | Who is served, who is denied, who is answered? | Good tokens with a given role; for a cause; everybody |
| `nats` | With two releases, crashes, lost messages and slow handlers: acknowledged unhandled, repeated without need, confirmed and never handled, a replica that never consumes? | None; one of two releases may fail at its first start |
| `httpclient` | What is executed twice, what is left open, when does Do return? | Only what failed in the client's eyes; nothing; within its timeouts and delays, at once when cancelled |

The run `kafka_reuse` ends in a counterexample: it quotes, under "findings" in PROJECT.json, the
sentence of the repository that it refutes. The other findings name the passing run whose model has
the behaviour, and the property that is stated around it. What the properties have to except says
where the code keeps less than its reader may expect:

* release deletes the key of the next holder if its own lease has run out (`redis.go:78`);
* Retry-After is the remaining life of the counter, to the nearest second (`ratelimit.go:53,85`):
  longer than the rest of the window when the window's first call was late, up to half a second
  short of it when that call was early in its second, and 0 until that call has executed EXPIRE; a
  counter whose EXPIRE is lost stays in Redis for good (`ratelimit.go:47`);
* a channel that the broker closes alone is not replaced, since only the connection is watched
  (`rabbitmq.go:83`), and `Check` calls the client healthy while every Publish fails
  (`rabbitmq.go:110`); a Close during a reconnect leaves the new connection open (`rabbitmq.go:72`);
* a connection that is lost between `connect` and NotifyClose is never replaced, because
  NotifyClose yields nil as after Close (`rabbitmq.go:83-91`);
* a queue is not durable unless its `ConsumeConfig` says so, against the comment at
  `rabbitmq.go:151`, and such a one is exclusive and shared by nobody (`rabbitmq.go:162-166`); a
  cancelled Consume leaves its subscription behind;
* fn that ends in Goexit is committed (`postgres.go:83-92`), against `postgres.go:74-75`;
* a checker that ignores its context holds up the whole probe (`health.go:101`), against
  `health.go:37-38`;
* the introspection validator sends the client ID as the secret
  (`introspection_validator.go:33`), so a provider with a real secret refuses it;
* of two releases with different stream configurations that start together, one fails, since
  `EnsureStream` looks and then creates (`nats.go:99-104`); Close does not wait for the drain
  (`nats.go:77`);
* `Do` repeats requests of every method (`httpclient.go:69-95`), so what has been executed can be
  executed again after a timeout, once per retry;
* an integer that does not fit an int32 field is cut off without an error (`config.go:128`), and a
  field without default and envRequired is left at zero (`config.go:84`), although `config.go:6`
  calls it required;
* a batcher that is full drops spans and tells nobody (`observability.go:85`), the error of a last
  export is not in what Shutdown returns (`observability.go:108`), and Setup never succeeds with
  OTEL_EXPORTER_OTLP_INSECURE false (`observability.go:69-76`);
* a signal before NotifyContext, or a second one after Run has returned, ends the process at once
  (`server.go:111-112`), the latter in the middle of `Providers.Shutdown`; New installs no
  per-request timeout although its comment says so (`server.go:68-70`);
* `JWKSRefreshInterval` is not used and `HTTPClient` not for the key set (`jwks_validator.go:27`);
  a provider that does not answer makes every caller unauthorized (401).

### Bounds

Clients, callers, replicas and probes are two or three: the races of this code are between two
parties, and a third (`pgtx`, `service`) shows what they do to a bystander. Faults are not bounded
in number, only by the state they leave:
`MaxRetries = 1` is one repeated command per call, and what is repeated more often leaves no other
state. `TTL = 2` leaves room for a step before, at and after the expiry. `MaxWin = 1` in RateLimit
gives two windows and the one that a fast clock sees ahead; a window is one second of three ticks,
so that a remaining life of one tick is rounded down, of two up, and a call can be early or late in its
second, with clocks a tick apart; `MaxCount` lies above `Limit`, and the
code compares counts with nothing else. Four connections in RabbitMQClient are the ones that the
client, the loop, `connect` and a publisher can refer to at once, so a connection is used again
only when nobody can tell. `Last = 3` in KafkaConsumer gives a message before and after the one
that fails. `handled` is counted up to 2, which is "more than once".

`nats` has one message and a stream of two entries, so the message is stored a second time after a
failed PublishJS, and the two entries are what a second message would be to the consumers. A buffer
of one leaves an entry in the client while another is with the handler, or with its Ack on the way.
`httpclient` has every combination of values that are given and of zeros that New replaces, up to
three retries, and timeouts and delays of one to three ticks, so that a timeout, a backoff and a
cancelled context can come before, at and after each other. In `service` an int32 has four bits, of
which 9 does not fit, and the batcher holds two spans, so that the third client, or a second
request, finds it full.

`auth` has one request at a time: requests meet only in the cached keys, which `Refresh` changes at
any time, as another request's `Refetch` would. It has four tokens, which between them have every
shape of claims, empty lists in front of other sources, both keys, a missing issuer, other
audiences and no expiry; six configurations, of which three are
refused; a time that reaches past expiry, leeway and skew; and three of the routes that a service
can build.

`service` and `httpclient` switch the deadlock check off because a process, and a call, end.

### Fairness

Liveness is checked under the fairness that the scheduler and the environment give:

* goroutines that can run do (weak fairness of loop, Close, Commit, Rollback, goroutines of a probe,
  `main()` and Run, the chain of a request, the loop of `Do`), and handlers other than the hanging
  one end;
* time passes, and a timer fires (`Tick`, `ShutdownExpires`, `Redeliver`, `TimesOut` with the client of
  `setDefaults`; a client that is configured need not have a timeout, and `Answered` excepts it);
* a broker that is asked again and again answers at last (strong fairness of the three steps of
  `connect`); nobody promises this, but without it no reconnecting client can connect;
* a pool serves its waiters in turn (strong fairness of `BeginOK`: puddle, the pool of pgx, keeps
  its waiters in order);
* for consumers and NATS publishers, faults come to an end (`<>[][...]_vars`): with infinitely many
  crashes nothing is ever handled. What can run then does (in NATS one weak fairness for all of it,
  since without faults only finitely many steps are left);
* `main()` goes on when `Setup` has failed or succeeded (`Boot \/ SetupFails`).

No fairness is assumed of callers, publishers, signals, registrations, the identity provider, or the
service that an HTTP client calls.

## Proofs

Every safety property that a passing run checks, invariant or action property, and every refinement
is a theorem. The theorems hold for every value of the constants that satisfies the named assumption
of the module, so for any number of callers, replicas, retries, messages, tokens and keys, and any
limit, window and TTL. Each proof module defines an inductive invariant, shows that it holds
initially and is preserved by every action, and derives the properties; the temporal step is PTL.
Three proof modules are about two components that share nothing, which is why `RabbitMQConsumer`,
`PgTx` and `HealthRegistry` prefix the names of their specifications (`ConsumerSpec`, `TxSpec`,
`HealthSpec`).

* **RedisLock**: the key in Redis stands for every caller whose lease runs and who was not robbed,
  and its TTL is that caller's lease. Two such callers would be the same key, which is
  `ExclusionUnlessRobbed`, the core of the refinement of `Mutex`; a DEL that removes it comes from
  a caller of whom this is not true, which is `RobberyNeedsStaleDelete`.
* **RateLimit** (`WithinLimit`): with synchronised clocks the counter of a window, while it exists,
  is at least the number of tickets given out, and each call that may still be granted has a ticket
  of its own. As long as the window is current the counter cannot expire, because an expiry set in
  the window outlives it. The strengthening counts grants and pending tickets together as the set
  of tickets up to the limit (`Sold`).
  `RejectsOnlyWhenFull` is the other half and needs no clocks: in a window without failures as many
  tickets are sold as calls were counted, up to the limit, and at least as many as a call's own
  number (`NothingWasted`). `RetryAfterReaches` adds that, with synchronised clocks, a window in
  which a call waits for its answer has a counter (`Counted`), so its expiry is not zero unless the
  EXPIRE is on its way; what is left of it covers the window, and rounding it to the nearest second
  loses less than half of one (`SecondsRound`), whatever a tick is. `CountersExpire` is inductive as
  it stands.
* **RabbitMQClient**: an open connection is the one being set up or the one stored, and while
  `connect` works the stored one is gone, because the loop dials only after a loss and Close never
  reopens. `FailedPublishSawLoss` needs that a publisher that has not seen the client down still
  holds the current channel, and that an open current connection without its channel is one that the
  broker has closed the channel of, or that Close is at work on (`ChannelsExplained`).
* **RabbitMQConsumer** (`DuplicateNeedsLoss`, `ImplementsAtLeastOnce`): a message is in one place, in
  the queue, with one subscription, or settled (`OnePlace`); a replica works on a message that its
  connection still has unless that was lost (`WorksOn`); and a message that was handled and never
  queued again is with the one replica that is about to acknowledge it (`OnceDone`).
* **KafkaConsumer** (`NothingSkipped`, when a failed consumer is not used again): a reader's position
  is at most one past a prefix of messages that are handled or in its own hands. `HandledOnce`
  needs that only the owner works as long as nothing was disturbed. `Refinement` adds that the
  offset moves only to what this invariant covers.
* **NATS** (`DuplicateNeedsDelay`, `ImplementsAtLeastOnce`): an entry that nobody delayed is in one
  place only, offered, with one client, with one handler, or on the way to be acknowledged, and it
  was handled only in the last; a message that no PublishJS failed for is in the network or in the
  stream at most once. Acknowledgements on their way are of entries that were handled.
* **HTTPClient** (`RepeatsOnlyFailures`, `NothingLeftOpen`): all attempts before the current one have
  failed, none after it was sent, and what is sent next has its body; the only response that can be
  open is the one being drained or returned.
  `AnswersInTime`: after n attempts and the waits between them no more than
  n * timeout + delay * (2^n - 1) has passed, and the timer that runs ends within what comes next
  (`InTime`).
* **PgTx** (`AllOrNothing`, `NothingKept`): the state of a transaction follows from where WithTx
  stands and how fn ended, so the ways to a committed transaction can be read off; a caller holds a
  connection only between Begin and the end of Commit or Rollback.
* **Auth** (`ServedWasGood`, `RolesWereGiven`): what is acceptable can only cease to be so
  (`Monotone`), so an "active" answer, or a signature and an expiry that pass now, mean that the
  token was good when its request came; and claims are in a context only after one of the two. That
  the extractor reads only roles that `Given` allows, for claims of any shape, is a lemma of
  its own (`ExtractorReads`, over `WalkOfTwo` for the nested path), and not a hypothesis.
  `DeniedForCause`: an answer that a request waits to read is either one that the provider did not
  give, or its "inactive" was true when it was given and is true ever since (`Explained`); the leeway
  of the service covers the skew of the clocks (`MaxSkew <= Leeway(cfg)`, from the assumption on the
  constants), so it finds no token expired that the provider does not.
* **Service and Server** (`NilMeansDrained`, `SpansSurvive`): after a Shutdown that was not cut
  short every connection is closed for good, which holds because no connection is accepted while it
  runs and a closed one is not opened again (`AllClosed`); the batcher is empty from the first step
  of Providers.Shutdown on, and nothing was lost before it without an outage or a full batcher, nor
  after a drained Run without an error, an outage or a full batcher (`SpansKept`, for any
  `QueueSize`). A process that a signal kills does not come to its end, so nothing is claimed of it.
  `RunsOn` is what the rest of a service needs to know of a step of the server.
* **Config** (`LoadedAsTagged`): every field before the one that is loaded next could be loaded and
  has what its text means (`Text`, `Meaning`, stated apart from the parsers), every other one is still
  zero (`LoadedSoFar`). Numbers that do not fit their field are excepted, as a finding says. A field's
  value survives because no two fields share a name, and an int32 keeps a number that fits because
  the low bits are all of it (`LowBits`). This holds for every environment, not only those that
  `Environments` enumerates for TLC, since the proof uses nothing of them.
* **HealthRegistry** (`ReadyWasUp`): a checker that a probe has copied and that is up now has been
  seen up by that probe, and so has one whose result is ok (`SeenUp`).

Hypotheses beyond those assumptions: `AnswersInTime` and `LoadedAsTagged` are proved under
`PowersOfTwo`, the recursion of `2 ^ n`, because the provers know nothing of exponentiation.
The theorems about
KafkaConsumer's `NothingSkipped` and its refinement are for `~Reuse`; with `Reuse` the run
`kafka_reuse` refutes the former.

The type invariants of RedisLock, RateLimit, RabbitMQClient, KafkaConsumer, NATS, HTTPClient, PgTx and
Auth, and `AtMostOneOpen` and `NothingKept`, are theorems and in no run of their own; TLC has agreed
to each, and to every inductive invariant, before it was proved.

Only model-checked: liveness (`EventuallyFree`, `CloseEnds`, `ReconnectsUnlessMissed`, `Delivered`,
`AllHandled`, `PublishedIsHandled`, `AllConsume`, `DoReturns`, `PoolServes`, `CallsReturn`,
`EndsWhenTold`, `Answered`), which needs fairness and is beyond this prover.

## Not modelled, and why

JSON in the cache, log records, error types and validation keep no state and make no choices that
several steps could get wrong. Migrations run inside golang-migrate. The Kafka producer, the core
publish and subscribe of NATS and ClickHouse are single library calls whose interesting states are
the library's: the order of retries, the buffers of a connection, what a batch keeps that was
prepared and, because `fill` failed (`clickhouse.go:94`), never sent. The producer's `Check` dials a
network named "tpc" (`kafka.go:59`), which fails whatever the brokers do, so there is nothing to
model in it. TLS, DSNs and texts are data that no property depends on.

Of what is modelled: anonymous RabbitMQ queues are left out, since each call has one of its own. A
broker that restarts is a loss of all connections for a durable queue; for the others the queue is
lost already with its connection. A second Close of the RabbitMQ client and a rate-limit window
below one second panic at the first such call, whatever else happens; both are outside of the
models. The process of the server is never killed outright (SIGKILL): nothing could be promised
then. In Auth, `nbf` and `iat`, the choice of signing methods, options that replace the extractor,
and calls of `Validate` outside of HTTP are left out. In NATS, a handler that panics is a crash, and
streams have no limits. In HTTPClient, redirects are part of an attempt, and the body that a rewind
has opened and a cancelled wait never sends (`httpclient.go:76-80`) is left out: closing it does
nothing for the bodies of http.NewRequest. In Config, fields that unmarshal themselves are left out,
and unsigned numbers behave as the signed ones do. Metrics are read by a timer inside of the SDK.

## Plan

1. Done: the lock, the limiter, the three clients of brokers with their common abstraction,
   transactions, health, a service from its configuration to its end with its telemetry, the HTTP
   client, authentication with the chain around it.
2. Done: a theorem for every safety property and refinement that the runs check.
3. Next: what of the liveness properties can be said of a single state, as theorems: that a lock, a
   probe or a consumer that is not done has a step to take, whatever the others hold.
