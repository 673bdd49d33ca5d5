# TLA+ models of risk-scoring-streaming

This directory holds TLA+ specifications of the pipeline in this repository, the
TLC configurations that check them on small instances, and proofs that TLAPS
checks for every instance.

    tlc -config Consumer_faults.cfg MC_FeatureConsumer.tla    # one run
    tlapm DeliveryProofs.tla                                  # proofs of one module

`PROJECT.json` lists every run with its properties, the source lines every
definition stands for, the known disagreements between code and documentation,
the hazards the properties are aimed at, and for each property a variant of the
code that breaks it. Definitions marked `\* Variant` in the modules are these
broken forms; no specification uses them.

## 1. The system

```
 producer ──▶ Kafka: 4 topics × 3 partitions
                 │  one consumer process per topic
                 ▼
 consumer: poll ─ transform ─ upsert ─ recompute ─ DLQ ─ commit
                 │                │          │         │
                 ▼                ▼          ▼         ▼
             (offsets)      TiDB: 4 tables  kv_cache  Postgres: dlq_events
                                  ▲          ▲ ▲
                                  └── API ───┘ └── DELETE cache
```

| Component | State | Operations | Hard part |
|---|---|---|---|
| consumer loop (`consumer.py`) | batch (rows, rejected, client ids, last message), `_running`; in Kafka the committed offsets | `_process_batch`, `_write_dlq`, `_write_run_metrics`, SIGTERM | four stores written one after another, no common transaction; redelivery; failed flushes |
| transformer (`transformer.py`) | none | one function per topic: row, TransformError, or another exception | which values reach which outcome; one refused row costs the batch |
| TiDB pool (`db.py`) | LIFO list of connections, each perhaps in an open snapshot | acquire, release, upsert_batch, write_kv_cache | a SELECT leaves its transaction open; the next user of the connection reads the old snapshot |
| aggregator (`aggregator.py`, `aggregations/*.sql`) | none | compute_and_cache: every client × every group | every consumer recomputes the groups of all topics |
| kv_cache (TiDB) | value, expires_at, version per key | written by four consumers and the API, read by the API, deleted by DELETE | read-compute-write without a lock: a stale value overwrites a fresh one |
| API (`risk-feature-api`) | per request: three maps, a WaitGroup; a bounded connection pool | GetRiskProfile, GetFeatureGroup, InvalidateCache | four goroutines, a client that goes away, partial failure |
| producer (`risk-feature-producer`) | counters, `_running`, librdkafka's bounded queue and delivery reports | send_event, run, check_delivery, flush, signals | a full queue while the broker is away, a flush without a timeout, kills in mid-flush; agreement with transformer and schema |
| migrations (`migrations/`, `scripts/migrate.sh`, `k8s/jobs`) | schema and seed rows | DDL, seed if the table is empty | a crash between two seed files, two migrations at once, and no one who repeats a failed one |
| consumer configuration (`config.py`, `__main__.py`) | topics and feature groups in Postgres, read once at start | load_config, topic lookup, exit code 1 | two statements with two snapshots; an operator who changes rows meanwhile |
| deployment (`docker-compose.yml`, `k8s`) | which services have been started and have succeeded | depends_on, restart, `up` again, `down` | consumers, migrations and operator at the same time; TiDB is lost by `down`, Postgres is not |

What makes each correct:

* **Consumer.** No committed offset passes over a message that is in no store;
  rows and cache are not behind the committed offsets; commits do not go back;
  with working stores every message is handled in the end, and table and cache
  converge.
* **Transformer.** A message ends as a row that TiDB takes, or in the dead-letter
  table; neither the process nor the rest of the batch pays for it.
* **Pool.** An aggregation that follows an upsert sees it; an outage does not
  drain the pool for good.
* **Cache.** What is served is not missing a row for longer than a bound, and in
  the end not at all.
* **API.** Every group ends up in exactly one of cached, computed and errors;
  `cache_hit` and the status say what the maps say; every request is answered.
* **Migrations.** Safe to run again after a crash anywhere; both seed tables full
  when every run reports success.
* **Producer.** The events of a client are in the topic once and in order; `run`
  leaves no event behind without a report; the process ends when it is told to.
* **Deployment.** No consumer runs without its tables, its topic or a feature group
  that is switched on; what the operator has switched off stays off; once the services
  it waits for have succeeded, a consumer is up, again and again, while its topic is on.

## 2. Modules

| Module | Models | State and actions |
|---|---|---|
| `FeatureConsumer` | one consumer process | `pc` is the place in `_process_batch`; durable state is `committed` (Kafka), `table` (TiDB), `cache` (kv_cache), `dlq` (Postgres); `rows`, `rejected`, `last`, `polls`, `pending` are the locals of the method. One action per step between two external effects: `Poll`, `PollFatal`, `PollNothing`, `EndPolling`, `Upsert`, `Recompute` (one client), `EndCompute`, `WriteDlq`, `Commit`, `WriteRunMetrics`, and the failing forms `UpsertRejected`, `UpsertFails`, `RecomputeFails`, `DlqFails`. `Crash`, `Sigterm` and `Rejoin` may come between any two. A message is its partition and offset; `Log` says what each one is. `skipped` and `astray` are ghosts: what an abandoned batch or a failed dead-letter insert has dropped, and whether a batch has outlived its assignment (`midrejoin`). |
| `AtLeastOnce` | what the consumer promises | messages are delivered in any order and perhaps again; an offset is acknowledged only over delivered messages |
| `Transformer` | `transformer.py` against the schema | values by kind and size; one operator per converter; `LoanApplication`, `LoanPayment`, `LoanOperation`, `ClientMoney` are the handlers, fields in the order of the code; `Columns` the four tables; `Outcome` the message kind that `FeatureConsumer` starts from, messages without fields (`NotAnObject`, `NulByte`, `Tombstone`, `TooDeep`) included |
| `Ingestion` | generator, other producers, and the transformer | a topic gets a message of the generator, or one with up to two fields wrong, and processes it |
| `ConnectionPool` | the pool of `db.py` and its three callers | `pool` is the stack; `snap` says for each connection whether a transaction is open on it, and whether that transaction misses an upsert |
| `FeatureCache` | kv_cache for one client | each worker (consumer or goroutine) reads a group's rows and writes later; `miss` is the age of the oldest committed row a value does not know of; `left` the time to `expires_at` on the API's clock |
| `RiskProfileApi` | the two read handlers | `pc[r][g]` is the goroutine of group g in request r, waiting for or holding one of `MaxConns` connections; `wg` the WaitGroup |
| `EventProducer` | the producer's `run` for one topic, over librdkafka and the broker | `pc` is the place in `run`; `queue` and `reports` are librdkafka's, `log` the broker's. `Send`, `SendMalformed`, `SendRaises`, `Leave`, `Poll`, `FlushServes`, `FlushReturns`, `Sigterm`, `Kill`, `Restart`; the sender thread is `BrokerWrites`, `Acknowledged`, `Expires`. `handed`, `reported`, `cut` are ghosts: what produce() has accepted, whose failure was logged, what died with a killed process |
| `SeedMigration` | `scripts/migrate.sh` and the compose services | one step per statement or seed file, two for a `CREATE ... IF NOT EXISTS` of Postgres (`FindObject`, `CreateObject`), which looks first and creates then; `Parts[r]` says which databases a run migrates; a service has one attempt, a script is started again by hand (`Retry`) |
| `Deployment` | `docker-compose.yml`, `load_config`, `main`, the operator | extends `SeedMigration`; `svc[t]` is where the consumer of a topic is in `main`, `conf[t]` what it has read; `switchedOff` is a ghost |
| `MC_FeatureConsumer`, `MC_FeatureCache`, `MC_RiskProfileApi`, `MC_EventProducer`, `MC_Deployment` | function-valued constants of the runs | |
| `FeatureConsumerProofs`, `DeliveryProofs`, `FeatureCacheProofs`, `ConnectionPoolProofs`, `RiskProfileApiProofs`, `EventProducerProofs`, `DeploymentProofs`, `IngestionProofs` | theorems | |

How they fit together: `Ingestion` uses `Transformer`, whose outcomes are the
message kinds of `FeatureConsumer`; `FeatureConsumer` assumes that an aggregation
sees the upsert before it, which is what `ConnectionPool` is about (`ReadsOwnWrites`);
it has only the topic's own group in its cache, while `FeatureCache` has the
groups of all topics, all consumers and the API; `RiskProfileApi` takes a cache
lookup as a hit, a miss or a failure, whatever `FeatureCache` holds. `EventProducer`
is upstream of all: its `ClientOrder` (one partition per client, offsets in the
order of generation) is what `KeyAssumption` of `FeatureConsumer` and its
"newest row" rest on, and what an event holds is `Ingestion`'s. `Deployment`
composes migrations, broker topics and the start of the consumers; a consumer that
is "running" there is where `FeatureConsumer` begins.

## 3. Runs

| Run | Instance | Shows |
|---|---|---|
| `consumer_faults` | 2 partitions, 7 messages (a value TiDB refuses between two versions of a row, and a payload with a NUL byte behind them; a message kept and rejected at once, an event without id of a client whose recompute fails, a message that kills the process), batch of 2, any two of crash, SIGTERM, rejoin between batches or in mid-batch, failing TiDB, failing Postgres | `LossIsAccountedFor` and the inductive invariant `IInv`, `RowNotBehindCommit`, `CacheCoversCommitted`, `CommitMonotone` |
| `consumer_delivery` | three versions of a row, a rejected message and an event without id, batch of 2, stores that work, two of crash, SIGTERM, rejoin | implements `AtLeastOnce`; `EveryMessageHandled`; `Converges`; `DuplicatesBounded` |
| `consumer_flush_loses` | one failed flush | *violated:* `NothingLost` (finding 1) |
| `consumer_dedup` | one crash | *violated:* `NewestOffsetWins` (finding 2) |
| `consumer_fatal` | one message whose exception is not named | *violated:* `EveryMessageHandled` (finding 3) |
| `ingestion_fields` | every alternative of the generator; every message with up to two fields replaced by any of 32 values; the messages without fields; sizes 0, 1, 14 (too many digits, a short text) and 300 (too long for anything) | `GeneratedEventsFit`, `FatalForAReason`, `RefusedForAReason` |
| `pool_consumer` | one thread, pool of 3, 4 identities, 3 faults (connection lost, outage) | `ReadsOwnWrites`, `KeepsServing` |
| `cache_race` | two consumers of one topic, two requests, TTL 2, delay 1, skew 1, two upserts | `FreshWithinHorizon`, `ExpiresInTime`, `EventuallyFresh` |
| `api_requests` | a profile of two groups, a single group, an unknown group, one connection | `AnswerIsComplete`, `AnswerIsHonest`, `NothingLeftRunning`, `EveryRequestAnswered` |
| `producer_loop` | 3 events of 3 clients, two of which share a partition; queue of 2, limits 0 and 1, one outage | `ClientOrder`, `NothingLeftBehind`, `StopsInTheEnd` |
| `deploy_start` | one topic, one group, two objects in Postgres; two compose services with one attempt each per `up`, and the script with two; one attempt cut short; two changes by the operator (a row off and on again, `up` once more, `down` and `up`) or crashes of the consumer | `OneSeeder`, `RunsConfigured`, `OperatorDecides`, `EveryConsumerRuns`, `AttemptsSucceed` |
| `seed_cut_short` | the same without changes, the script with three attempts | *violated:* `CompleteMeansSeeded` (finding 4) |

Why the bounds are enough. A batch of two over logs of two or three messages per
partition already has batches that end in either partition, that are cut short by
a timeout of `poll`, and that come back smaller or larger after a fault; two faults
give a fault in the repetition that follows another one. Two writers and two
readers of a cache entry are what an inversion needs, two upserts what tells a
stale value from a staler one. One connection is the worst case for requests that
need it in turn. Uuids are interchangeable (`UuidSymmetry`, in a run without
liveness properties); a fault makes at most one more of them necessary per event
without an id. A queue of two with three events is full once and overtaken once;
two clients in one partition tell order per client from order per partition. Two
compose services with one database each, and a script that does both, are all the
ways in which the repository starts a migration that gets anywhere. Two changes of the
operator switch a topic off and on again, and one between any two steps of a starting
consumer is what a torn read of the configuration needs; consumers do not touch each
other, so that one topic stands for four. A race for the first of two objects leaves a
second one to create, and a race for the last one none; six are no different.
The counters in the guards are named `MaxFaults`, `MaxEvents`, `MaxGenerated`,
`MaxOutages`, `MaxAttempts`, `MaxDeaths` and `MaxChanges`; `QueueSize`, `PoolSize`,
`BatchSize` and `MaxConns` are the code's own limits.

`CHECK_DEADLOCK FALSE` stands only in the two runs of `Deployment`, which really may
stop: everything has been started and the operator has done what the bound allows.
Everywhere else something is always possible: a consumer at the end of its bounded
log goes on polling, an ended producer is started again.

### Fairness

* `FeatureConsumer`: docker restarts the process (`restart: unless-stopped`), so
  that `Start` is weakly fair; the loop runs, so that its steps are. `poll` may
  return nothing at any time; that it hands out the messages of a partition when
  asked often enough is strong fairness of `Poll(p)`. Faults are not fair and
  bounded: convergence is claimed for when they are over.
* `ConnectionPool`: a thread that can move does; outages end.
* `FeatureCache`: time passes, and workers finish what they have begun.
* `RiskProfileApi`: queries end because of `readTimeout=30s` in the DSN;
  `database/sql` serves those who wait for a connection in order, which is strong
  fairness of `Take`: the connection is free again and again, not for ever.
* `EventProducer`: the process runs and is started again (`Run`, `Restart`), the sender
  thread makes progress: it sends, or gives a message up when its timeout is over
  (`Transfer`). An outage of the broker need not end, so that `StopsInTheEnd` does not
  rest on it: it rests on librdkafka's `message.timeout.ms`, which main.py leaves at its
  default.
* `Deployment`: an attempt of a migration that has begun goes on to its end; compose
  starts a consumer whose dependencies have succeeded; docker restarts consumers
  (`restart: unless-stopped`). Nothing else is fair. The migrations and `kafka-init` have
  no restart policy (docker-compose.yml:105-189): one that fails stays failed until
  somebody says `up` again, and `make migrate` once more is somebody's decision, too. So
  `EveryConsumerRuns` does not say that the consumers are ever started: it says that one
  whose dependencies have succeeded is up, and up again after a crash, or after its topic
  was switched off and on. And `AttemptsSucceed` says of the migrations that an attempt
  which nothing disturbs any more succeeds, whatever lost races and interruptions have
  left behind: saying `up` once more helps. Operator, crashes and deaths are bounded.

### Findings

1. *A failed flush loses its batch.* `_process_batch` returns without a commit and
   without a seek (consumer.py:126-129); the next batch starts behind the abandoned
   one and its commit passes over it. `LossIsAccountedFor` says that this and a
   swallowed dead-letter error are the only ways to lose a message. The latter needs no
   fault: psycopg2 refuses a payload with a NUL byte (`Unrecordable`), and with it every
   rejected message of the batch.
2. *`kafka_offset` does not deduplicate.* The column is "for dedup"
   (01_tidb_schema.sql:24), but the upsert overwrites whatever offset the row has.
   After a redelivery a row is at an older version until the newer one comes by
   again (`RowNotBehindCommit`: never behind the committed offset, unless a member
   rejoins in mid-batch).
3. *Exceptions that nobody names.* An infinite integer, a tombstone and nesting that is
   too deep (RecursionError) end the process, and are delivered again.
   `FatalForAReason`: of the conversions, no other does.
4. *Seed data half done.* Both seed files are guarded by the count of clients: a
   run cut short between them leaves `loan_accounts` empty for good, and every later
   run reports success.

Seen on the way, not the subject of a run of their own:

* A batch that outlives its assignment (evicted between two polls and rejoined)
  goes on: the fetch position goes back to the committed offset while `last` does
  not, so that messages can be in the batch twice and the later commit can be lower
  than one that has been made. `CommitMonotone`, `RowNotBehindCommit` and
  `CacheCoversCommitted` are therefore stated under `~astray`; `LossIsAccountedFor`
  holds without.
* An event without an id gets another row with every redelivery: one per fault, as
  long as no message kills the process (`DuplicatesBounded`). Where one does, restarts
  need no fault. With one partition nothing of such a batch is flushed and no row is
  added; with several, a batch that ends in another partition is flushed, is not
  committed for this one, and comes back at every restart.
* The producer compares `MAX_EVENTS` the wrong way round (main.py:82-84): it stops
  before its first event when it is positive. Nothing in the repository says what a
  positive limit means (docker-compose.yml sets 0), so no property is stated; `Leave`
  and `LimitReached` model the comparison as it is written.
* An explicit null in `client_id`, `loan_id` or `application_id` passes `_req` and
  makes TiDB refuse the whole batch (one of the reasons of
  `RefusedForAReason`). So does half of a surrogate pair, which JSON can escape and
  UTF-8 cannot hold.
* The Jobs of `k8s/jobs/migrate-jobs.yaml` mount the SQL files at `/sql` and read them
  from `/migrations`: none gets past its first file, so that they are not among the runs of
  `SeedMigration`.
* The configuration is said to be reloaded on SIGHUP
  (02_postgres_config_schema.sql:3); nothing handles the signal. A change reaches a
  consumer at its next start, which is what `Deployment` does.

## 4. Proofs

Proved for all values of the constants that satisfy the named assumptions:

* `FeatureConsumerProofs`: `OnlyAbandonedBatchesLose`, `Spec => []LossIsAccountedFor`,
  rejoins in mid-batch included. `LossIsAccountedFor` is not inductive: whether
  `Commit` is right depends on what lies below the last message of the batch. `IInv`
  adds that everything below the fetch position, or below a message of the batch, is
  safe or in the batch (`PassedOver`), that the batch is stored before it is committed
  (`WrittenBeforeCommit`), that rows carry the keys of their messages and a uuid is
  used once (`RowsHaveKeys`), that of several rows with one key there is a last one
  (`LastRowExists`), and that batch and `pc` agree (`BatchShape`).
  `NothingLostUnlessAStoreFails`: without failing flushes and dead-letter inserts,
  and without values that TiDB, the recompute or psycopg2 refuses, nothing behind the
  committed offset is lost, whatever crashes and rejoins there are.
* `DeliveryProofs`: `CommitNeverGoesBack` (`CommitMonotone`), from `AheadOfCommit`: while no
  batch has outlived its assignment, fetch position and batch are at or beyond the
  committed offsets. `ConsumerIsAtLeastOnce`: every step is a step of `AtLeastOnce` or
  changes nothing it sees, assuming `NoStoreFails` (the faults and messages that make
  an abandoned batch are not among the constants) and `NoMidrejoin`.
  `RowsKeepUp` (`RowNotBehindCommit`) and `CacheKeepsUp` (`CacheCoversCommitted`): that the
  row behind the committed offset is not older says nothing about the row that the next
  flush writes. The inductive `RowInv` adds to `AheadOfCommit` that everything below the
  fetch position is settled or in the batch (`SettledSoFar`), that a batch has the
  messages of a partition without gaps and in order (`FetchedInOrder`), so that the last
  row of a key, which MySQL keeps, is its newest; that after the upsert the batch is
  settled but for clients still to be recomputed (`BatchSettles`); and that a row stands
  under its own key (`TableHasKeys`). A redelivered batch starts at or below every
  message that it overwrites, which is why it ends at or above it, too.
  `DuplicatesArePaidFor` (`DuplicatesBounded`) is an account (`RowsArePaidFor`): the rows an
  event has, those it is about to get, and the fetch that is still due are together at
  most the faults and one; the end of a process pays for what its successor fetches.
  `AFaultCostsABatch` says how much finding 1 can cost: where no value is refused, what
  is missing behind the committed offset is at most `BatchSize` messages for every
  fault. (It is a theorem without a run: the instance of `consumer_faults` has values
  that are refused, and a refused value costs a batch without a fault.)
* `FeatureCacheProofs`: `ServedIsFresh`, `Spec => []FreshWithinHorizon` for any number of
  groups, consumers and requests. It needs `ExpiresInTime`: age of what is missing plus
  remaining lifetime stay below the horizon, both for entries and for values not yet
  written; both are part of one inductive invariant together with `TypeOK`.
* `ConnectionPoolProofs`: `PoolTypeCorrect` for any number of threads, and
  `AggregationsReadOwnWrites` (`ReadsOwnWrites`) for one. The invariant says why: one
  thread always has room for what it holds (`Room`), so that what it releases is on
  top of the stack and is what the next call gets; the top of the stack is never stale
  between an upsert and the next (`NoStaleSnapshot`); and a connection nobody knows has
  no transaction open (`OpenIsKnown`), so that a new one is never stale.
* `RiskProfileApiProofs`: `ApiTypes`, `AnsweredRequestsAreOver`, `AnswersAreComplete`,
  `AnswersAreHonest`. The invariant `Accounts`: the WaitGroup is the number of goroutines
  that run (`Counted`), and a goroutine has finished just when its group is in one of
  the maps (`Filed`); at zero, then, every wanted group is in one.
* `EventProducerProofs`: `ProducerTypes`, `ClientsKeepTheirOrder` (`ClientOrder`),
  `OneMessagePerEvent`, `RunLeavesNothingBehind` (`NothingLeftBehind`). `InOrder`: what is
  not yet written comes after all that is; `Numbered`: a number names one accepted event.
  An event is then one message of the topic, in one partition and at one offset.
* `DeploymentProofs`: `DeploymentTypes`; `AtMostOneSeeder` (`OneSeeder`, with the fact that
  loans are empty while clients are); `SeedingRespectsOperator` (`OperatorDecides`);
  `ConsumersRunConfigured` (`RunsConfigured`), from `Foundations`: what a service has
  left when it has succeeded stays until `down`, and `down` sends the consumers back.
* `IngestionProofs`: `GeneratedAlwaysFit` (`GeneratedEventsFit`), `FatalHasAReason`
  (`FatalForAReason`), `RefusalHasAReason` (`RefusedForAReason`), `TypeCorrect`, for
  values of any size. The argument goes from one value (what each converter returns or
  raises: `ConversionErrors`, `ConvertedFits`) to one field (each column suits its
  converter: `FieldFacts`) to one message. `FatalReason`, `UnstorableReason` and
  `TwofoldReason` say of a message with any number of wrong fields, where the run
  replaces two, why the process ends, why TiDB refuses the row, and why a message is
  both stored and dead-lettered; `GeneratedIsStored` that what the generator sends
  becomes a row. The invariant then only says that what is on its way is a message of its
  topic and that its outcome is the one it has.

Two attempts failed for a good reason and changed the models. `DuplicatesBounded` was
stated without regard to messages that kill the process; its account does not balance
there, and TLC finds the restart that adds a row as soon as the instance has a second
partition. And two arms of the CASE in `OptUpper` were both true for the empty string,
so that its value was open; TLC takes the first, the prover does not.

Assumed of the constants: sizes are natural numbers, 0 and 1 among them; names are
distinct; messages about one application or event are in one partition and name one
client (`KeyAssumption`; the producer keys records by client); TTLs are positive; there
are as many identities of connections as can be open; the numbers of groups and requests
are finite; each database is migrated by a service of compose (`ComposeAssumption`).

Every safety property of the runs, and every action property, is proved; the
refinement `Implements` is proved step by step. Only model-checked is everything about
liveness, which is out of the prover's reach: `EveryMessageHandled`, `Converges`,
`KeepsServing`, `EventuallyFresh`, `EveryRequestAnswered`, `StopsInTheEnd`,
`EveryConsumerRuns`, `AttemptsSucceed`. The four violated properties have their
counterexamples in the runs. `ReadsOwnWrites` is proved for a process with one thread,
as the consumer has, and `Implements` without failing stores; both are false otherwise.

## 5. Abstractions

* Messages, rows and values carry no text. Sizes in `Transformer` are lengths and
  digits before the point, as the column sees them; strings are divided by what their
  converter takes them for (`Strings`), lists and objects into lists of one thing, of
  one null, and others. `FatalForAReason` and `RefusedForAReason`, and the theorems
  about them, speak of these kinds of values: they are complete for the converters, the
  columns and the handlers as modelled, not for what Python or TiDB may do besides
  (MemoryError is left out, as is a message too large for either).
* A seed file is one INSERT and atomic. The schema of TiDB is a step of its own, as TiDB
  does one DDL statement after the other; that of Postgres is one object at a time.
* The aggregations have no GROUP BY and return a row for every client, so that a
  recompute always writes.
* Time in `FeatureCache` is discrete. `MaxDelay` bounds a recompute (statement and
  request timeouts) and `MaxSkew` the clocks of consumer, API and TiDB hosts; the
  bound that is proved is in terms of them.
* A connection in `ConnectionPool` is used by the one thread of a consumer.
* `EventProducer` has one topic; a process sends to several with the same queue, and
  order is per client and topic. The pace of the loop is left out: an event may come
  at any time. A message counts against the queue until its report is served.
* In `Deployment` a script that was started by hand is started again by `down` and `up`:
  its connection is gone. SQL files are read with the groups and never missing.
* `pipeline_runs`, logs and metrics are observability and left out.

Not modelled:

* the arithmetic of the aggregation SQL: which rows are summed is in the models, what
  the sum is would be a restatement of SQL in TLA+;
* configuration and start of the API, read once before it listens; a failure panics
  before the first request. `/health`, and the 400 for an empty id, which the router
  cannot produce;
* two replicas of one consumer: the deployment files start one process per topic, with
  partitions "so consumers can be scaled past one replica later"
  (docker-compose.yml:110); an eviction and return of that one is in the model;
* values and weights of the generator other than kinds and sizes;
* the Jobs of `k8s/jobs` and the cluster around them, and the start of API, producer and
  broker in compose.

## 6. Plan

Done: consumer with its abstract specification, pool, cache, API, producer, migrations
and the start of the deployment, transformer and generator; proofs of every safety and
action property of the runs.

Next, in this order:

1. what liveness rests on and can be proved: that from every reachable state with the
   faults over a batch ends in a bounded number of steps, as a measure that every
   flush step decreases;
2. the composition of `EventProducer` and `FeatureConsumer` over one log: `KeyAssumption`
   follows from `OneMessagePerEvent` once both name messages in the same way.
