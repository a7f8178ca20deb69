# EventMind in TLA+

EventMind receives business events over HTTP, queues them in Kafka, lets an LLM
agent decide what to do about each, and records the decisions. This directory
holds TLA+ models of the parts of it that are hard to test, the TLC runs that
check them and the TLAPS proofs about them. File references are relative to the
repository's `src/`.

## The system

| Component | Code | State it keeps | Operations |
|---|---|---|---|
| API, write path | `api/rest/handlers.go` `ingestEvent`, `api/graphql/schema.resolvers.go` `IngestEvent`, `scripts/seed.go` | the producer's queue | validate, `SaveEvent`, `Publish`, answer |
| API, read path | `listDecisions`, `getDecision`, `listEvents`, the GraphQL queries | `em:dec:<id>` keys in Redis | read through the cache, page through Postgres |
| Subscriptions | `api/graphql/resolver.go`, `OnDecision` | map of channels | subscribe, publish, unsubscribe |
| Consumer | `internal/messaging/consumer.go` | position, one record in hand, a DLQ producer | read, handle, to DLQ, commit |
| DLQ worker | `internal/messaging/dlq.go` | the same, on the DLQ, with the `retry-count` header | read, give up or back off, handle, requeue, commit |
| Handler | `cmd/worker/main.go` lines 79-144 | none | Mongo upsert, idempotency check, agent, decision row |
| Agent | `internal/agent` | none | prompt, LLM, parse, tool |
| Idempotency cache | `internal/cache/redis.go` `Seen` | `em:seen:<id>` keys, 24 h | `SET NX` |
| Postgres store | `internal/storage/postgres.go` | tables `events`, `decisions` with a foreign key | migrate, insert, query |
| Mongo store | `internal/storage/mongo.go` | collection `events` | upsert |
| Process lifecycle | `cmd/api/main.go`, `cmd/worker/main.go` | connections | start, serve, shut down |

The API and the worker never call each other. They meet in the topics `events`
and `events.dlq`, in Postgres (the row of an event must exist before a decision
on it) and in Redis. A worker process runs two goroutines, the consumer and the
DLQ worker, with one handler; each owns a Kafka consumer in a group of its own
and an asynchronous producer for the DLQ. Several worker replicas share the
groups.

What is hard here:

- offsets are committed by hand, after work that may outlive the ownership of
  the partition;
- `Produce` only queues: a delivery that fails is reported to a goroutine that
  logs it, after the offset of the original was committed;
- the idempotency key is set before the work it guards, and the retry path runs
  through the same check;
- a failed call to Redis, Mongo or Postgres is logged and the handler goes on;
- on SIGTERM `main` runs its deferred `Close` calls without waiting for the two
  goroutines, whose calls now fail one after the other;
- the API stops in the other order, requests first and producer last, but both
  waits have a time limit, and the first does not see WebSockets, over which
  `/graphql` is served too;
- the Redis client sends a command again when its reply is lost, which turns the
  first `SET NX` of an event into a duplicate;
- REST and GraphQL fill the same cache keys, each with its own encoding, and
  clients page by offset through tables that grow;
- replicas that start together migrate the same database.

What makes each part correct:

- consumer and DLQ worker: no offset passes a record nobody dealt with; an
  event never disappears without a cause on record; every record is dealt with
  in the end; the retry chain ends, neither before nor after its budget is spent;
- idempotency: however often a record is delivered the agent attempts its event
  once per time the key was absent or unreadable, and while Redis can be relied
  on an event is recorded completed once;
- ingestion: a decision on an API event always finds its row in `events`, and a
  stop of the API loses no acknowledged request it waits for while the broker
  takes deliveries;
- tables: rows are only added, on stored events; a completed or failed row has an
  attempt of its own, a give-up a spent budget;
- read path: a read is current whoever filled the cache, and paging misses no
  row that was there at the start;
- migration: replicas do not trip over each other, the schema appears as a
  whole, and nobody serves before it does.

`PROJECT.json` lists the hazards line by line with the properties aimed at them.

## Modules

| Module | Models |
|---|---|
| `Platform` | The external services: two topics of one partition with committed offset, owner and position, Redis keys, the two tables, the Mongo collection; what may fail |
| `Agent` | `Complete` of `pkg/llm` and `Agent.Process` as functions of the case the LLM's reply falls into |
| `Worker` | The worker process: both loops, handler, producers, commits, group membership, shutdown, death, restart |
| `Ingest` | REST and GraphQL ingestion, the life of the API process and the seed script, up to the record on the topic |
| `Ledger` | Abstract promise of the Postgres tables, without Kafka, Redis and processes |
| `Pipeline` | The composition, its fairness and all its properties |
| `MCPipeline` | TLC instances of `Pipeline` |
| `Queries` | The read path: one decision or event through the cache, listings page by page |
| `MCQueries` | TLC instances of `Queries` |
| `SchemaInstall` | Abstract promise of `storage.New`: the schema is installed once, whole, before anybody serves |
| `Startup` | Start of API and worker replicas with the advisory lock and the migration; implements `SchemaInstall` |
| `PipelineProofs`, `DeliveryProofs`, `RetryProofs`, `StoreProofs`, `IngestProofs`, `LossProofs`, `StartupProofs`, `QueriesProofs` | Theorems and their proofs |

### How `Worker` corresponds to the code

`pc[l]` of a loop `l = <<worker, topic>>` names the blocking call the goroutine
is about to make, so that everything else in the system can happen between two
calls. One action is the call with the assignments and branches up to the next.

| Action | Code |
|---|---|
| `ConsumerRead`, `DLQRead`, `PollTimeout` | `ReadMessage` and what follows it: parsing in `Consumer.Run`, the `retry-count` comparison in `DLQWorker.Run` |
| `Backoff`, `BackoffCancelled` | the `select` between the timer and `ctx.Done()`; `Delay` is the timer's duration, with integers of `WordBits` bits |
| `SaveRaw`, `CheckSeen`, `Process`, `Persist` | the handler, one action per service it calls |
| `Requeue` | `toDLQ` or the requeue of the DLQ worker: into the producer's queue `buf[l]`, or refused |
| `GiveUp` | the `OnPermanentFailure` callback |
| `Commit` | `CommitMessage`, whose error is only logged, and the `select` at the head of the loop |
| `Deliver`, `DeliverTwice`, `DeliveryFails` | librdkafka's thread; `retries` without `enable.idempotence` may write a record twice |
| `Assign`, `Rebalance` | the consumer group; the new owner starts at the committed offset |
| `Sigterm`, `FlushProducer`, `CloseProducer`, `CloseConsumer`, `Exit` | `ctx` is cancelled and the deferred calls run last-in first-out, next to the loops |
| `Crash`, `Restart` | the process dies with its queues; the deployment starts it again |

`stage[w]` is the progress of the shutdown. `Ctx(l)` is `ctx.Err() == nil`:
from `Cancelled` on, every call that takes `ctx` fails, while `Produce` and
`CommitMessage` work until their client is closed. An LLM call under a cancelled
`ctx` may still succeed, as the mock provider ignores it.

### How `Ingest` corresponds to the code

| Action | Code |
|---|---|
| `Accept` | a handler gets a request: over HTTP while the server serves or drains, over a GraphQL WebSocket as long as the process lives |
| `Reject`, `SaveEvent`, `Publish` | one request, REST or GraphQL; both answer the client whatever `Publish` returns, also when the producer is closed |
| `ApiSigterm`, `ApiShutdown`, `ApiCloseProducer`, `ApiExit` | `main` of `cmd/api` from `ctx.Done()` on: `srv.Shutdown` waits up to 30 s for the requests on its own connections, the producer's `Close` flushes up to 5 s |
| `ApiCrash`, `ApiRestart` | the process dies (at any time once it is stopping: the two waits may exceed the pod's grace period), and starts again |
| `SeedPublish`, `SeedEnds` | the loop of `scripts/seed.go` and its deferred `Close` |
| `DeliverEvent`, `DeliverEventTwice`, `EventDeliveryFails` | librdkafka's thread |

`detached` holds the events whose request `Shutdown` does not wait for. A
WebSocket is hijacked from the server (`cmd/api/main.go` lines 79-90), so
`Shutdown` neither waits for it nor closes it, and its mutations go on next to
the closing producer and database; so does an HTTP handler that takes longer
than `Shutdown` waits (`"overrun"`). `lost` records the cause for which an event
missed the topic: `Produce` refused it, its delivery failed, the producer was
closed already, its flush left the event behind, or the process was killed.

### How `Queries` corresponds to the code

A reader is one request for a decision or an event (`getDecision`, `Decision`,
`Event`), one action per call: `Lookup` in Redis, `Query` in Postgres, `Fill`
of the cache. A pager is a client that opens a listing (`listDecisions` and
`listEvents` of REST, `Decisions` and `Events` of GraphQL) and goes on until a
page is not full, moving its offset by the limit REST echoes, or by the limit
it asked for where GraphQL echoes none. `Orders` are the orders Postgres may
return: rows of the same time in any order, from query to query. A blob is
abstracted to which API encoded it. The `event_type` filter only chooses which
rows the table consists of.

### Variables and calls

History variables, which no action reads: `handled` (what became of each
record), `lapse` (why the worker gave an event up), `fails` (errors
returned by `Process`), `passes` (times the idempotency key expired or could
not be read), `lost` (why an event missed the topic).

A call that fails after its effect (a timeout) is an outcome of `SeenError`
and `SaveEvent`. When only the reply of the `SET NX` is lost, the client's own
retry, three times by default (`redis.go` builds it from the URL alone), finds
the key it has just created: `SeenResent` answers "duplicate" for an event
nobody has looked at, and records the lapse `resent`. For `SaveDecision` and the Mongo upsert the code ignores the
error, so such a call is the successful one.

### Constants

- `Workers`, `Events`: the replicas and the event UUIDs. `Seeded` are those the
  seed script publishes, `Sockets` those a client may send over a WebSocket.
  `LLMReplies` are the replies the provider may give.
- `MaxRetry`: `RETRY_MAX_ATTEMPTS`. `BaseDelay`, `MaxDelay`, `WordBits`: the
  base delay, the 30 s cap and the 64 bits of `int`, scaled to 2, 3 and 4.
- `Flaky`, `Down`: what may fail, and what always fails, in an instance.
  `"mongo"`, `"redis"`, `"postgres"`, `"produce"` and `"delivery"` may fail on
  every call; `"crash"`, `"sigterm"`, `"rebalance"`, `"commit"`, `"duplicate"`,
  `"expire"`, `"foreign"`, `"api_stop"` and `"api_crash"` are counted,
  `MaxFaults` of them in a behaviour; `"overrun"` lets `srv.Shutdown` run out of
  time.
- `Ids`, `Stamp`, `Wanted`, `Readers`, `Pagers`, `Asks`, `Firsts`, `MaxPage` of
  `Queries`: the rows and their times, the ids asked for, the clients, the
  limits and offsets they ask for, and the largest page (100).

Records of an event always go to the partition its key hashes to, so one
partition per topic shows every order one event can meet. The initial state is
a running deployment with empty topics; `Startup` models how it gets there.

## Runs

| Run | Instance | Checks |
|---|---|---|
| `replicas` | 2 workers, 1 event over HTTP or a WebSocket, 3 of crash, rebalance, failed commit, foreign record, stop of the API | `TypeOK`, `AtLeastOnce`, `NoUnexplainedLoss`, `AcceptedAccounted` |
| `redelivery` | 2 workers, 1 event, 2 of rebalance, double delivery, key expiry; Redis may fail and lose replies | `NoUnexplainedLoss`, `IdempotentEffects`, `PermanentFailureEarned`, `RetriesWithinBudget`, `KeepsLedger` |
| `stores` | 1 worker, an API event (HTTP or WebSocket) and a seeded one, 1 crash or stop of the API or foreign record; Postgres, Mongo and producers may fail, Shutdown may run out of time | `OrphansAreSeeded`, `NoUnexplainedLoss`, `AcceptedAccounted` |
| `settles` | 2 workers, 1 event over HTTP or a WebSocket, 1 of crash, SIGTERM, rebalance, failed commit, stop or crash of the API; producers may fail | `NoUnexplainedLoss`, `RawKept`, `CompletedOnce`, `AckedSettles`, `BacklogHandled` |
| `retry_chain` | 2 workers, 1 event, 2 retries, 1 rebalance, Redis down | `BackoffEarned`, `RetryChainEnds` |
| `reads` | 3 rows, two of the same time, 2 readers of one of them, 1 pager with pages of 1; Redis and Postgres may fail, keys expire | `TypeOK`, `ReadsCurrent`, `PagesCoverStart` |
| `startup` | 3 processes, 3 failures, kills or lost answers, new or migrated database | `TypeOK`, `NoMigrationClash`, `InstallsAtomically`, `EveryoneServes` |

The bounds are small because the interesting cases are short: two replicas are
enough for one to work on a partition it has lost to the other, and one event is
enough because events share nothing but the order of the partition; `stores`
has two for the case where they differ. `MaxRetry` is 1 where the first failure,
a requeue and the give-up are wanted, 2 in `retry_chain`, and 0 in `stores`
where the give-up itself is the question. Three counted faults allow a
rebalance, a failed commit and a crash in one behaviour. The proofs remove the
bounds for the properties they cover. Symmetry between workers is used in the
safety runs only. In `startup` deadlock is not checked: once everybody
serves and the failures are used up nothing is left to do. It is not checked in
`reads` and `cache_encodings` either, where clients stop asking. A page of one
row among three puts an insertion before, inside and after every page, and
`Asks` has a limit below, at and above what the handlers allow.

`KeepsLedger` is the refinement of `Ledger`: through every redelivery, crash
and retry, the tables change only by adding an event, or a decision on a stored
event. The first attempt at an event and each one the idempotency check lets
through beyond it end at most once, in a failure or in a completed row; a failed
row reports a failure not reported before. A `permanently_failed` row needs more
than `MaxRetry` failures but no attempt of its own: when the commit of a give-up
fails, or its partition moves, the next owner gives the same record up again and
inserts a second row.

`AcceptedAccounted` has two readings. In `stores`, where producers may fail, it
says that an acknowledged event never misses the topic without a cause. In
`replicas`, where they may not, a stop of the API may leave behind only requests
`Shutdown` does not wait for: a producer closed without its flush (the mutant)
violates it there and not in `stores`.

`PermanentFailureEarned` and `RetriesWithinBudget` are the two sides of
`RETRY_MAX_ATTEMPTS`: a comparison off by one in one direction gives up too
early, in the other puts back a copy whose header exceeds the budget.

`BackoffEarned` relates the delay of a retry to the failures of its event. In
the instance no delay within the budget wraps; with one bit less the run finds
the retry that does not wait. With the default base delay of 1000 ms that takes
a `RETRY_MAX_ATTEMPTS` above 54, which `NewDLQWorker` accepts.

`CompletedOnce` is sharper than `IdempotentEffects` where Redis is reliable: a
shutdown makes `Seen` fail and lets a handler through without a key, yet no
second decision follows, because the same cancelled `ctx` stops `SaveDecision`.
Storing the decision under a context of its own, which would mend the lapse
`unsaved`, breaks it; that is the property's mutant.

Five runs show where the code does not do what it says; each is a finding in
`PROJECT.json`.

| Run | What TLC shows |
|---|---|
| `dlq_retry_skipped` | The first attempt sets the idempotency key and fails. The DLQ worker's retry finds the key, is skipped as a duplicate and committed. While the key lives (24 h) and Redis answers, no retry reaches the agent. |
| `message_lost` | After SIGTERM the DLQ copy of a failed event is refused or dropped by the closed producer, and the offset is committed all the same. |
| `seed_unrecorded` | Seeded events have no row in `events`, so no decision on them can be stored. |
| `cache_encodings` | A REST reader gets the blob a GraphQL reader put under `em:dec:<id>`, without prompt, response, status and retry count and with other field names; a GraphQL reader of REST's blob gets `error: ""` for `null`. |
| `seen_not_processed` | A crash between `SET NX` and the decision turns the redelivered event into a duplicate of nothing. |

`NoUnexplainedLoss` is the positive side of these: outside the seven causes of
`Lapses` nothing is lost. Five are places where the code logs, or skips a
duplicate, and goes on; `abandoned` is a process that ends with the event in
hand or in a queue, `resent` is `SeenResent`. The causes are recorded where they
happen, by the event they happen to, so an event lost in any other way violates
the property. A loss with a cause is named, not excused: what the
code does about an unsaved decision or a refused copy (hazards at
`cmd/worker/main.go` lines 94 and 117) is a weakness of the code that the
property documents and does not catch. Redis fails in `redelivery`, where an
error of `Seen` that skipped the event would violate it. `AcceptedAccounted`
and the causes of `lost` do the same before the topic; an `ingestEvent`
mutation that is acknowledged after the producer was closed is one of them.

## Fairness

`FairSpec` assumes that a goroutine that can run does (weak fairness of
`LoopStep` per loop), that librdkafka delivers what is queued or reports the
failure, that the group coordinator gives a free partition to a member, that a
request a handler has is served to its end while its process lives, that the
deferred calls of `main` run, in the worker and in the API, and that a process
that has exited is started again (a Kubernetes Deployment always restarts its
pods). New requests, faults, crashes and rebalances are not fair. `Startup`
assumes weak fairness of each process's step; the lock is waited for under weak
fairness only, which is enough because failures are finitely many and each
holder leaves.

`AckedSettles` excuses an event that missed Kafka for a cause on record in
`lost`: the client is answered as after a success in that case too, and the comments in
`ingestEvent` and `IngestEvent` say so. `AcceptedAccounted` says there is no other case.
`RetryChainEnds` is checked with Redis down, where the handler goes on as if
the event were new: it is the only mode in which the retry loop gets to work.

## Proofs

All proofs hold for any values of the constants that satisfy the named
assumptions: `PlatformAssumption` (`Garbage` is no event, `NoWorker` no worker),
`WorkerAssumption` (`MaxRetry` a natural number, replies known to `Agent`, the
delays and the word width positive), `IngestAssumption` (seeded events are
events, and so are those sent over a WebSocket), `StartupAssumption` and `QueriesAssumption` (times are numbers, the
ids asked for are rows, limits and offsets integers, the page size positive,
and `None` is not an error message). Five theorems need more, and say so in
their statements:

- `RetriesWaitAsEarned` assumes `DoublingFits`: the last doubling within the
  retry budget is below the sign bit. The code checks neither
  `RETRY_MAX_ATTEMPTS` nor the base delay; with the default 1000 ms and a 64-bit
  `int` the hypothesis holds up to 54 retries (the default is 5), and at 55 the
  last wait is negative.
- `ListingsCoverStart` assumes `FromTheTop`: no client starts behind the first
  page. One that does has skipped rows on purpose.
- `OnlySkippedRetriesAreLost` assumes that nothing fails (`Flaky` and `Down` are
  empty): it is about what the code loses on its own.
- `ApiDecisionsRecorded` and `SkippedAreProcessed` are about two sentences of
  the documentation that TLC refutes as they stand, and say when they are true:
  no event is seeded, Postgres answers and there is no SIGTERM; the second also
  needs that Redis answers and nobody crashes. With a Redis that may lose a reply
  TLC refutes the second by `SeenResent` alone.

| Theorem | Says | Inductive invariant |
|---|---|---|
| `TypeCorrect` | `Spec => []TypeOK` | `TypeInv`: the types alone do not say that the record in hand exists and parses, which every handler step needs; `InHand` adds it |
| `DeliveredAtLeastOnce` | `Spec => []AtLeastOnce` | `DeliveryInv`: committed offsets stay within the log; everything before a loop's record was dealt with, and the record itself once its loop is about to commit; the owner's position follows. A loop that has lost its partition may move the committed offset back, never past unhandled records |
| `BudgetRespected` | `Spec => []PermanentFailureEarned` | `BudgetInv`: a copy with `retry-count` n, on the DLQ, in a producer's queue or in a loop's hand, is backed by n + 1 failures of its event. Duplicates and reordering keep it because failures are never taken back |
| `RetriesBounded` | `Spec => []RetriesWithinBudget` | `LimitInv`: queued copies have a count within the budget, and the retry loop, once it has decided not to give up, holds a record whose count is below it |
| `ForeignKeyHolds` | `Spec => []OrphansAreSeeded` | `OriginInv`: an API event in a producer's queue, on a topic or in a loop is in the `events` table |
| `NothingAcceptedVanishes` | `Spec => []AcceptedAccounted` | `StopInv`: once `Shutdown` has returned, the requests in service are the detached ones; once the producer is closed, the API's queue is empty; a process that is gone serves nothing. Whatever is acknowledged after the close is thereby a detached request, and its cause `closed` |
| `RetriesWaitAsEarned` | `DoublingFits` implies `Spec => []BackoffEarned` | `BudgetInv`, of which `Due` says that a loop that waits holds a DLQ record whose `retry-count` is below the budget. The rest is arithmetic: `2 ^ n` as the number of subsets of a set of n elements, which replaces the induction the provers lack, grows with n, and a product below the sign bit survives `Wrapped` |
| `NothingLostUnexplained` | `Spec => []NoUnexplainedLoss` | `LossInv`: an event whose key is set, or one of whose records was dealt with, is concluded, lapsed, in a producer's queue, in a DLQ record nobody has dealt with, or held by a loop while its key exists. It needs `TypeInv`, `DeliveryInv` (no record is passed unhandled), `LedgerInv` (a loop past the agent completes or fails) and `Gone` (a stopped process has no loops) beside it: `AccountInv` |
| `AcceptedNeverForgotten` | `Spec => []AckedAccounted`: from the 201 on, an event is in the API's queue, in flight in the worker, concluded, `Lost` or `Lapsed` | the two accounts, before and after the topic, joined |
| `OnlySkippedRetriesAreLost` | without faults, `Spec => []HealthyOutcome`: the only way to lose an acknowledged event is the duplicate check on the retry loop | `HealthyInv`: no process stops, no cause of `Causes` and no lapse but that one and the foreign key arises; `OrphansAreSeeded` excludes the latter |
| `ApiDecisionsRecorded` | under its hypotheses, `Spec => []DecisionRecorded` | `RecordInv`, with `Unstopped` (a process runs or is gone, so a loop that runs has a live `ctx`) and `OriginInv` (the event is stored) |
| `SkippedAreProcessed` | under its hypotheses, `Spec => []SeenMeansProcessed` | `KeyInv`: an event whose key is set, or a record of which was skipped, has a decision or a loop between its key and its row |
| `EffectsIdempotent` | `Spec => []IdempotentEffects` | `LedgerInv`: the completed rows of an event, its failures and the loops that may still add one of either are together no more than its passes and its key; the failed rows and the loops about to add one no more than its failures. The sets of loops are finite although `Workers` need not be |
| `PipelineKeepsLedger` | `Spec => KeepsLedger` | `TypeInv`, `BudgetInv` and `LedgerInv` together: each step of `Pipeline` maps to a step of `Ledger` or a stutter |
| `CompletedHaveRaw` | `Spec => []RawKept` | `RawInv`: a loop past `SaveRaw` has stored its document or works with a cancelled `ctx`, under which it cannot store a decision |
| `NoSecondCompletion` | `Spec => []CompletedOnce` | `OnceInv`, while Redis answers and no key expires: a handler past the check under a live `ctx` holds the key of its event, is the only one, and the event is not completed yet |
| `MigrationsNeverClash` | `Spec => []NoMigrationClash` | `StartupInv`: only the holder of the lock is in the migration, only it has uncommitted relations, and the statements before its current one have taken effect |
| `StartupTypeCorrect` | `Spec => []TypeOK` of `Startup` | the same invariant |
| `SchemaInstalledAtomically` | `Spec => InstallsAtomically` | the same invariant; every step of `Startup` is a step of `SchemaInstall` or leaves `schema` and the serving processes alone |
| `QueriesTypeCorrect` | `Spec => []TypeOK` of `Queries` | the types themselves |
| `ReadsAreCurrent` | `Spec => []ReadsCurrent` | `Backed`: what is cached, and what a reader is about to cache or has answered, is in the table; rows are never deleted |
| `ListingsCoverStart` | `FromTheTop` implies `Spec => []PagesCoverStart` | `CoverInv`: while a client still pages, the rows at least as new as one it has not received number more than its `offset`, so no later page begins behind that row; insertions only add to them. Which page a row falls on is counted through the place of the row in any order the query may return |

Each proof has one lemma per action or per group of actions that leaves the
same state alone. `DeliveryProofs`, `RetryProofs` and `IngestProofs` build on
the type invariant of `PipelineProofs`, `StoreProofs` on `RetryProofs`, and
`LossProofs` on `DeliveryProofs`, `StoreProofs` and `IngestProofs`. The inductive
invariants were found to hold by TLC on the instances above before they were
proved.

Every safety property and both refinements that the passing runs check are
stated by a theorem. Only model-checked are the liveness properties
`AckedSettles`, `BacklogHandled`, `RetryChainEnds` and `EveryoneServes`: they
rest on fairness, which needs `ENABLED`, beyond the prover. The violations
are counterexamples of TLC; what is left of three of the refuted claims is
proved in `OnlySkippedRetriesAreLost`, `ApiDecisionsRecorded` and
`SkippedAreProcessed`.

## Not modelled, and the plan

Not modelled so far:

- GraphQL subscriptions. README.md:163 and `schema.graphql`:35 promise a stream
  of "new decisions as they are made by the agent", but no process calls the
  broker's `Publish`, and the agent runs in another process than the broker:
  `onDecision` never delivers anything. The goroutine of `OnDecision`, which
  would block on a client that stops reading, and the lock around `Publish` and
  `unsubscribe` become worth a model when a publisher exists.
- A `retry-count` header that EventMind did not write itself.
- The reads of `internal/storage/mongo.go` and `Get`, `Set` and `Del` of
  `internal/cache/redis.go`, which nothing calls.

Left out for good: metrics and logging (no decision reads them), HTTP
middleware, the choice of an LLM provider by environment variables, the
generated GraphQL code, Terraform, Docker and Grafana files. A foreign record
whose value is a JSON object without an event is not modelled: it would be one
more event that shares the empty id.
