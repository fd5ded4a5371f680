# A verification of the resilient e-commerce microservices

TLA+ modules of the order, payment, product and gateway services in this repository,
TLC configurations that check them on small instances, and TLAPS proofs of what
matters most for instances of every size. Paths below are relative to the root
of the repository. `PROJECT.json` lists the components, the runs, the lines each
definition stands for, the hazards and the theorems.

    tlc -config MCOrderFlow.cfg MCOrderFlow.tla      # check one run
    tlapm OrderFlowProofs.tla                        # check the proofs of one module

## The system

| component | state it keeps | operations |
|---|---|---|
| gateway (`cmd/gateway`, `internal/gateway`) | one token bucket per client address | rate limit, then translate HTTP to gRPC |
| order service (`cmd/order`, `internal/order`) | tables `orders`, `order_items`, `outbox_events` | `CreateOrder`, `GetOrder`, `ListOrders`; consumer of `payment_completed`; outbox relay |
| payment service (`cmd/payment`) | none | consumer of `order_created`: charge, publish `payment_completed` |
| product service (`cmd/product`, `internal/product`) | table `products` | `CreateProduct`, `GetProduct` |
| event consumer (`pkg/broker`) | one subscription | declare, bind, consume, call the handler, ack or nack |
| RabbitMQ client (`pkg/rabbitmq`) | one connection with one channel | reconnect for ever, operate under a read lock, close |
| outbox relay (`worker`) | rows of `outbox_events` | fetch pending rows, publish, mark |

They interact in four ways. The gateway calls the order and product services
over gRPC. The order service calls PostgreSQL from many goroutines at once; row
locks and transactions are what keeps those apart. The order and payment services
send each other two events over one topic exchange of RabbitMQ, each with a
durable queue of its own. Within a process, the consumer, the publishing requests
and the relay share one `rabbitmq.Client`, whose goroutine replaces the
connection under them.

What is hard in it, and what the modules are about:

* two callers of `UpdateStatus` and its check made twice, once without a lock;
* a commit whose outcome the caller does not learn;
* an order that is saved and an event that is not sent, or sent in vain, since
  there are no publisher confirms;
* deliveries that are repeated after a crash or a lost connection, and the
  deliveries still buffered for a subscription that is dead;
* a handler that charges first and then asks for a redelivery;
* `handleReconnect` racing dying connections, dying channels and `Close`;
* relay workers that take the same rows, and rows published but not marked;
* first requests of one address racing to make its bucket;
* an exchange that is declared by a goroutine while orders are already published;
* operations that talk to the broker under a read lock, and writers in line for it;
* a shutdown that closes what goroutines and requests still work with, a signal
  before or during the start, `os.Exit` between two steps of it;
* a relay that holds a database connection while it asks the pool for another;
* sums of money at the edge of an int64, quantities wider than their column, ids
  that the database replaces;
* clients that send a request again while the services still work on the first;
* rows of several orders mixed in one result.

## The modules

| module | what it is | code |
|---|---|---|
| `OrderDomain` | statuses and `CanTransitionTo` | `internal/order/domain/order.go` |
| `OrderLifecycle` | abstract: an order is created and moves along `CanTransitionTo` | promise of the order store |
| `AtomicOrders` | abstract: every call takes effect in the step that answers it | promise of the order store to its callers |
| `OrderStore` | concurrent calls of `CreateOrder` and `UpdateStatus` on PostgreSQL | `internal/order/repository`, `internal/order/service` |
| `OrderRows` | `ListOrders` and `getOrder` making orders out of joined rows | `internal/order/repository` |
| `OrderValues` | the numbers of an order, from the call through sum, rows and event to the answer | `internal/order/service`, `repository`, `handler`, `broker` |
| `ProductCatalog` | `CreateProduct` and `GetProduct` | `internal/product`, `internal/gateway/handler` |
| `Storefront` | `OrderValues` and `ProductCatalog` side by side | |
| `AtLeastOnce` | abstract: a message stays until its handler has finished with it | promise of queue and consumer |
| `EventConsumer` | the loop of `EventConsumer.Start` with its queue and its connection | `pkg/broker`, parts of `pkg/rabbitmq` |
| `Checkout` | abstract: placed, charged, paid | promise of the two services |
| `OrderFlow` | `PlaceOrder` and the two handlers on top of `EventConsumer` | `internal/order`, `cmd/payment`, `cmd/order` |
| `ServiceProcess` | the four main functions, from start to exit, with goroutines, requests and the database pool | `cmd/*`, `internal/pkg/db`, `pkg/config`, `pkg/telemetry` |
| `RabbitClient` | the goroutine of the client, its operations, and `Close` | `pkg/rabbitmq` |
| `OutboxRelay` | several relay workers over one table | `worker/outbox.go` |
| `IdealLimiter` | abstract: a full bucket for each address from the start | promise of `RateLimit` |
| `RateLimiter` | `GetLimiter` and `RateLimit` | `internal/gateway/middleware` |
| `Gateway` | retrying clients, the limiter, the HTTP and gRPC handlers of an order | `internal/gateway/handler`, `internal/order/handler`, `internal/order/service` |

`OrderFlow` EXTENDS `EventConsumer` and instantiates the consumer twice, for the
services "order" and "payment", with the real handlers in place of the free one.
It takes `orderService.UpdateStatus` as one step; that it may is what
`OrderStore` and its refinement of `AtomicOrders` show, and the statuses that its
handlers set are moves of `OrderLifecycle` again. `ServiceProcess` EXTENDS
`EventConsumer` too, and puts one consumer into a process that starts, stops,
crashes and is started again. `Gateway` EXTENDS
`RateLimiter` and puts every request through it; it takes the order store by its
abstract life cycle, and the publish by its outcome. `OrderValues` EXTENDS
`OrderRows`, which reads the rows that it writes. The `MC...` modules give
the constants values; the `...Proofs` modules hold theorems and what they need.
`GatewayProofs` begins with the theorems about the limiter, and `OrderRowsProofs`
goes on from the rows to the values and the catalog.

How state and code correspond:

* **OrderStore.** `status` and `rows` are the committed tables, `rowLock` the
  lock of `SELECT ... FOR UPDATE OF o`. A call has a program counter with one value
  per statement that other calls can come between, and `seen`, the status of the
  `domain.Order` it read. A transaction's writes appear with its COMMIT, and the
  deferred `Rollback` is the release in `Validate` and `Abort`. COMMIT may report
  an error after it took effect.
* **OrderRows.** `left` are the rows the database has yet to return; it returns
  them in any order that is newest first. `found` and `items` are `orderIDs` and
  `orderMap`, or the one order of `getOrder`. Which `created_at` orders carry is a
  constant, so equal times are included.
* **OrderValues.** `cart` is what `PlaceOrder` is called with, `total` its running
  sum: `Wrap` is Go's overflow, `Quot` and `Rem` its division. `exact` and `fits`
  are history, for `TotalIsExact` only. `mine` is the id that INSERT returns, `id`
  the one in memory, `orderRow` and `itemRows` what the statements have written; a
  query sees them from the commit on. The gRPC handler sets no price, so orders made
  through the API sum up to nothing; `PlaceOrder` takes any price and is modelled for
  any that is not negative. Units, nanos and both integer types are scaled by constants.
* **ProductCatalog.** `catalog` is the table, which has no column for `is_active`;
  `created` and `shown` are what callers were told last. A `CreateProductRequest` of
  the gateway always has a price, one of another gRPC caller may not.
* **EventConsumer.** `ready` is the queue, `buf` the deliveries the AMQP
  library buffers for the subscription, `cur` the one the handler has. `open` says
  that the channel of the subscription lives; the broker requeues what was not
  settled as soon as it does not, while the goroutine may go on with `buf` and
  `cur`. Queues are bags: no property depends on the order of messages.
* **OrderFlow.** `placed` is the `CreateOrder` request of an order: saved, sent once
  the publish has returned nil, and in the end what its caller was told. Publish and
  answer are steps of their own (`Respond`), so that a crash of the order service, a
  call that breaks or a caller that stops waiting (`AnswerLost`) comes between
  them: the request has failed and the event is out. `charging` is set between the payment handler's business logic and its publish, `lost`
  remembers which events were published in vain, for the properties only.
  `PublishInVain` is a publish that returned nil on a dying connection.
  `exchange` says that someone has declared the exchange: `NewRabbitMQBroker`'s
  goroutine, or a consumer before it binds its queue. A publish before that returns
  nil, and the broker closes its channel (`PublishUndeclared`).
  `BrokerRestart` drops what is transient: `payment_completed`.
* **ServiceProcess.** `program` is which of the four main functions the process
  runs. A start-up is a script of steps in the order of the code; `deferred` is the
  stack of what main has opened, `started` the goroutines, `ctxDone` the context of
  `signal.NotifyContext`. `Release` runs one deferred call at a time, with the
  goroutines at work in between; `Die` is the end, whichever way it comes about. The
  listen step includes the server. `holding` and `asked` count the connections of
  the pool: the relay needs a second one while it reads the rows of its batch, a
  request one at a time. The four programs share no state but the broker, so one
  process at a time is modelled, and the run lets it be any of them.
* **RabbitClient.** Connections are numbered as they are dialled; `live` and
  `chans` is what the server has, `current` what `c.conn` and `c.ch` hold.
  Installing and announcing are two critical sections, as in the code. `using` is the
  connection of an operation that holds the read lock while it talks to the server,
  `writer` who is in line for the write lock: as with Go's `RWMutex`, new readers
  wait behind a writer, and the writer waits for the readers that are in.
* **OutboxRelay.** A publish that returns nil is one of two steps: `Publish`, after
  which a queue has the message, and `PublishInVain`, after which nobody has and
  `vain` remembers it; the worker cannot tell them apart. `lock` holds the row locks of a worker's fetch, which go with
  the statement because the fetch runs outside a transaction; the UPDATE waits for
  locks and asks for no status. The rows of one batch are assumed to fit in the
  buffers of the database connection.
* **RateLimiter.** Each critical section of the map is one step; the bucket of
  `golang.org/x/time/rate` is modelled by its tokens, with time in units of one
  token.

* **Gateway.** A request is a pair of its client and its number; the one that makes
  an order stands for the order too, since each call makes a new id. `stage` is how
  far the services are with it, `answer` what its client was told. The two are apart:
  `NoAnswer` is a client that stops waiting, or a call between the services that
  breaks, while `stage` may go on. What a request does (POST, or one of
  the two GETs once an order is known) follows from the answers before it. Of a list
  of orders only the client's own is looked at. That a body is malformed or has no
  items is a choice of the client's, made again for each request.

Operators whose comment begins "Mutated form" change one definition the way a
plausible bug would; with it in place the property that `PROJECT.json` pairs it
with is violated. They take no part in any specification.

## The runs

| run | instance | shows |
|---|---|---|
| `order_store` | 4 calls, an order of one item and one of two | safety, refinement of `OrderLifecycle` and of `AtomicOrders`, every call returns |
| `order_rows` | 4 stored orders, two made at the same time, one without items; calls of up to 3 items around each carry and limit; 2 products, 2 failures | complete answers for every order of rows; exact totals, ids and items read back; products read back |
| `consumer` | 1 process of any program, 1 message, 1 request, a pool of 2, 2 faults, free handler | refinement of `AtLeastOnce`, the backlog drains unless the process stays down or the handler requeues for ever, requests keep what they need, a signal ends the process, the pool never waits for itself and serves all |
| `order_flow` | 2 orders, 1 fault | safety, refinement of `Checkout`, no poisoned event without a fault, the queue of `order_created` outlives every fault, announced orders get paid |
| `order_flow_publish` | 1 order, 1 fault | finding, below |
| `order_flow_requeue` | 1 order, 1 fault | finding, below |
| `rabbit_client` | 4 connections, 2 deaths, 2 callers, 1 `Close` | safety, what a closed client may leave open, reconnection, the goroutine ends |
| `rabbit_client_close` | 2 connections, 1 death | finding, below |
| `outbox` | 2 workers, 3 rows, batches of 2, 2 faults | safety, every row is marked |
| `outbox_twice` | 2 workers, 2 rows, no fault | finding, below |
| `gateway` | clients with 3 and 2 requests, all but the last at one address, burst 2, 1 fault | the rate is kept and nothing else is rejected; refinement of `IdealLimiter`; causes of second orders and of 404; statuses never go back |
| `gateway_retry` | the same, no token gained | finding, below |

Why these bounds are enough to meet the interesting cases:

* Four calls are one that creates, two that contend for the same move and one
  that makes another move (a cancellation) between the two checks of either.
* Two orders in `OrderFlow` let a redelivery of one overtake the other, and the one
  fault (a crash, a lost connection, a restart of the broker, a lost answer, a
  publish in vain, a failing database) strikes at every point of either. Losing
  a connection is no fault of the count where the code itself brings it about: a
  publish before the exchange is declared does, at any time. For more faults the
  safety properties are theorems; the run has one because
  liveness over two orders and two faults takes more states than are worth it.
* Two faults in `ServiceProcess` cover a failed start of a process that has lost its
  connection or has crashed before. One message is redelivered, and delivered next to
  the copy of a dead subscription. A pool of two is the least that serves the relay;
  with one request beside it, both want its last connection.
* Four connections for two deaths leave a dial for a channel that does not open
  or for the dial that races `Close`. Two callers are one that is in and one that
  waits behind a writer.
* A unit of 14 nanos, an int32 up to 31 and an int64 up to 511 keep the proportions
  that matter: two units' nanos fit in an int32 and three do not, and the products
  around the greatest int64 are a few items away.
  Products and orders share no state, so the run explores one at a time.
* A batch of two of three rows gives a worker a second fetch, and lets the
  batches of two workers overlap in part.
* With a burst of two and one token gained, four requests from one address are
  one more than may be served, and the one from elsewhere makes a second bucket
  beside theirs. Three requests of one client are a lost order, its
  repetition and a read, or an order and two reads; one fault is enough to lose an
  answer whose order is saved later than that of the repetition.

The runs do not repeat what is proved of types: but for `ValuesTypeOK`, where the
bounds of the types are the point, a type invariant is a theorem and no property of
a run. It can be checked by adding it to the run's configuration.

`CHECK_DEADLOCK FALSE` stands where the system really may stop: finite calls
that have returned, requests that are answered with nothing left in the queues, a
query that is over, a closed client.

### Fairness

* `OrderStore`: weak fairness of the steps of a started call. Goroutines are
  scheduled, and PostgreSQL's lock queue is first come, first served. No call has
  to start or to fail.
* `EventConsumer`: weak fairness of reconnecting (`handleReconnect` retries until
  it succeeds), of the goroutine's own steps and of the broker's deliveries, and
  strong fairness of receiving a given buffered message, since the buffer is first
  in, first out while the model keeps it as a bag. `ServiceProcess` adds
  weak fairness of main's own steps (a start-up, a shutdown whose timer fires), and
  strong fairness of the pool's grants, because `database/sql` gives a released
  connection to a waiter that it picks at random, so that none is passed over for
  ever. Requests may hang for ever, and no signal, crash or message has to come.
  Nothing is assumed of two things that the repository does not guarantee: that
  somebody starts a process again (`docker-compose.yml` restarts the broker and the
  databases, and none of the four services), and that a handler ever stops
  asking for a redelivery (finding 2). `BacklogDrains` names both as its exceptions.
* `OrderFlow`: besides, handlers return and a saved order goes on to its publish
  and its answer. No request has to be made and no fault has to happen. A service
  that exits and its next start are one step (`Crash`), so `AcceptedOrdersGetPaid`
  holds for services that somebody starts again, which is not in the repository.
* `RabbitClient`: weak fairness of the goroutine and of a started `Close`; strong
  fairness of a dial and of opening a channel (a server that is tried for ever lets
  the client in some time), and of `Stop`, because Go's `select` chooses at random
  among ready cases and a timer that was just made is not ready.
* `OutboxRelay`: the ticker ticks, statements end, and a row that is tried again and
  again finds the client connected some time, so that its publish returns nil. It need
  not reach a queue.

## Findings

Each is a run in which TLC violates a statement the code makes of itself.

1. **A publish that fails is reported as a success** (`order_flow_publish`).
   `internal/order/domain/order.go:82` says `PublishOrderCreated` should return an
   error if the message fails to publish. Without confirms, and with
   `mandatory = false` (`pkg/rabbitmq/rabbitmq.go:187`), it returns nil for a
   message no queue receives and for one whose connection is dying. The outbox relay
   inherits it: it marks the row after that nil. `MarkedIsAccountedFor` shows the
   extent there: a marked row whose message nobody has was published in vain.
2. **A duplicate event is requeued for ever** (`order_flow_requeue`).
   `internal/order/handler/payment_handler.go:37` calls every failure transient.
   `ErrInvalidStatus` of an order that is PAID already is not: after one
   redelivery of `payment_completed` the consumer is busy with it for good.
   `PoisonHasACause` shows the extent: it takes a fault.
3. **A closed client may leave a connection open** (`rabbit_client_close`).
   `Close` (`pkg/rabbitmq/rabbitmq.go:213`) closes what is installed at that
   moment; a dial under way is installed afterwards. `LeftOpenIsKnown` shows the
   extent: it is one connection, and the closed client still counts as connected.
4. **Two relay workers publish the same row** (`outbox_twice`). The comment at
   `worker/outbox.go:52` says the fetch is in a transaction that holds its locks; it
   runs on `w.db`, and its locks end with the statement.

5. **A repeated request makes a second order** (`gateway_retry`).
   `proto/order/v1/order.proto:52` calls the idempotency key essential for retries;
   the gateway passes it on and `OrderHandler.CreateOrder`
   (`internal/order/handler/handler.go:37`) drops it. It takes no lost answer: an
   order that is saved and whose event fails is reported as a failure.

`LeaksHaveACause` also shows the extent of a smaller one: a channel that dies
alone makes the client dial again without closing the connection it had, once per
such death and for no other reason.

## What is proved

TLAPS checks the following for every value of the constants.

| theorem | statement |
|---|---|
| `OrderStoreProofs!TypeCorrect` | `Spec => []TypeOK` |
| `OrderStoreProofs!LockedReadCurrent` | what was read under the lock holds until COMMIT |
| `OrderStoreProofs!OneSuccess` | a move succeeds for one caller at most |
| `OrderStoreProofs!AllItems` | no order without all its items |
| `OrderStoreProofs!StoreImplementsLifecycle` | the store refines `OrderLifecycle` |
| `OrderStoreProofs!StoreIsAtomic` | the store refines `AtomicOrders`: to its callers it is atomic |
| `OrderRowsProofs!AnswersComplete`, `RowsTypeCorrect` | orders made of joined rows are complete, once each and newest first |
| `OrderRowsProofs!StorefrontReadsRows` | the storefront reads rows as `OrderRows` says |
| `OrderRowsProofs!TotalsExact`, `ValuesTypeCorrect` | totals are exact while an int64 is enough, for any widths; money and quantities keep their widths |
| `OrderRowsProofs!EventsNameRows`, `OrdersReadBack` | the event has the id and total of the row; total and items are read back |
| `OrderRowsProofs!ProductsReadBack`, `ProductsFound`, `CatalogTypeCorrect` | products are read back but for `is_active`, and found unless a call failed |
| `ServiceProcessProofs!ProcessRunsConsumer`, `ProcessKeepsPromise`, `ProcessConsumerTypes` | a process is a consumer, so what is proved of consumers holds in it |
| `ServiceProcessProofs!ResourcesKept`, `ProcessTypeCorrect` | requests keep what they work with until a forced stop; types |
| `ServiceProcessProofs!PoolDeadlockFree` | whoever waits with a connection in hand, one is free or is coming back |
| `EventConsumerProofs!ConsumerTypeCorrect` | `ConsumerSpec => []ConsumerTypeOK` |
| `EventConsumerProofs!ConsumerKeepsPromise` | consumer and queue refine `AtLeastOnce` |
| `OrderFlowProofs!TypeCorrect` | `Spec => []TypeOK` |
| `OrderFlowProofs!FlowImplementsCheckout` | the services refine `Checkout` |
| `OrderFlowProofs!ChargesBounded` | an announced order is charged once and once more for each fault at most, one whose request failed once for each fault, any other never |
| `OrderFlowProofs!NoneForgotten` | an announced order that is PENDING has an event with the broker, unless one was lost |
| `OrderFlowProofs!PoisonCaused` | no event that cannot be handled reaches a handler without a fault |
| `OrderFlowProofs!PaymentQueueDurable` | the queue of `order_created` and its consumer refine `AtLeastOnce` through every fault, of the broker too |
| `OrderFlowProofs!FlowKeepsLifecycle` | the services move orders as `OrderLifecycle` allows |
| `RabbitClientProofs!ClientTypeCorrect`, `ConnectedCurrent` | types; "connected" means that the newest connection is installed |
| `RabbitClientProofs!OperationsKeepChannel` | what an operation runs on is the installed connection until it returns |
| `RabbitClientProofs!LeaksCaused` | open connections are one and the channels that died alone, at most |
| `RabbitClientProofs!LeftOpenKnown` | unless a channel died alone, a closed client leaves open no more than the installed connection, and counts as connected with it |
| `RabbitClientProofs!WritersAtWork` | readers never wait behind a writer that has gone |
| `OutboxRelayProofs!TypeCorrect`, `DuplicatesBounded` | types; a row is published once for each worker and fault at most |
| `OutboxRelayProofs!MarkedAccountedFor` | a row is marked after a publish of it returned nil, and without a message with a queue only after one in vain |
| `GatewayProofs!GatewayTypeCorrect` | `GatewaySpec => []GatewayTypeOK` |
| `GatewayProofs!GatewayUsesLimiter`, `GatewayRateLimited` | the gateway implements the limiter's specification, so the rate is kept |
| `GatewayProofs!LimiterRefinesIdeal`, `GatewayLimiterIsIdeal` | the limiter, alone and in the gateway, refines `IdealLimiter` |
| `GatewayProofs!DuplicatesCaused` | a second order only after a failure or no answer |
| `GatewayProofs!NotFoundCaused` | 404 for an order a client was told of only when a call failed |
| `GatewayProofs!StatusesForward` | what a client is told of its order never goes back |
| `GatewayProofs!TypeCorrect`, `RateLimited`, `RejectionsJustified` | types, the rate, no unjustified rejection |

They rest on the named assumptions of the modules: an order has at least one item
(`SizeAssumption`, which the gRPC handler enforces), "no call" and "no message"
are not a call or a message, bounds are natural numbers, the two services are
"order" and "payment", requests and relay workers are finitely many, each request comes from one address,
each has a client and a number (`GatewayAssumption`), a stored order has a set
of items and a time of creation (`RowsAssumption`), an int32 has room for the nanos of
two units less two (`ValuesAssumption`; 2 * 10^9 is less than 2^31), markers for a
missing value are no values (`CatalogAssumption`), and the pool has two connections at
least (`ProcessAssumption`; 100 in the code).

The arguments:

* *Order store.* The invariant says that a call between its locked read and its
  COMMIT holds the row's lock and that the status it read is the row's. Exclusion
  by the lock makes the second half inductive: nobody else can be at COMMIT for the
  same order. A successful move leaves a status from which the same move is not
  legal again, and legal moves never lead back, so one success rules out a second.
  Items are complete because rows and order appear in the same COMMIT and the loop
  has staged as many as the request has. Each step then maps to a legal move
  or to a stutter.
  Calls are atomic by the steps at which they take effect: COMMIT for what
  succeeds, a check that fails for what is refused. The first check reads without a
  lock and answers at once; the second rests on what was read under the lock, which
  is the row's status still. Only a COMMIT that reports an error leaves
  both outcomes open, and `AtomicOrders` allows both after "error" alone.
* *Order rows.* The invariant compares what was made with the rows that were taken,
  not with the rows in some order: an order is in `found` if a row of it was taken,
  it has exactly the items of the taken rows, and no row that is left is newer than
  what was found. When no row is left, the taken rows are the join, and a LEFT JOIN
  has a row for each order, even for one without items.
* *Order values.* The nanos of a running total are less than a unit, so that adding
  less than another unit neither leaves an int32 nor needs a second carry: each pass of
  the loop keeps the sum exact, as long as the worth of the item and the sum are
  within an int64. Once the row is inserted, its total is the one in memory and the
  id is the row's; each item's row is the item of the same place in the call, which
  the answer finds again through the ids of the rows that `OrderRows` brings back.
* *Product catalog.* Whatever a creator was told is what the row holds, and the row
  never changes; a 404 for such a product takes a failed call.
* *Process.* Every step is a step of the consumer or leaves it alone; a shutdown's
  `Close` and a crash are steps the consumer allows at any point. A server listens
  only when all that its requests need is open, as the order of the start-up has it,
  and main returns, and begins to close, only when no request is left or the stop
  was forced.
  The pool cannot wait for itself because the relay alone ever asks with a
  connection in hand. When none is free, the two or more that are out are not all
  its own, and whoever has another does not wait. That the pool has two connections
  is an assumption for this reason.
* *Event consumer.* With the type invariant alone, every step maps to a step of
  `AtLeastOnce` or a stutter. The invariant's clause that a subscription is live only
  on a live connection, and that a message is in hand exactly from receipt to
  settlement, is what makes requeueing on a dead channel leave the backlog as it was.
* *Order flow.* `FlowImplementsCheckout` needs that a `payment_completed` event
  exists only for an order that was charged, and an `order_created` event only for
  an order that is saved, wherever copies are: in a queue, a buffer or a hand.
  `ChargesBounded` counts: charges so far, plus copies still to be handled,
  buffered copies of dead subscriptions included, never exceed one more than the
  faults, and where the request ended in an error they never exceed the faults: an event
  of such a request is out only if its answer was lost afterwards, which is a fault
  that no other charge was counted against. `NoneForgotten` follows one event at a time: it is with the broker until
  the step that hands over to the next event or to the status PAID.
  `PoisonCaused` is a count for calm times: as long as there was no fault, a consumer that
  got past its subscription keeps it, nothing is subscribed before the exchange is
  declared, and each announced order has one copy ahead at most, so that the event
  in hand finds an order that is not PAID yet. `PaymentQueueDurable` projects the
  refinement of `AtLeastOnce` on one of the two queues: the steps of the other
  consumer are stutters, and a broker restart empties the transient queue only.
  `FlowKeepsLifecycle` goes through `Checkout`, whose steps are moves of the life cycle.
* *RabbitMQ client.* The orphans are the connections open at the server that have no
  channel and are not about to get one. Only a channel that dies alone makes one: a
  failed channel is closed with its connection, and the goroutine dials again only
  when the newest channel is dead. The other connections are the newest, or none.
  An operation keeps its channel because whoever replaces it needs the write lock,
  which nobody has while a reader is in.
  What `Close` may leave follows from the converse of `ConnectedCurrent`: an installed
  channel that works is announced, unless the client is about to announce or to close
  it. Without orphans, what is open after `Close` is that connection.
* *Outbox relay.* A worker past its publish has the row at hand, and either a queue
  has a message of it or one was published in vain; only such a worker marks.
  Duplicates are counted by worker: while a row is not marked, each message of it was
  paid for by a fault or has a worker that is about to mark it; once it is marked no
  fetch returns it, and each message has a fault or a worker that cannot publish it
  any more. A batch is no longer than its limit because fewer rows than the limit
  are older than its last.
* *Rate limiter.* A handler that has a bucket has the one in the map for good, no
  two addresses share one, and tokens plus requests served lie between the burst
  and the burst plus the time passed.
  `IdealLimiter` is met with a mapping of two parts: an address that has no bucket
  yet has a full one, and a request is decided when it is served or rejected. The steps
  that look a bucket up or make it are stutters: a new bucket is as full as the one
  that was imagined, and a request that comes second under the write lock takes the
  first one's.
* *Gateway.* Every step is a step of the limiter or leaves it alone, so what was
  proved of the limiter holds. For the rest the invariant says that a client waits
  for an answer before its next request, and that only a request before which no
  order was told makes one. So the earlier of two orders of a client was neither told
  nor refused: its request failed. A client reads one order, the only one it was told
  of; each status it was told is the order's or one the order has left, and orders
  only move forward.

Only model-checked: every liveness property (temporal reasoning under fairness and
ENABLED are outside what the prover does). Every safety property of a passing run
is proved as well. The findings are counterexamples, for which there is nothing to prove.

## What is not modelled

* In `Gateway`, the response of a request is one step with the last step of the order
  service: a client that is sequential cannot tell, and one that stopped waiting
  ignores it. `OrderFlow` has the two apart.
* Rows of an outbox batch that do not fit in the buffers of their connection, so that
  the relay's own update would wait for a fetch that waits for the relay: row sizes
  would have to be modelled, and the code sets no limit to compare them with.
* The rate limiter's map is never cleaned. The code has no time after which a bucket
  should go, so there is nothing to check its size against.
* Telemetry: traces, metrics, logs and the headers that carry a trace across AMQP
  are no state of the program. What is modelled is that setting it up may fail, with the
  providers already registered left behind, and that main goes on without it.
* Configuration values, which are constants here, and the lifetime of idle database
  connections. Currencies of orders, times of creation beyond their order, names and
  descriptions: they travel along unchanged.
* Bodies of messages that are not JSON: both producers marshal the types the consumers
  read.
* `internal/payment`: no program imports it; `cmd/payment` has its own handler.
  `internal/order/domain/product.go` and
  `pkg/grpcutil` are not used either. `src/proto` holds a second copy of the generated
  code that no source file imports; of `src/pb`, the enumeration, messages and stubs
  that the programs call are in the models, accessors and descriptors are not.
* Deployment. `docker-compose.yml` restarts the broker and the databases
  (`restart: unless-stopped`) and none of the four Go services; in the models somebody
  may start a service again, and where a property needs it this is said. It runs one
  instance of each service; `OutboxRelay` has several, because nothing in
  the code would keep a second one from running.
* The difference between Internal and NotFound, which a gRPC caller of the product
  service sees. `GetFails` is what the gateway's client gets: 404 for both.

## Plan

All that was planned is modelled. What a change of the code would call for first:

1. a writer of `outbox_events` in the transaction of `CreateOrder`, which
   would replace the publish after the commit, and join `OutboxRelay` to `OrderFlow`;
2. an idempotency key that is stored, which would turn `OneOrderPerKey` into an
   invariant of `Gateway`;
3. publisher confirms, which would do the same for `PublishedOrReported`.
