# Verification of go-order-service-api

TLA+ models of the order-service and the stock-service, the TLC runs that check
them, and TLAPS proofs about both. Paths such as
`product_service.go:195` are relative to `src/internal/...` of the repository.

## 1. The system

Two Go services, each with a PostgreSQL database of its own, joined by HTTP and
by two topics of a Kafka-compatible broker (Redpanda).

| Component | State | Operations | Correct when |
|---|---|---|---|
| stock reservation engine: `application/product_service.go`, `infra/repository/{product,stock_reservation}_repository.go`, `domain/product.go` | `products` (stock), `stock_reservations` (primary key saga, product) in stock_db; row locks and connections of running transactions | `Reserve`, `Release`, `Update`, `Delete`, `ReconcileStaleReservations` | no unit is lost or created; both operations can be repeated; nobody waits for ever |
| command consumer: `entrypoint/messaging/consumers/reserve_consumer.go` | committed offset of `stock-commands`, record in hand | `Run`, `handle` | every command has its effect once, however often it is delivered |
| saga client: `infra/sagaclient/client.go` | map of waiters, one channel per call | `Reserve`, `dispatch`, timeout | a call only ever gets its own reply, and always ends |
| order creation saga: `OrderService.Create` | products reserved so far, `orders`, `order_items` | lookup, reserve each product, persist, compensate | an order exists only over its reservations; a failed attempt leaves none |
| order lifecycle: `Pay`, `Cancel`, `UpdateStatus` | `orders.status`; row locks and connections of orders_db | under the row lock of the order; Cancel refunds over HTTP inside its transaction; the response is read after the commit | final states are final; one of several requests wins; CANCELED means refunded; every request is answered |
| product catalogue: `Create`, `Update`, `Delete` of products | names and prices in `products`, the unique index on the name | check, then insert; PUT under the row lock | names are unique; refusals are true; nobody but PUT changes a price |
| client registry: `ClientService.Create` | `clients` | look up, hash, insert | e-mails are unique, one registration succeeds |
| order queries: `FindByID`, `FindAll` | none | SELECTs over the pool, outside any transaction | whoever reads an order reads all of it; paging misses nothing |
| controllers, routes, DTOs | none | which answer an error becomes | part of the contracts of the above |
| config, logging | none | start-up | – |

How they interact: `Create` (order-service, one goroutine per HTTP request) looks
the products up over HTTP, then publishes one `stock.reserve.requested` per
product to `stock-commands` and blocks in `sagaclient.Reserve` until `dispatch`
hands it the reply from `stock-events`, or 30 s pass. The stock-service has one
consumer goroutine that calls `ProductService.Reserve` and publishes the reply.
When anything fails `Create` releases, over HTTP, what it reserved, and
"defensively" the product whose outcome it does not know. What still stays
reserved is released by the reconciliation, a ticker in the stock-service. All
of these, POST /reservar, POST /liberar, PUT and DELETE meet on the rows of
stock_db.

Hard behaviours: statements of concurrent transactions interleave; commands are
delivered at least once; replies are lost, late or repeated; timeouts race
replies; either service dies between two steps; acknowledgements of COMMIT are
lost; two databases with no common transaction; a transaction that needs a
second connection. `PROJECT.json` lists each of these as a hazard at its line.

## 2. The modules

| Module | What it is |
|---|---|
| `StockLedger` | abstract: what stock_db promises. Four atomic changes: units are reserved, units are released, a stock is overwritten, a product is removed |
| `StockService` | detailed: `ProductService` statement by statement, with row locks, READ COMMITTED, and the connection pool; implements `StockLedger` |
| `OrderSaga` | the composition: saga, saga client, topics, consumer, order lifecycle and reconciliation over the atomic steps of `StockLedger` |
| `OrderLifecycle` | abstract: what callers of pagar, cancelar and PATCH status may rely on |
| `OrderService` | detailed: Pay, Cancel, UpdateStatus by statement, HTTP call and connection; implements `OrderLifecycle` |
| `UniqueRegistry` | abstract: a table with a unique column behind an API |
| `Catalog`, `ClientRegistry` | detailed: products and clients; both implement `UniqueRegistry` |
| `OrderBook` | abstract: orders that appear whole and never change their lines |
| `OrderStore` | detailed: the transaction of `Create` and the readers, by statement; implements `OrderBook` |
| `StockLedgerProofs`, `StockServiceProofs`, `OrderSagaProofs`, `OrderServiceProofs`, `OrderStoreProofs`, `CatalogProofs`, `ClientRegistryProofs` | theorems |
| `FoldLemmas` | what the folds of the models compute, by induction over finite sets |
| `MCStockService`, `MCOrderSaga`, `MCOrderService`, `MCCatalog`, `MCClientRegistry`, `MCOrderStore` | small instances for TLC |

The same rows appear in several modules, each time with the columns the module
is about: `products` as stock (`StockLedger`, `StockService`), as name and price
(`Catalog`), as price alone (`OrderStore`); `orders` as status (`OrderService`,
`OrderSaga`), as items and total (`OrderStore`).

### StockLedger

`present`, `stock` and `reservation[p][s]` are the rows of `products` and
`stock_reservations`; `NoRow` is the absence of a row. `Supply(p)` counts the
units on the shelf and the units held by `RESERVED` rows. A row once inserted is
never deleted by any code, so the foreign key on `product_id` pins its product
(`Unreferenced` is the guard of DELETE).

### StockService

One handler per request goroutine plus the reconciliation (`Sweeper`). `pc`
walks through the statements:

| Action | Code |
|---|---|
| `Receive` | an HTTP handler, or `handle` of the consumer, calls the service |
| `RejectArguments`, `Begin` | validation before `pool.Begin`; `Begin` waits for a connection |
| `FindReservation` | `FindForUpdate` on `stock_reservations`; a missing row locks nothing |
| `LockToReserve`, `LockToRelease`, `LockToUpdate` | `FindByIDForUpdate` on `products`, and the domain method on the value read; `draft` is the stock the later UPDATE will write |
| `CommitReserve`, `CommitRelease`, `CommitUpdate` | the UPDATE/INSERT statements and COMMIT |
| `AnswerSettled`, `AnswerMissing` | the idempotent early returns of `Reserve` and `Release` |
| `RejectWrite` | duplicate key, or a stock beyond INTEGER |
| `Abort`, `GiveUp` | any failure, disconnection or crash; the 5 s timeout of `stockclient` |
| `ListStale`, `ReconcileNext` | the listing of the reconciliation and its use, row by row, later on |
| `Delete` | a statement of its own |

The writes of a transaction become visible at its COMMIT, in one step: nobody
sees them before (READ COMMITTED), and the rows they touch are locked. A row
lock is not a variable: who holds which row follows from `pc`, and that two
handlers never hold the same row is an invariant. What is *read* stays in the
handler (`draft`) until it is written, so a lock that is taken too late, or not
at all, shows as a lost update. An error at COMMIT leaves open whether it took
effect (`answer` is `"ok"` or `"error"`). PUT's name and price are left out.
`Direct` are the requests of callers that have no timeout: everybody but
`stockclient`, which POST /reservar and POST /liberar are open to as well. A
call without `saga_id` is one with a saga that has no row.

### OrderSaga

A saga id names one call of `Create` and, later, its order. `pc` per saga:
`new` → `publish` → `register` → `wait` → (next product | `persist`) →
`created`, or → `compensate` → `failed`. The publication and the registration of
the waiter are two steps, as in `client.go:104-119`. `commands` holds the records
from the committed offset on, `handled` how far the consumer has come, `outgoing` the reply it has
not published, `events` what the order-service has not read. Each topic has one
partition (`EnsureTopics(..., 1, ...)`), hence one order. A crash of the
stock-service forgets `handled` and `outgoing`, so commands come again; a crash
of the order-service ends all calls and loses `events`, because the reply
consumer starts at the end of its topic.

The calls into the stock-service are single steps of `StockLedger`. That is
justified by `ImplementsLedger` (below), which is proved.

`Faults` names what may go wrong in a run:

| Fault | Meaning |
|---|---|
| `crash` | a service dies and restarts, at most `MaxCrashes` times in all |
| `timeout` | `waitCtx.Done()` |
| `disconnect` | the HTTP client goes away; the request context is cancelled, compensations included |
| `lostPublish` | publishing a command fails, the broker has it or not |
| `lostReply` | publishing a reply fails; the consumer logs and goes on |
| `databaseError` | a transaction of orders_db or of the consumer's `Reserve` rolls back |
| `lostCommitAck` | COMMIT takes effect and returns an error |
| `httpError` | an HTTP call of `Create` fails: a look-up or a compensation; also when the transaction of that Release fails in the stock-service |
| `refundError` | a Release of Cancel fails over HTTP, or in the stock-service; it may have been carried out |
| `slowCreate` | `Create` lasts longer than STOCK_RESERVATION_STALE_AFTER |

Time is not modelled. `Stale` says which rows the reconciliation may consider
old: any row whose saga is no longer in `Create`, and rows of a running `Create`
only under `slowCreate`. The README of the repository makes that assumption
under "Limitações conhecidas": with 10 minutes against 30 s per product it needs
an extremely slow creation.

`order_items` have uuidv7 ids, so `ORDER BY id` is the order of the request.
Pay and UpdateStatus to PAID have the same effect, as do Cancel and
UpdateStatus to CANCELED; one action stands for both.

### OrderService

A request per goroutine; `call` is what it asks for. `InUse` are the
transactions that hold one of the `MaxConns` connections; a statement that runs
on the pool needs `FreeConnection` besides.

| Action | Code |
|---|---|
| `RejectStatus` | the status check of `UpdateStatus`, before `pool.Begin` |
| `Begin`, `LockOrder` | `pool.Begin`; `FindByIDForUpdate` and `Order.Pay`/`Cancel`/`ChangeStatus` on what it read |
| `ReadRefundItems` | `refundItemsStock`: `itemRepo.FindByOrderID`, on a second connection |
| `RefundItem`, `RefundDone` | the `Release` calls over HTTP, one by one; the first error ends the request |
| `Commit` | `UPDATE orders SET status` and COMMIT |
| `ReadOrder`, `ReadClient`, `ReadItems`, `ReadProducts` | `FindByID` after the commit, for the response |
| `InsertOrder` | `Create` commits (the rest of it is in `OrderSaga` and `OrderStore`) |
| `DatabaseError`, `Disconnect`, `Crash` | the deferred Rollback; `r.Context()`; the process |
| `LateRelease` | the stock-service carries out, or drops, a Release its caller gave up |
| `Reconcile` | the reconciliation releases a row for its age, at any time |

`returned` are the reservations of stock_db that are RELEASED: a Release is
idempotent (`StockServiceProofs!RowsStayFinal`), so a set says all. `swept` are
those that the reconciliation has released; a direct POST /liberar for the saga
of the order has the same effect and is not a step of its own. Faults:
`disconnect`, `databaseError`, `lostCommitAck`, `crash`; `httpError`, an answer
other than 200, with or without the effect; `httpTimeout`, the 5 s of the client
with the request still under way.

`OrderLifecycle` decides every call in one step (`Accept`, `Refuse`); `Tell` is
the response, or the 500 after a change that was made. The refinement maps a
request that reads its response to `"accepted"` (`AbstractAnswer`).

### Catalog, ClientRegistry and UniqueRegistry

`UniqueRegistry` has a column `key` and requests that are carried out or refused
in one step; a refusal must be true in that step.

| Action of `Catalog` | Code |
|---|---|
| `RejectPrice` | the validations of `Create` and `Update`, the price for all of them |
| `FindByName`, `Insert` | `Create`: the check, and the INSERT, which may meet 23505 |
| `DeleteProduct` | `Delete`, one statement; the foreign key of `stock_reservations` may forbid it |
| `Begin`, `LockProduct`, `WriteRow`, `EnterIndex`, `Commit` | `Update`, and likewise `Reserve` and `Release` (operation `restock`), which write name and price back as read |
| `BreakDeadlock` | PostgreSQL aborts a transaction on a cycle of waits |
| `Abort`, `Crash` | a failing statement, a caller gone, the process |

An UPDATE is two steps because PostgreSQL writes the new row version before it
looks into the unique index: a transaction waits there for whoever is writing
the same name (`Writers`), holding its row lock, which is how two PUTs deadlock.
Prices come in thousandths and are stored in hundredths (`StoredPrice`, the
rounding of NUMERIC(10,2)); larger ones than `MaxCents` are refused by the
column. `ClientRegistry` is the same without PUT and DELETE: `RejectIncomplete`,
`FindByEmail`, `Hash` (bcrypt refuses long passwords), `Insert`.

### OrderStore and OrderBook

| Action | Code |
|---|---|
| `LookUp` | `Create`: one GET per product, in `ProductOrder` |
| `BeginCreate`, `InsertItem`, `UpdateTotal`, `CommitCreate` | its transaction; `created_at` is the time of BEGIN |
| `FailCreate`, `Crash` | anything that fails between; the process |
| `Reprice` | a PUT of the stock-service |
| `FindByID`, `FindAll` | the SELECT on `orders` |
| `FindItems` | the SELECT on `order_items`, order by order |
| `FailRead` | an error of any of them |

What `Create` has written is in `rows` until COMMIT copies it to `table`.
`offset`, `seen`, `known` and `walked` belong to a client that asks for page
after page until one is empty. `Crash` ends the requests that are under way; a
reader that has its response keeps it and may ask a restarted service for the
next page. Faults: `error`, `lostCommitAck`, `crash`. When
`Create` or a read returns, its local variables are forgotten (`Return`). Every
transaction begins at an instant of its own: two orders of one microsecond could
come in another order on every page, and one of them be missed. Prices are
cents: a float64 holds the sums exactly enough for NUMERIC(10,2) to round back
to them; a price may be 0 (see section 3). `InitialPrices` and `MaxPuts` bound
what prices a run begins with and how often they change.

## 3. What TLC checks

| Run | Instance | Properties |
|---|---|---|
| `stock_service` | 2 requests (one of them `Direct`) and the reconciliation, 2 sagas, 1 product with stock 2, INTEGER up to 3, quantities -1, 1, 2, 2 connections, fair | `TypeOK`, `Inv`, `OkMeansRecorded`, `ReservationPinsProduct`, `UnitsConserved`, `RowsAreFinal`, `LedgerSpec` as a property (the refinement), `EveryRequestAnswered` |
| `saga_messaging` | 1 saga of two products and three lines, every fault but `slowCreate`, two crashes, PUT, fair | `TypeOK`, `OrderHadReservations`, `OrderedProductsExist`, `CommitHoldsUnits`, `CreateTerminates`, `OrphansAreReleased` |
| `saga_failures` | 2 sagas (one with two lines for one product), 2 products, Pay/Cancel, failing refunds and transactions, lost COMMIT acknowledgements, PUT, slow creations | `OrderHadReservations`, `OrderedProductsExist`, `CanceledFullyRefunded`, `FailedCreateKeepsNothing`, `StatusIsFinal` |
| `order_service` | 3 requests of any kind, 1 order of three lines for two products, 4 connections, all faults, fair | `Inv` (of which `TypeOK`, `LockProtectsOrder`, `HandlerInv`), `CanceledMeansReturned`, `OneWinner`, `LossesWereReported`, the refinement `RefinesLifecycle`, `EveryCallAnswered`, `OneCancelSucceeds` |
| `catalog` | 3 requests out of eight calls, 4 ids, 2 names, all faults, fair | `Inv`, `RefinesRegistry`, `OnlyPutReprices`, `EveryRequestAnswered` |
| `client_registry` | 3 requests, 4 ids, 2 e-mails, all faults | `Inv`, `RefinesRegistry` |
| `order_store` | 3 orders (one of three lines with a product twice, two of one line), prices 0 and 1, one PUT, a reader with limit 1, all faults | `Inv`, `PagesMissNothing`, and the refinement `RefinesOrderBook` |
| `releases_exhaust_pool` | as `stock_service`, both requests `Direct` | `EveryRequestAnswered` **is violated** |
| `order_cancels_exhaust_pool` | 3 cancellations of one order, 3 connections, fair | `OneCancelSucceeds` **is violated** |
| `failed_cancel_then_paid` | 3 requests of any kind, 1 order, failing HTTP calls | `PaidKeepsUnits` **is violated** |
| `sweep_of_live_orders` | 1 saga, no fault | `SweepReleasesOnlyOrphans` **is violated** |
| `reply_before_waiter` | 1 saga, timeout | `RepliesReachTheirCall` **is violated** |

Bounds. One product suffices in `stock_service`: a transaction locks one
reservation row and one product row, always in this order, and no operation
touches two products. Two handlers make a writer and one that repeats or
releases; the third is the reconciliation with its old listing. Two connections
are few enough for two releases to hold both and each wait for another. Larger
numbers of all of these are covered by the theorems below. INTEGER up to 3 with
stock 2 lets a release overflow after a PUT. In the saga runs two products give
a first item that succeeds and a second that fails, and a reply that comes too
late for one product and in the middle of the other; the duplicate line gives the
merge; with two crashes each service dies once, or one of them twice. PUT sets a
stock to 0 in `saga_messaging`, at any moment, which is what a competitor that
takes the units would do; two sagas that compete are in `saga_failures`, where
messages are not lost. That messages of several sagas are lost, repeated and late
at once is not model-checked: it is what `SagaInv` is proved for, and the safety
properties of `saga_messaging` with it.

In both saga runs, `MaxInt4` is so large that no release overflows: one that the column
refuses, for ever or until another PUT, cannot keep `FailedCreateKeepsNothing` or
`OrphansAreReleased`, which are about every other failure. Sagas, orders and
requests are finite, so every run stops in the end, and deadlock is not
checked. `TypeOK` of `OrderSaga` is not a bound: nothing but the instance limits
the queues.

In `order_service` three requests compete for one row and give a winner, a loser
that waits and one that comes after; three lines let a refund fail half way and
name a product twice. Orders share nothing but the connections. The pool has 10
of them in the code: what matters is whether there are as many requests as
connections (`order_cancels_exhaust_pool`) or fewer (`order_service`), and both
are checked. With fewer connections than requests there are only fewer
interleavings, so that the safety properties hold as well; that they do for any
number of orders, requests and connections is proved.

In `catalog` two PUTs swap names or compete for one, a POST or a DELETE comes
between, a reservation writes back;
`MaxCents` 9 makes one of the prices too large. Ids are never used up: there are
as many free ones as registrations (`Init`). In `order_store` the price changes
once, at any time, also between two lookups; the order of three lines exceeds
`MaxCents` unless a price has fallen to 0; of three orders one can be committed out of
turn while the reader is between two pages.

The requests of `MCClientRegistry` and the orders of one line of `MCOrderStore`
are interchangeable: those runs use that as symmetry, and state no liveness.
`MCOrderService` and `MCCatalog` do, so they only start from assignments of calls
to requests that are sorted (`MCSpec`): every other one is the same behaviour
with other names for the requests.

Fairness. `StockService`: strong fairness of every statement of a handler,
because PostgreSQL queues lock waiters and the pool hands out connections in the
order of the calls; weak fairness of the 5 s timeout of `stockclient`, for the
requests that come from there (without it releases that hold all connections and wait for a
second one never end, which is what `releases_exhaust_pool` shows for direct
callers: neither the server nor the pool limits the wait), and of the
reconciliation's loop. `EveryRequestAnswered` needs fewer direct callers than
connections. `OrderSaga`: weak fairness of each goroutine
(`CreateStep`, in which the timer of the saga client is one disjunct,
`CancelStep`), the consumer, the dispatcher and the reconciliation, which only
needs its ticker. Nothing is assumed about clients, faults or Pay.
`OrderService` and `Catalog`: weak fairness of `HandlerStep` of each request:
goroutines are scheduled, PostgreSQL hands a lock and the pool a connection to
somebody who waits, and the deadlock detector runs. Weak fairness is enough
there because requests are finite: a lock or connection that others keep taking
is free for good in the end. Statements end; an HTTP call ends by its timeout.

`CanceledFullyRefunded` and `StatusIsFinal` are meant for orders whose creation
went wrong as well: an order whose COMMIT was not acknowledged is compensated
and is still PENDING. `CreateTerminates` says that no *reply* is waited for for
ever: publishing (`ProduceSync`) and `pool.Begin` have no timeout of their own in
the code, and are assumed to return. `OneCancelSucceeds` is what the concurrency
test of the repository expects, of behaviours in which no request is told of an
error: each fault of `OrderService` leaves somebody with one.

### Disagreements with the repository

* **The reconciliation is not about orphans.** `src/README.md:314` says that
  orphans, reservations "sem pedido correspondente", are released. The query
  selects every row that is `RESERVED` and old, and no code moves a reservation
  out of `RESERVED` when its order is committed or paid. So the units of every
  live order return to the shelf after ten minutes.
* **A reply can come before its waiter.** `sagaclient.Reserve` registers the
  waiter after it published the command; the comment on `dispatch` promises
  delivery to whoever waits. The reply is dropped, the call times out.
  (`CreateTerminates` and `OrphansAreReleased` hold regardless: the timeout and
  the defensive release repair it, the order is lost.)
* **Cancellations can exhaust the pool.** `refundItemsStock`
  (`order_service.go:359`) needs a second connection while its transaction holds
  one and the row lock. As many cancellations of one order as the pool has
  connections (ten in `postgres.go:17`) take them all; the one with the row lock
  then waits for another, the others for the row lock, and nothing ends the wait.
  `order_concurrency_test.go:292` starts ten, over a pool of the default size of
  `pgxpool.New` (`:38`), and passes as long as one of them gets to its second
  connection before the others have taken all.
* **Direct releases can exhaust the pool.** `Release` of a saga without a row
  reads the product over the pool (`product_service.go:280`) while its
  transaction keeps a connection. `stockclient` gives up after 5 s. A direct call
  of POST /liberar, which `src/README.md:391` offers, waits for ever when all
  connections are taken by such calls; without `saga_id` it never has a row.
* **A failed Cancel gives units away.** `Cancel` releases item by item over HTTP
  and rolls back on the first error (`order_service.go:461`): the order is PENDING
  again, part of its units, or all, are on the shelf, and Pay accepts it.
  `src/README.md:234` says that canceling keeps stock and status consistent, and
  `order_service_test.go:697` tests the rollback as if it undid the cancellation.
  `failed_cancel_then_paid` takes a failing HTTP call; a database error after the
  refunds, a disconnection, a crash or a Release that outlives its 5 s do the
  same. What does hold, under all of them, is `LossesWereReported`: whoever
  canceled such an order was told of an error.

Two more remarks, of statements that no run refutes. `src/README.md:393` says that
a release without `saga_id` is "sempre aplicada", always applied. The code
(`product_service.go:277-287`) and its comment (`:257-259`) apply a release only
to a row that is RESERVED, so that a release under a new saga id changes nothing,
as it does in `AnswerMissing`. And a price may be zero: `product_service.go:62`
lets 0.004 pass and the column stores 0.00, which `StoredPrice` of `Catalog` does
as well; `Prices` of `OrderStore` have it.

## 4. What is proved

Stock. For every number of handlers, sagas, products and connections, every
MaxInt4 and every set of quantities, from `LedgerAssumption` (finitely many
sagas, MaxInt4 a natural number, initial stocks within it) and
`ServiceAssumption` (the reconciliation is no request, quantities are integers,
at least one connection):

| Theorem | States |
|---|---|
| `InvCorrect` | `Spec => []Inv` |
| `TypeCorrect`, `OkAnswersAreRecorded`, `ProductsArePinned` | conjuncts of `Inv` |
| `ImplementsLedger` | `Spec => LedgerSpec` |
| `RowsStayFinal` | by refinement, from `LedgerRowsAreFinal` |
| `ServiceConservesUnits` | `Spec => UnitsConserved` |
| `LedgerTypeCorrect`, `LedgerPinsProducts`, `LedgerRowsAreFinal`, `LedgerConservesUnits` | the same about `StockLedger` alone, hence about whatever implements it |

Orders, products, clients. For every set of requests, orders, ids and names and
every combination of faults, from `OrderServiceAssumption`, `CatalogAssumption`
and `ClientAssumption` (shapes of the constants; `NoKey` and `Gone` are no
names):

| Theorem | States |
|---|---|
| `OrderInvCorrect` | `Spec => []Inv` of `OrderService` |
| `CanceledIsReturned`, `OneRequestWins` | conjuncts of it that matter to callers |
| `ImplementsLifecycle` | `Spec => RefinesLifecycle` |
| `PaidLossesAreReported` | `Spec => []LossesWereReported`, under every fault |
| `CatalogInvCorrect`, `RegistrationInvCorrect` | `Spec => []Inv` of `Catalog`, `ClientRegistry` |
| `ImplementsRegistry` (in both) | `Spec => RefinesRegistry` |
| `OnlyPutsReprice` | `Spec => OnlyPutReprices` |

The argument for the stock. Type correctness is not inductive alone: that the stock never
leaves 0..MaxInt4 depends on `draft`, which is computed several statements
before it is written. `Inv` therefore adds `DraftsAreCurrent` (what a handler
read is still true when it writes), which in turn needs `LocksExclude` (else
another handler could have written in between), `ReservationPinsProduct` (else
the product could be gone) and `ProgressSound`. Each action is one step of the
proof. The refinement then is easy: a commit is the one step of a transaction
that changes the ledger, and `DraftsAreCurrent` says that the value it writes is
the one `StockLedger` would compute now. Conservation counts units as pairs
(saga, counter), so that the sum over all sagas is the cardinality of a finite
set: a commit adds or removes an interval of pairs of one saga (`UnitsAdded`,
`ReserveConserves`, `ReleaseConserves`).

The argument for the orders. What callers see (`CanceledMeansReturned`,
`OneWinner`) depends on where each handler stands, so `Inv` adds `HandlerInv`:
a handler in `write` has had every refund made, and one that reads its response
finds the order in the status it wrote. That needs `LockProtectsOrder`: between
its SELECT FOR UPDATE and its COMMIT a handler is alone, and the order PENDING.
A commit then maps to `Accept`, a refusal under the lock to `Refuse`, and any
way of ending without a response to `Lose`. `PaidLossesAreReported` adds
`ReturnsExplained`: a unit that came back, or is asked back, and not by the
reconciliation, belongs to an order that is CANCELED, or has a request that is
canceling it and holds its row lock, or one that has failed to. A Pay that gets
the row lock thus finds no request of the second kind (`ExplainedStays`,
`NewReturnsExplained`).

The argument for the registries. Names are unique because of what a transaction
knows after `EnterIndex`: no live row has its new name (`Sound`), and nobody else
is about to (`Apart`). It stays true until COMMIT since a transaction that would
change it has to wait for this one (`Writers`). Every step is one of a few kinds
(`Ends`, `Prepares`, `Locks`, `Enters`, `WritesAndEnds`: `StepKinds`), for each of
which one lemma preserves the invariant.

The saga between the two services. For every set of products and sagas, every
request that passes the validation of `Create`, every stock, every number of
crashes and every set of faults but where a hypothesis says otherwise, from
`LedgerAssumption` and `SagaAssumption` (lines name products and positive
quantities and a request has one; `PutStocks` fit the column; `NoReply` is no
reply):

| Theorem | States | Hypothesis |
|---|---|---|
| `SagaTypeCorrect` | `Spec => []TypeOK` | |
| `SagaImplementsLedger` | `Spec => LedgerSpec` | |
| `SagaConservesUnits`, `SagaRowsStayFinal` | by refinement: only PUT and DELETE change the units of a product; rows are settled once | |
| `OrdersHadReservations` | `Spec => []OrderHadReservations` | |
| `OrderedProductsStay` | `Spec => []OrderedProductsExist` | |
| `CanceledIsRefunded` | `Spec => []CanceledFullyRefunded` | |
| `StatusSettles` | `Spec => StatusIsFinal` | |
| `CommitHolds` | `Spec => CommitHoldsUnits` | no `slowCreate` |
| `FailedCreateIsClean` | `Spec => []FailedCreateKeepsNothing` | `QuietFaults`, `AmpleShelves` |

Both hypotheses are those of the runs, and both are needed. With `slowCreate` the
reconciliation gives back units of a `Create` that is still going to commit.
`QuietFaults` leaves the database errors, lost acknowledgements of COMMIT, failing
refunds and slow creations: after any other fault (a lost command or reply, a
timeout, a disconnection, a compensation that fails, a crash) a reservation may
stay for the reconciliation, which is what `OrphansAreReleased` is about.
`AmpleShelves` says that no PUT sets a stock to which the units of all requests
could not be added within INTEGER; beyond that the column refuses the release.

Readers of orders_db. For every finite set of calls of `Create`, every request,
price (0 included), page size and number of readers, every set of faults, from
`StoreAssumption` (shapes of the constants; the limit is positive; `NoRow` is no
row):

| Theorem | States |
|---|---|
| `StoreWritesAndReadsSoundly` | `Spec => []Inv` of `OrderStore` |
| `WalksMissNothing` | `Spec => []PagesMissNothing` |
| `ImplementsBook` | `Spec => RefinesOrderBook` |

The argument for the saga. `OrderHadReservations` speaks of orders and rows, with
two queues and a channel in between, so `SagaInv` follows a reservation all the
way: a row or a command is only there for a product that `Create` has come to,
with the merged quantity of the request (`RowsMatch`, `CommandsMatch`); a reply
that reports success was sent over an existing row (`RepliesEarned`), and rows
are never deleted; a success in the channel is for the product the call is
about (`MailboxEarned`), because `dispatch` compares saga and product and one
call of a saga is open at a time. What `Create` has passed therefore has its row
(`SecuredRows`), in any order of lost, late and repeated messages. `StatusWaits`
and `CancelProgress` add the order: none before `persist`, and behind a CANCELED
one a released row for every line. How a row may change in one step comes from
one lemma per kind of action, and the same moves make the step one of
`StockLedger`.

`CommitHolds` adds `Untouched`: until `Create` is decided nobody releases a row of
its saga. `FailedCreateIsClean` adds three facts. `OneCall`: at most one message
of a saga is under way, and only while its call is open, so nothing is reserved
after the compensation has begun. `UndoCovers`: what a compensating `Create` still
holds is on the list of what it will release. `NoOverflow`: shelf and
reservations together fit the column, so the release is not refused; its proof
counts units as in the conservation of `StockService`.

The argument for the store. `StoreInv` says what has been written at each
statement of `Create`: every product of the request has a price before BEGIN, the
items inserted so far are the first lines of the request, `sum` is their total,
and the table is only written by COMMIT. A reader's two lists hold rows and
complete entries of distinct orders that are in the table (`ReadSound`); since
orders never change their lines, the entry put together by later SELECTs is the
order as committed. The refinement is then one `Place` per commit and one
`Answer` per response. `PagesMissNothing` needs `WalkInv`: an order the walk set
out to get and has not got has at least `offset` newer ones. Orders committed in
the meantime only add to these, whatever their `created_at`, so the order is on
this page or a later one, never on an earlier.

What a fold computes for every input needs an induction, and the library's
induction theorems take an operator as a parameter, out of the provers' reach.
`FoldLemmas` goes around it: a natural number with a property has a least one
(`LeastNatural`), and a fold of the community modules is a recursive function
over subsets, whose existence and equation follow from that (`FoldExists`,
`LeftFoldExists`). So `MergedQuantity`, `ProductOrder` and `Total` are proved to
be what the arguments above use: a sum of the lines, the list of products in
the order of their first mention, without repetition.

Every safety property that holds in a run is thus proved as well. Only
model-checked are the liveness properties, `EveryRequestAnswered` (of
`StockService` and of `Catalog`), `CreateTerminates`, `OrphansAreReleased`,
`EveryCallAnswered` and `OneCancelSucceeds`: liveness under fairness is out of
the prover's reach. The five violated properties are refuted by TLC on an
instance, which is all a counterexample needs.

## 5. Not modelled

Parsing and encoding of JSON and ids, configuration, logging and the observability
middleware keep no state. Malformed messages (skipped, or an error like a
negative reply) and the choice of error texts are left out; so are
`EnsureTopics` and the tool that applies the migrations. Operations without a
caller are not modelled: `ProductRepository.UpdateStock`, `Update` and `Delete` of
`ClientRepository`, `OrderItemRepository.FindByID`. `FindAll` and `FindByID` of products and
clients are single SELECTs. Prices and totals are in `OrderStore`, not in the
saga, where the overflow of the total is one of the causes of `databaseError`.
Time is not modelled anywhere: a timeout may come at any moment.

## 6. What is left

1. `OrderSaga` has its own, atomic, view of Pay and Cancel and `OrderService` the
   detailed one. `OrderLifecycle` is refined by the second only; that the first
   is an abstraction of it, in the way `SagaImplementsLedger` and
   `ImplementsLedger` meet in `StockLedger`, is not stated yet.
2. Three hazards have no property, because the property would be false of code
   that promises nothing (a PUT that overwrites reservations, a price of half a
   cent, two orders created in the same microsecond).
