# Walmart OMS: a TLA+ model

This directory specifies the transactional core of the order management system
in `src/app`: what the request handlers do to stock, orders, fulfillments,
shipments, returns and the catalogue when they run at the same time on one
PostgreSQL database. The modules are translated from the source; `PROJECT.json`
names, for every definition, the lines it stands for.

## The system

A FastAPI application of several stateless instances (docs/architecture.md:69)
serves requests in threads. Every request has an SQLAlchemy session of its own
(`database.py:16-21`): one transaction, READ COMMITTED, `autoflush=False`,
`expire_on_commit=False`. Handlers interact through the tables and through
nothing else: rows they read, rows they lock with `SELECT ... FOR UPDATE`,
unique indexes, foreign keys and CHECK constraints.

| component | state | operations | what must hold |
|---|---|---|---|
| inventory (`routers/inventory.py`) | quantities of each product and warehouse, ledger of movements | reserve, release | no oversell; the ledger explains the quantities |
| orders (`routers/orders.py`) | orders, items, allocations | create with `Idempotency-Key`, cancel | all of an order is allocated or none; one order for each key; a cancellation releases what the order holds |
| warehouses (`routers/warehouses.py`) | warehouses, locations, used capacity | create, add a location, receive stock | no receipt lost, capacity respected, one inventory row for a product |
| fulfillment (`services/fulfillment_service.py`) | status, packages | start picking, complete, start packing, pack | each step once and in order; the order follows |
| shipments (`routers/shipments.py`) | status | create, advance | one shipment for a packed order; the order follows |
| returns (`routers/returns.py`) | returns and their lines | request, receive, refund | no more than was ordered; restocked once |
| products, users, notifications | single rows | create | unique SKUs and emails; what a row references exists |
| sessions (`database.py`, `core/exceptions.py`) | locks, identity map | begin, flush, commit, rollback | nothing half done, nothing locked for ever |
| auth, audit, analytics | none of their own | read, compute | not modelled |

What is hard here is concurrency: reads without a lock before a wait, checks
made on what was read, absolute writes of sums and statuses, rows locked in
different orders, transactions that end in the middle. And it is what no table
ties together: an order, its fulfillment, its shipment and its allocations each
have a status, and every handler looks at some of them. `PROJECT.json` lists these
hazards line by line.

## The modules

| module | models |
|---|---|
| `Store` | tables of stock and its ledger, row and warehouse locks, identity maps, commit and rollback: what all handlers use |
| `Inventory` | `reserve`, `release` |
| `Orders` | `create_order`, `cancel_order` (stock side) |
| `Warehouses` | `add_stock`, into rows that exist |
| `Stock` | these three together, and their properties |
| `Returns` | `create_return`, `receive_return`, `refund_return` |
| `Lifecycle` | fulfillment, packing, shipping, and the status side of `cancel_order` |
| `OMS` | `Stock`, `Returns` and `Lifecycle` in one system; deadlock detection and fairness |
| `Catalog` | `create_user`, `create_product`, `create_warehouse`, `create_location`, `create_notification`, and `add_stock` with the row it may have to create |
| `StockAccount`, `IdempotentOrders`, `OrderJourney` | abstract specifications: the account stock keeps, the placing of orders as clients see it, the journey of an order |
| `StockInvariant` | the inductive invariant of the rows of stock, in `Stock` and in `OMS` |
| `SumTheorems` | lemmas about finite sums |
| `StockTypeProofs`, `StockProofs`, `OrderProofs`, `ReceiptProofs` | the proofs about `Stock`: types, rows, orders, receipts |
| `LifecycleProofs`, `CatalogProofs` | the proofs about `Lifecycle` and `Catalog` |
| `OMSProofs` | the proofs about `OMS` |
| `MCStock`, `MCLifecycle`, `MCOMS`, `MCCatalog` | instances for TLC |

`Store <- Inventory, Orders, Warehouses <- Stock`; `Orders <- Returns`;
`Stock, Returns <- OMS`, which also instantiates `Lifecycle` with the status of
its own orders; `Inventory, Warehouses <- Catalog`. `Lifecycle` can be checked
alone, for its handlers touch no stock, and is: alone its orders overlap in more ways
than a model with stock could afford.

Operators named after a mistake (`ReserveUnlocked`, `KeyNeverTaken`, ...) stand
before the definition they vary. They are used by no specification; each is a
plausible bug that one of the properties rejects, listed under `mutants`.

### How code becomes steps

* A session takes a step where it may have to wait for another one, or where it
  reads something that others may change before it uses it. What happens between
  two such points is one action. `reserve` waits only for its row and is one
  action; `create_order` is one action for each row it locks.
* A request that is refused before it changes anything is a stutter, except
  where an answer is recorded (`answers` in `Orders`).
* `Loaded(w, r)` is what session w sees of a row: the committed row, or its own
  changed object once it holds the lock. Changes become visible with `Commit`.
* The UPDATE of a row writes only the columns the session changed, with the
  values it computed (`Written`). A reservation does not touch `on_hand`, a
  receipt or a return does not touch `reserved`.
* FOR UPDATE returns the row as it is after the wait, but an object the session
  has loaded before is not refreshed: that is how `add_stock` sees its warehouse
  (`receipt[w].seen`).
* `all()` locks every candidate row of an item before the first is used. `Orders`
  locks and uses them one by one, which is the same to everyone else, because
  nothing is visible before the commit.
* A flush inserts allocations, whose foreign key share-locks the warehouse;
  `add_stock` locks it FOR UPDATE. They wait for each other (`MayFlush`,
  `LockHolders`), and the stock an order allocates in a warehouse cannot be
  overwritten by a receipt there.
* A second insert of a key waits for the first and fails when it commits: the
  `Idempotency-Key` (`KeyHolders`, `DuplicateOrder`) and every unique key of
  `Catalog` (`Inserters`, `Taken`, `RefuseEntry`). An INSERT enters the index first and
  checks its foreign keys afterwards, so it may wait twice (`InsertEntry`,
  `ReferenceEntry`).
* In `Store` a row that does not exist is a row of zeros: a new row starts with zeros
  (models.py:63-66), a movement needs a row it belongs to (models.py:83), and a handler
  that finds no row answers as it does when nothing is available. `Catalog` has the
  rows that exist and the first receipt that creates one. An unknown product is a product without rows; a 404 and an insufficient
  stock roll back alike.
* A capacity of 0 means unlimited. Damaged stock is never written by any handler
  and left out of the CHECK.
* `AbortOrder`, `AbortReceipt`, `AbortReturn`, `AbortEntry`, `GiveUp`: a crash, a lost
  connection, a failed statement or a broken deadlock at any step.
* The FOR UPDATE of `create_return` joins `return_items` and `returns`; every
  conflict over a line is one over its return, so `holds` keeps the returns only.
  Returns restock what the order was allocated, which shipping leaves reserved:
  no handler changes stock when goods leave.
* `Lifecycle` writes the order's status only if it differs from what the session
  read, which is what the unit of work does. `OMS` gives it the orders of `Orders`:
  a commit of an order brings its fulfillment, a picker, a shipment and a
  cancellation all write the one status, and a session runs one handler.

Left out: prices and totals, customers and access checks (the payload hash
includes the customer), text, times, the width of integers, and SQLite (the
handlers take no locks there).

### Disciplines of clients

The code does not prevent two requests about the same thing at the same time, and
several of its promises depend on that not happening. A constant says where a
configuration lets it happen:

| constant | what may overlap |
|---|---|
| `OverlappingCancels` | cancellations of one order |
| `OverlappingReceipts` | deliveries to these warehouses |
| `Overlapping` (in `Lifecycle` and `OMS`) | requests about these orders |
| `WorkOnCancelled` (in `OMS`) | nothing overlaps: operators pick and ship an order after it was cancelled |

A property that is checked with one of them switched off (`AllocationsBacked`;
`CapacityRespected` and `UsedMatchesReceipts`, which speak of the warehouses outside
`OverlappingReceipts`; `PackedAndShippedOnce`, `StatusShowsStage` and `FollowsJourney`,
which speak of the orders outside `Overlapping`; those of `MCOMS`) says under which
discipline of its clients the code keeps the promise, and would not notice what an
overlap does to it. `MCDoubleCancel`, `MCStaleStatus`, `MCOversold` and `MCOverReturn` switch
a discipline off and expect the violation that follows; what else follows is listed below
them. Two overlapping requests can also create a second package or a second shipment of an
order, which neither the schema nor a document forbids. Requests about different orders, and
everything else, overlap in every run.

## What TLC checks

Runs use two or three sessions; two are enough for every stale read, the third
lets a bystander hold what the others lose. Sessions are interchangeable and the
safety runs use that symmetry; the two runs with liveness properties do not.
`MaxRequests` is the only bound on the length of a behaviour, and it counts requests,
not steps. Deadlock checking is off because the system stops when the requests are used
up; that sessions do not wait for each other for ever is what the liveness properties
say. Stock levels are 1 or 2, so that the last unit is always contended.

| run | shows |
|---|---|
| `MCStock` (3 sessions, 5 requests, two warehouses; 457000 states) | all operations on stock at once, nothing restricted: `ReservedMatchesMovements`, `OnHandMatchesReceipts`, `NoOversell`, `ValidatedBeforeChecks`, `LockedRowsStable`, the invariant `StockInv`, and the refinement `KeepsAccount` |
| `MCOrders` (3 sessions, 5 requests, two products, two warehouses; 432000 states) | carts that need both warehouses race carts of two items and cancellations, with equal, empty and missing keys: `StockConserved`, `OrdersFullyAllocated`, `AllocationsBacked`, `KeyExclusive`, `OneOrderPerKey`, `KeyedAnswersRight`, and the refinement `PlacesOnce` |
| `MCSales` (3 sessions, 5 requests, carts with one product twice) | orders and receipts alone keep `AvailableMatchesMovements`, and thanks to the foreign key locks a stale receipt never reaches the CHECK constraint: `ReceiptPassesChecks` |
| `MCLifecycle` (2 sessions, two orders, 11 requests; 126000 states) | 9 requests take an order to DELIVERED. Of the order whose requests come one at a time: `PackedAndShippedOnce`, `StatusShowsStage`, and the refinement `FollowsJourney`; of both: `ShippedWasPacked` |
| `MCOMS` (2 sessions, 10 requests, a delivered order beside new ones; 658000 states) | orders are placed and taken to delivery, or cancelled and their stock sold again, while the order delivered before is returned; placing and delivering an order uses up the 10 requests, so in this run only the earlier order is returned (the theorems have no such bound): `ReturnsWithinOrder`, `RestockedOnce`, `RestockComplete`, `ReturnTransitions`, `ReturnedWasDelivered`, `ReservedIsAllocated`, `NothingSoldTwice` |
| `MCOverlap` (2 sessions, 4 requests, crossed carts and crossed returns; 119000 states) | everything about every order overlaps, with receipts and manual operations: `LedgerExplainsStock`, `OnHandBounded`, and `OMSRequestsEnd`, with real deadlocks on the way |
| `MCCatalog` (3 sessions, 4 requests; 89000 states) | rows are created, rows they reference are missing or locked, first receipts race in one warehouse and come one at a time in the other: `UniqueKeys`, `FirstReceiptUnopposed`; where deliveries do not overlap `UsedMatchesReceipts` and `CapacityRespected`, everywhere `UsedNeverOverstated`; and `CatalogRequestsEnd` |

`MCStock`, `MCLifecycle`, `MCOverlap` and `MCCatalog` also check the types of the variables.

Five disagreements with the documentation are runs of their own:

| run | the code and the documentation disagree |
|---|---|
| `MCDoubleCancel` | two cancellations of an order release its stock twice (README.md:69) |
| `MCLostUpdate` | a receipt overwrites the `available` that a manual release has just raised (docs/concurrency.md:38) |
| `MCStaleStatus` | a fulfillment is set back by a session with a stale status (docs/architecture.md:59); the property speaks of shipments and of slow cancellations too |
| `MCOversold` | a cancelled order is picked, packed and shipped after its stock was released and sold to somebody else (docs/design-decisions.md:39); no two requests overlap in it |
| `MCOverReturn` | an item is returned twice over (docs/database.md:72) |

Others are visible in the models and have no run. When requests overlap: two deliveries pass
the same capacity check, and their goods together exceed the capacity; a return is restocked
twice, or set back from REFUNDED to RECEIVED by a slow session; an order is packed, or its
shipment created, twice. Whatever overlaps: an order is shipped without ever being
READY_TO_SHIP; a receipt computed from a row that a reservation has changed since is stopped
by the CHECK constraint instead of by validation (`FailReceipt`); a receipt overwrites what a
return has restocked, as in `MCLostUpdate`; a retry with an empty key is refused.

### Abstract specifications

* `StockAccount`: reserve, release and receive, each one atomic step on a row and
  its ledger. `Stock` implements it (`KeepsAccount`) with the identity as the mapping:
  sessions, locks and identity maps are the implementation's own.
* `IdempotentOrders`: who sends a key first places an order, everybody after is told
  of it. The mapping takes the committed orders with a key and the answers given to
  requests with one; retries, races, refusals and crashes are stutters (`PlacesOnce`).
* `OrderJourney`: the goods of an order move from stage to stage and the status shows
  it. The mapping takes the stage from the shipment, or from the fulfillment while there
  is none (`FollowsJourney`). One of its steps may surprise, but the code
  takes it: a cancelled order moves on and shows its stage again.

### Fairness

`OMSFairSpec` assumes of each session that it goes on when it can (WF of `GoOn`) and
that a deadlock it is part of is broken (WF of `OMSBreakDeadlock`): threads are
scheduled by the operating system, and PostgreSQL looks for cycles after
`deadlock_timeout`. `CatalogFairSpec` assumes the first only, and so shows that
creating rows and receiving goods does not deadlock. Nothing is assumed of clients, of
crashes, or of which waiting session gets a lock; with a bounded number of requests
nobody can be overtaken for ever. `MCOverlap` has two sessions and no keys, so the
deadlocks it breaks are cycles of two over row and warehouse locks; longer cycles, and
sessions that wait for a key, are covered by the same rule but not by a run.

## What is proved

Every invariant and every action property that a run checks is proved, and so are the
three refinements; what `MCCatalog` checks of used capacities is proved of `Stock`, of receipts into
rows that exist. The theorems hold for any finite sets of products and warehouses, any set of
sessions, orders, carts, keys, deliveries, returns, manual quantities, any capacities, and
any bound on requests, from the named assumptions of the modules. These give the constants
their types; say that the initial stock fits its warehouses and that the rows that are listed
agree with it; and say of the orders that were delivered before an instance of `OMS` begins
what create_order leaves of an order: what they hold is part of the initial stock
(`OMSAssumption`), and each is allocated in full (`DeliveredInFull`). Where a theorem needs a
discipline of its clients it is a hypothesis of the theorem, named in brackets below.

### Stock, receipts and orders

* `TypeCorrect`: `Spec => []TypeOK`, with `LocalsOK`, what a session's local
  variables are at each step.
* `StockInvariantHolds`: `Spec => [](TypeInv /\ StockInv /\ NothingReturned)`. None of the
  properties is inductive alone: that `reserved` matches the ledger needs that a commit writes
  the committed row with this session's change and nothing else. So the invariant says,
  session by session, which rows are locked (`LocksOK`), that the object of a locked row is
  the committed row with the pending movement (`ImagesOK`), and that the warehouse lock
  protects the `on_hand` a receipt read without a row lock, up to what was returned since
  (`ReceiptOK`); and row by row, that it is balanced and explained by the ledger (`RowOK`). The
  proof has one lemma for each action, over lemmas about `LockAndChange`, `Commit` and
  `EndSession`, and `OMS` uses the same lemmas. `Stock` itself has no returns, which is what
  `NothingReturned` adds.
* From it: `ReservedCorrect`, `OnHandCorrect`, `NeverOversold`, `ValidationSuffices`
  (what orders and cancellations compute never fails a CHECK), `LocksRespected`, and
  `AccountKept`: every step of `Stock` is a step of `StockAccount` or changes nothing
  in it.
* `KeysExclusive`, `KeysUnique`, `AnswersRight`: idempotency, from an invariant on
  the sessions between insert and commit and on the answers given; and
  `OrdersPlacedOnce`, the refinement: a commit is `Place`, an answer from a committed
  order is `Tell`, everything else leaves both sets alone.
* `AllocatedInFull`: what a session has taken for the items of its cart, item by item, is what
  is asked of those it has done, and with `remaining` what is asked of the one it is at
  (`JobOK`); so a commit is of an order allocated in full (`FullInv`).
* `AllocationsCovered` [no manual operations, `OverlappingCancels = FALSE`]: what a session has
  pending on a row is what it has allocated there, or what it has released of its order
  (`SessionBacked`), two sessions do not cancel one order (`Separate`), and so the reserved
  quantity of a row is the sum of what the open orders hold of it (`Backed`): a commit adds or
  removes one summand.
* `UsedIsReceived`, `CapacityKept`, of the warehouses outside `OverlappingReceipts`: what a
  session has seen of its warehouse is its used capacity until it is committed, and the used
  capacity is the sum of the receipts in its rows (`UsedInv`). `UsedNotOverstated`, of all
  warehouses: a stale write may lower the used capacity, and a staler one raise it again, so it is
  not monotonic; but what a session has seen was never more than what had been received, which
  only grows, and whether its delivery fits was decided by what it has seen (`BoundInv`).
* `LedgerExplainsAvailable`, `ReceiptsPass`, `SalesConserve` of `SalesSpec`, orders and receipts
  alone. The `available` a receipt has read without a row lock stays true while it stores it
  (`AvailableInv`), because a session with an allocation pending in the warehouse does not commit
  while the receipt has the warehouse locked (`MayFlush`). `OperationsConserve` [no deliveries]
  says `StockConserved` of all orders and manual operations.

`SumTheorems` is what these rest on: how a sum over a finite set changes when a value or an
element is added, removed or changed, sums of equal, smaller or renamed values, and sums by
groups. A sum is a fold, a function defined by recursion over finite sets; the library's
induction theorems cannot be instantiated here, so its defining equation is proved from a
smallest counterexample (`SmallestSubset`, from the well-foundedness of strict inclusion).

### Lifecycle and the catalogue

* `LifecycleTypeCorrect` and `ShippedPacked`, however requests overlap:
  packages and shipments never disappear, and only sessions that have seen them write
  SHIPPED. `PackedShippedOnce`, `StatusShown` and `JourneyFollowed` for the orders whose requests
  come one at a time. What makes them inductive is that what a session has read is
  still so: `Alone` says nobody else is at work on the order, `WorkOK` what the session
  knows at each step, `RowsOK` how fulfillment, packages, shipment and status fit
  together. Each action is then framed (`Framed`: what it leaves alone) and mapped to a
  step of `OrderJourney` (`Moved`, `CalledOff`) or to a stutter (`Stayed`).
* `CatalogTypeCorrect`, `FirstReceiptsUnopposed`, `CatalogProofs!KeysUnique`:
  the invariant says that a session past the lock of its warehouse
  holds it, so that a row it found missing is still missing when it stores it, and that
  only one session has inserted a key.

### The whole system

* `OMSTypeCorrect`, `OMSLedgerExplains` and `OMSOnHandBounded`, however requests overlap. The
  types need that sessions name orders, returns and shipments that exist (`OMSTypeInv`); the
  other two follow from `StockInv`, which every step of `OMS` keeps: the steps of `Stock` by the
  lemmas about it, a restock as one more writer that locks its rows, and the rest because it
  writes no stock.
* The others need that the requests about an order come one at a time [`Overlapping = {}`].
  `Disciplined`, the constraint on the clients, is itself shown invariant, and keeps two sessions
  from working on one order, so what a session has read of it is still true when it
  writes. What that is differs from theorem to theorem:
  * `OMSReservedAllocated` [and no manual operations]: `Backed` of `OrderProofs`, which returns,
    fulfillment and shipments leave alone.
  * `OMSReturnTransitions`: the status of a return that a session has read (`StatusesRead`).
  * `OMSReturnsWithinOrder`: a session that has added up the returns of an item has all of them,
    and the items it has dealt with have room for its lines (`WithinInv`).
  * `OMSRestockComplete`: from that, from `FullInv` (orders are allocated in full, also those
    delivered before) and from `ReturnsNamed` (a return names items of its order): the plan of a
    restock takes back all of a line, because each line is at most what its item was allocated
    (`PlanTakesAll`), and what is restocked and what is left to restock add up (`RestockDone`).
  * `OMSRestockedOnce`: from `RestockComplete` and `StatusesRead`, a commit adds to the ledger
    what it adds to the returns that were received.
  * `OMSReturnedWasDelivered`: the rows of an order agree (`RowsAgree`: at most one shipment, of a
    packed order, which is SHIPPED or DELIVERED exactly when its shipment has left or
    arrived), and what sessions have read of them is true (`TaskRead`, `RequestRead`). A delivered
    order is then beyond picking, packing, shipping and cancelling.
  * `OMSNothingSoldTwice` [and no manual operations, `WorkOnCancelled = FALSE`]: an order that
    released its stock is CANCELLED (`ReleasedCancelled`) and was not shipped, so what the
    other orders hold is what is reserved, and that is on hand. `MCOversold` shows what happens without
    the last hypothesis.

`MCStock` checks `StockInv` as an invariant of its run. Its form for `OMS` was checked by TLC on the
instances of `MCOMS` and `MCOverlap` before it was proved, and the invariant of
`OMSReturnedWasDelivered` on that of `MCOMS`, also with operators who work on cancelled orders.

Only model-checked: the two liveness properties, `OMSRequestsEnd` and `CatalogRequestsEnd`
(fairness and ENABLED are beyond the prover). The runs that expect a violation are of
instances that break the hypotheses above.

## Not modelled

* Authentication and access checks (`auth.py`, `security.py`): functions of the request and
  of one user row that is only read. Roles and passwords of users go with them.
* `audit.py` reads a table that no handler writes; `analytics.py` reads aggregates that
  nothing else uses. Lists and gets read and change nothing.
* The migration and `schema.sql` create once the constraints the models contain.
* The 32-bit width of quantities: a statement that overflows fails, which is an abort.
* Expiry, returns to capacity and outgoing stock, which the code does not have.

## What comes next

1. The theorems of `OMS` order by order: today an instance in which requests about one order
   overlap falls outside their hypothesis for all orders, though the arguments are about one
   order at a time. `LifecycleProofs` already speaks of the orderly orders only.
2. That the fulfillment and shipments of `OMS` implement `OrderJourney`, order by order, as
   `Lifecycle` alone does.
3. That `OMS` implements an account of stock in which goods also come back.
