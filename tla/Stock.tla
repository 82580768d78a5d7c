------------------------------- MODULE Stock -------------------------------
(***************************************************************************)
(* Every operation on stock, from any number of sessions: manual           *)
(* reservations and releases, orders and cancellations, receipts.          *)
(***************************************************************************)
EXTENDS Inventory, Orders, Warehouses

vars == <<storeVars, orderVars, warehouseVars>>

Init ==
    /\ StoreInit
    /\ OrdersInit
    /\ WarehousesInit

Next ==
    \/ InventoryNext /\ UNCHANGED <<orderVars, warehouseVars>>
    \/ OrdersNext /\ UNCHANGED warehouseVars
    \/ WarehousesNext /\ UNCHANGED orderVars

Spec == Init /\ [][Next]_vars

(***************************************************************************)
(* Who keeps a session waiting for a lock.                                 *)
(***************************************************************************)
WaitsFor(w) ==
    CASE pc[w] = "insert" -> KeyHolders(w)
      [] pc[w] = "allocate" /\ job[w].queue # <<>> ->
            {rowLock[Head(job[w].queue)]} \ {w, NoWorker}
      [] pc[w] = "allocate" /\ job[w].queue = <<>> /\ job[w].remaining = 0 ->
            {whLock[wh] : wh \in Allocated(w)} \ {w, NoWorker}
      [] pc[w] = "release" /\ job[w].releasing # <<>> ->
            {rowLock[Head(job[w].releasing).row]} \ {w, NoWorker}
      [] pc[w] = "receive" -> LockHolders(w)
      [] pc[w] = "store" -> {rowLock[receipt[w].at]} \ {NoWorker}
      [] OTHER -> {}

(***************************************************************************)
(* Orders are only placed and goods only received: no cancellation and no  *)
(* manual operation.                                                       *)
(***************************************************************************)
Checkout(w) ==
    \/ \E k \in Keys, cart \in Carts : CreateOrder(w, k, cart)
    \/ OrderStep(w)
    \/ AbortOrder(w)

SalesNext ==
    \/ \E w \in Workers : Checkout(w) /\ UNCHANGED warehouseVars
    \/ WarehousesNext /\ UNCHANGED orderVars

SalesSpec == Init /\ [][SalesNext]_vars

-----------------------------------------------------------------------------

TypeOK ==
    /\ StoreTypeOK
    /\ OrdersTypeOK
    /\ WarehousesTypeOK
    /\ pc \in [Workers -> {"idle"} \cup OrderSteps \cup ReceiptSteps]

\* Every unit reserved was put there by a reservation of the ledger that no
\* release of the ledger took back, in every row, whatever sessions overlap
\* (orders.py, inventory.py).
ReservedMatchesMovements ==
    \A r \in Rows :
        inventory[r].reserved + movements["RELEASE"][r] = movements["RESERVATION"][r]

\* on_hand is the sum of the receipts of the ledger: receipts do not lose one
\* another though they read the row without a lock (warehouses.py:82).
OnHandMatchesReceipts ==
    \A r \in Rows : inventory[r].on_hand = movements["RECEIPT"][r]

\* No oversell: what reservations took and releases did not give back never
\* exceeds what was received (orders.py:68-76, inventory.py:28-35).
NoOversell ==
    \A r \in Rows :
        movements["RESERVATION"][r] <= movements["RECEIPT"][r] + movements["RELEASE"][r]

\* Nothing is lost: a unit on hand is either available or reserved.  This
\* holds while sessions only reserve, or only reserve and release under the
\* row lock.
StockConserved ==
    \A r \in Rows : inventory[r].available + inventory[r].reserved = inventory[r].on_hand

\* A row a session has locked is changed by nobody else: if it changes, its
\* owner's transaction ends with that step.
LockedRowsStable ==
    [][\A r \in Rows :
          rowLock[r] # NoWorker /\ inventory'[r] # inventory[r]
              => pc'[rowLock[r]] = "idle"]_vars

\* The handlers that lock rows before they validate (orders.py:76-81,
\* 140-144) never let a CHECK constraint refuse their changes.
ValidatedBeforeChecks ==
    \A w \in Workers :
        /\ pc[w] = "allocate" => PassesChecks(w, "RESERVATION")
        /\ pc[w] = "release" => PassesChecks(w, "RELEASE")

\* A committed order is allocated in full, item by item, from rows of the
\* item's product (orders.py:67-82).
Allotted(o, i) ==
    LET al == orders[o].allocations
    IN  SumOf(al, {n \in DOMAIN al : al[n].item = i})
OrdersFullyAllocated ==
    \A o \in DOMAIN orders :
        LET cart == orders[o].cart
            al == orders[o].allocations
        IN  /\ \A i \in DOMAIN cart : Allotted(o, i) = cart[i].quantity
            /\ \A n \in DOMAIN al : al[n].row[1] = cart[al[n].item].product

\* One order per Idempotency-Key, though the handler checks for the key long
\* before it commits the order (orders.py:48, 58, 87).
OneOrderPerKey ==
    \A i, j \in DOMAIN orders :
        orders[i].key = orders[j].key /\ orders[i].key # NoKey => i = j

\* From its insert to its commit an order is the only one of its key, among
\* those that are committed and those that other sessions have inserted
\* (orders.py:56-58, the unique index of models.py:98).
KeyExclusive ==
    \A w \in Workers :
        pc[w] = "allocate" /\ job[w].key # NoKey =>
            /\ WithKey(job[w].key) = {}
            /\ \A v \in Workers \ {w} :
                  pc[v] = "allocate" => job[v].key # job[w].key

\* What a client is told of a key is the truth: the order it is given has the
\* key and the payload it sent, and it is refused only if the key stands for
\* another payload (orders.py:47-53, 95-101).  Of keys with a value.
KeyedAnswersRight ==
    \A a \in answers :
        Truthy(a.key) =>
            IF a.order = 0
            THEN \E o \in WithKey(a.key) : orders[o].cart # a.cart
            ELSE a.order \in Same(a.key, a.cart)

\* The reservations of a row cover the allocations of the orders that are not
\* cancelled (orders.py:135-147).
Held(o, r) ==
    LET al == orders[o].allocations
    IN  SumOf(al, {n \in DOMAIN al : al[n].row = r})
AllocationsBacked ==
    \A r \in Rows :
        SumFunctionOnSet([o \in DOMAIN orders |-> Held(o, r)],
                          {o \in DOMAIN orders : ~ orders[o].released})
            <= inventory[r].reserved

\* The ledger explains what is available (docs/concurrency.md:38): receipts
\* and releases minus reservations.
AvailableMatchesMovements ==
    \A r \in Rows :
        inventory[r].available + movements["RESERVATION"][r]
            = movements["RECEIPT"][r] + movements["RELEASE"][r]

\* A receipt is refused by validation or not at all (docs/architecture.md:65):
\* while there are only orders and receipts, the CHECK constraint never refuses
\* what a receipt computed from a row it read without a lock (warehouses.py:82),
\* because the allocations of an order wait for the warehouse.
ReceiptPassesChecks ==
    \A w \in Workers : AtRow(w) => PassesChecks(w, "RECEIPT")

\* The operations keep the promises of StockAccount.
Account == INSTANCE StockAccount
KeepsAccount == Account!AccountSpec

\* However requests with one key race, retry and fail, clients see what
\* IdempotentOrders promises (orders.py:46-58, 84-102).
Idempotent == INSTANCE IdempotentOrders WITH
    placed <- {[key |-> orders[o].key, cart |-> orders[o].cart, order |-> o] :
                  o \in {n \in DOMAIN orders : Truthy(orders[n].key)}},
    told <- {a \in answers : Truthy(a.key)}
PlacesOnce == Idempotent!PlacingSpec
=============================================================================
