-------------------------------- MODULE OMS --------------------------------
(***************************************************************************)
(* The whole life of orders: placed, picked, packed, shipped, returned or  *)
(* cancelled, while goods are received and operators reserve and release   *)
(* stock in the same rows.  The modules meet in the tables: the status of  *)
(* an order is written by cancellations, by fulfillment and by shipments,  *)
(* and read by returns, which restock what the order was allocated.        *)
(***************************************************************************)
EXTENDS Stock, Returns, Relation

CONSTANTS
    Delivered,        \* orders that were delivered before the model starts
    Overlapping,      \* the orders about which requests may overlap
    WorkOnCancelled   \* do operators pick, pack and ship cancelled orders?

VARIABLES fulfillment, packages, shipments, task

lifeVars == <<fulfillment, packages, shipments, task>>
omsVars == <<vars, returnVars, lifeVars>>

\* What an order has reserved of each row.
Sold == [r \in Rows |-> SumFunctionOnSet([o \in DOMAIN Delivered |->
                            SumOf(Delivered[o].allocations,
                                  {n \in DOMAIN Delivered[o].allocations :
                                      Delivered[o].allocations[n].row = r})],
                            DOMAIN Delivered)]

ASSUME OMSAssumption ==
    /\ Delivered \in Seq({o \in PlacedOrders : o.status = "DELIVERED" /\ ~ o.released})
    /\ \A r \in Rows : Sold[r] <= InitialStock[r]
    /\ Overlapping \subseteq Nat
    /\ WorkOnCancelled \in BOOLEAN

\* create_order allocates the orders it commits in full (orders.py:60-82).
ASSUME DeliveredInFull ==
    \A o \in DOMAIN Delivered :
        LET cart == Delivered[o].cart
            al == Delivered[o].allocations
        IN  /\ \A i \in DOMAIN cart :
                  SumOf(al, {n \in DOMAIN al : al[n].item = i}) = cart[i].quantity
            /\ \A n \in DOMAIN al :
                  al[n].item \in DOMAIN cart /\ al[n].row[1] = cart[al[n].item].product

OrderIds == 1..(Len(Delivered) + MaxRequests)

LC == INSTANCE Lifecycle WITH order <- [o \in DOMAIN orders |-> orders[o].status],
                              Overlapping <- OrderIds

\* Delivering an order has changed no row of stock.
OMSInit ==
    /\ Opening(Sold)
    /\ WarehousesInit
    /\ ReturnsInit
    /\ orders = Delivered
    /\ job = [w \in Workers |-> NoJob]
    /\ answers = {}
    /\ fulfillment = [o \in DOMAIN Delivered |-> "PACKED"]
    /\ packages = [o \in DOMAIN Delivered |-> 1]
    /\ shipments = [o \in DOMAIN Delivered |-> [order |-> o, status |-> "DELIVERED"]]
    /\ task = [w \in Workers |-> LC!Idle]

(***************************************************************************)
(* What a session is about, and the clients' discipline: two requests about*)
(* an order do not overlap, unless it is one of Overlapping.  The code does*)
(* not enforce it.                                                         *)
(***************************************************************************)
About(w) ==
    CASE pc[w] \in {"cancel", "release"} -> {job[w].target}
      [] pc[w] \in ReturnSteps -> {returning[w].order}
      [] OTHER -> {task[w].order} \ {0}

Disciplined ==
    /\ \A v, w \in Workers : v # w => About(v) \cap About(w) \subseteq Overlapping
    /\ WorkOnCancelled \/ \A w \in Workers :
          task[w].order \in DOMAIN orders \ Overlapping =>
              orders[task[w].order].status # "CANCELLED"

-----------------------------------------------------------------------------

\* An order is committed with its fulfillment (orders.py:86).
OrderSide ==
    /\ fulfillment' = [o \in DOMAIN orders' |->
                          IF o \in DOMAIN orders THEN fulfillment[o] ELSE "ALLOCATED"]
    /\ packages' = [o \in DOMAIN orders' |->
                       IF o \in DOMAIN orders THEN packages[o] ELSE 0]
    /\ UNCHANGED <<warehouseVars, returnVars, shipments, task>>

ReceiptSide == UNCHANGED <<orderVars, returnVars, lifeVars>>

ReturnSide == UNCHANGED <<orderVars, warehouseVars, lifeVars>>

\* Fulfillment and shipments change nothing of orders but the status.
LifeSide(w) ==
    /\ \/ UNCHANGED orders
       \/ /\ task[w].order # 0
          /\ orders' = [orders EXCEPT ![task[w].order].status = task[w].target]
    /\ UNCHANGED <<inventory, movements, rowLock, whLock, whShare, pc, image, posted,
                   job, answers, warehouseVars, returnVars>>

OrderEvent(w) == (Send(w) \/ OrderStep(w) \/ AbortOrder(w)) /\ OrderSide
ReceiptEvent(w) == (Deliver(w) \/ ReceiptStep(w) \/ AbortReceipt(w)) /\ ReceiptSide
ReturnEvent(w) == (SendReturn(w) \/ ReturnStep(w) \/ AbortReturn(w)) /\ ReturnSide
LifeEvent(w) == LifeSide(w) /\ (LC!Fulfill(w) \/ LC!Ship(w) \/ LC!GiveUp(w))

OMSNext ==
    /\ \/ InventoryNext /\ UNCHANGED <<orderVars, warehouseVars, returnVars, lifeVars>>
       \/ \E w \in Workers :
             \/ LC!At(w, "idle") /\ (OrderEvent(w) \/ ReceiptEvent(w) \/ ReturnEvent(w))
             \/ pc[w] = "idle" /\ LifeEvent(w)
    /\ Disciplined'

OMSSpec == OMSInit /\ [][OMSNext]_omsVars

(***************************************************************************)
(* Who keeps a session waiting.  PostgreSQL looks for a cycle after        *)
(* deadlock_timeout and aborts a transaction that is on one.  A session    *)
(* that can go on goes on, and a deadlock does not last.  Nothing is       *)
(* assumed of clients, of crashes, or of who gets a lock first.            *)
(***************************************************************************)
Holding(k) == {v \in Workers : k \in holds[v]}

OMSWaitsFor(w) ==
    CASE pc[w] = "lock" /\ returning[w].queue # <<>> ->
            Holding(Head(returning[w].queue)) \ {w}
      [] pc[w] = "restock" /\ returning[w].plan # <<>> ->
            {rowLock[Head(returning[w].plan).row]} \ {w, NoWorker}
      [] pc[w] \in {"restock", "refund"} /\ returning[w].plan = <<>> ->
            Holding(returning[w].id)
      [] OTHER -> WaitsFor(w)

OMSDeadlocked(w) ==
    TransitiveClosure([v, u \in Workers |-> u \in OMSWaitsFor(v)], Workers)[w, w]

GoOn(w) ==
    \/ OrderStep(w) /\ OrderSide
    \/ ReceiptStep(w) /\ ReceiptSide
    \/ ReturnStep(w) /\ ReturnSide
    \/ task[w].order # 0 /\ LifeEvent(w)

OMSBreakDeadlock(w) ==
    /\ OMSDeadlocked(w)
    /\ \/ AbortOrder(w) /\ OrderSide
       \/ AbortReceipt(w) /\ ReceiptSide
       \/ AbortReturn(w) /\ ReturnSide

OMSFairness ==
    \A w \in Workers : WF_omsVars(GoOn(w)) /\ WF_omsVars(OMSBreakDeadlock(w))

OMSFairSpec == OMSSpec /\ OMSFairness

-----------------------------------------------------------------------------

OMSTypeOK ==
    /\ StoreTypeOK
    /\ OrdersTypeOK
    /\ WarehousesTypeOK
    /\ ReturnsTypeOK
    /\ pc \in [Workers -> {"idle"} \cup OrderSteps \cup ReceiptSteps \cup ReturnSteps]
    /\ fulfillment \in [DOMAIN orders -> LC!FulfillmentStatus]
    /\ packages \in [DOMAIN orders -> Nat]
    /\ shipments \in Seq([order : DOMAIN orders, status : LC!ShipmentStatus])
    /\ task \in [Workers -> LC!Tasks]

\* "A return cannot exceed the remaining returnable quantity for an order
\* item" (docs/database.md): the lines of all returns of an order together
\* (returns.py:47-50).
ReturnsWithinOrder ==
    \A o \in DOMAIN orders : \A i \in DOMAIN orders[o].cart :
        Returned(o, i) <= orders[o].cart[i].quantity

RestockedLines(k) == SumOf(returns[k].lines, Restockable(returns[k].lines))

\* Each return that was received is in stock again, once: the RETURN entries of
\* the ledger are its restockable lines (returns.py:79-102).
RestockedOnce ==
    SumFunctionOnSet(movements["RETURN"], Rows)
        = SumFunctionOnSet([k \in DOMAIN returns |-> RestockedLines(k)],
                            {k \in DOMAIN returns : returns[k].status # "REQUESTED"})

\* There is always room for all of a return among the allocations of its items:
\* the 409 of returns.py:100-101 is never the answer.
RestockComplete ==
    \A w \in Workers :
        pc[w] = "restock" =>
            SumFunctionOnSet(posted[w], Rows)
              + SumOf(returning[w].plan, DOMAIN returning[w].plan)
                = RestockedLines(returning[w].id)

\* The ledger explains every quantity of a row into which nothing was received
\* since, however orders, cancellations, returns and manual operations overlap
\* (orders.py:68-81, 135-147, returns.py:88-98, inventory.py:26-57).
LedgerExplainsStock ==
    \A r \in Rows :
        LET reserved == movements["RESERVATION"][r] - movements["RELEASE"][r]
        IN  movements["RECEIPT"][r] = InitialStock[r] =>
                /\ inventory[r].on_hand = InitialStock[r] + movements["RETURN"][r]
                /\ inventory[r].reserved = reserved
                /\ inventory[r].available = inventory[r].on_hand - reserved

\* A receipt may overwrite what a return has just added, but it loses no other
\* receipt, and nothing is ever on hand that was neither received nor returned
\* (warehouses.py:82-91, returns.py:88-98).
OnHandBounded ==
    \A r \in Rows :
        /\ movements["RECEIPT"][r] <= inventory[r].on_hand
        /\ inventory[r].on_hand <= movements["RECEIPT"][r] + movements["RETURN"][r]

\* A return is requested, then received, then refunded, and never goes back
\* (returns.py:76, 114).
ReturnTransitions ==
    [][\A k \in DOMAIN returns :
          <<returns[k].status, returns'[k].status>> \in
              {<<"REQUESTED", "REQUESTED">>, <<"REQUESTED", "RECEIVED">>,
               <<"RECEIVED", "RECEIVED">>, <<"RECEIVED", "REFUNDED">>,
               <<"REFUNDED", "REFUNDED">>}]_omsVars

\* An order with a return is a delivered one, and stays it: neither
\* fulfillment nor a cancellation reaches it any more (returns.py:30,
\* orders.py:132).
ReturnedWasDelivered ==
    \A k \in DOMAIN returns : orders[returns[k].order].status = "DELIVERED"

HeldBy(S, r) == SumFunctionOnSet([o \in DOMAIN orders |-> Held(o, r)], S)

\* Without manual operations the reserved quantity of a row is the sum of the
\* allocations of the orders that are not cancelled, through picking, shipping,
\* delivery and returns, which all leave it alone (orders.py:76-78, 143-146).
ReservedIsAllocated ==
    \A r \in Rows :
        inventory[r].reserved = HeldBy({o \in DOMAIN orders : ~ orders[o].released}, r)

Shipped(o) ==
    \E n \in DOMAIN shipments :
        shipments[n].order = o /\ shipments[n].status # "READY_TO_SHIP"

\* No unit is sold twice: the orders that may still be shipped and those that
\* were, all together, hold no more of a row than is on hand
\* (docs/design-decisions.md:39, orders.py:132-149, shipments.py:47-57).
NothingSoldTwice ==
    \A r \in Rows :
        HeldBy({o \in DOMAIN orders : ~ orders[o].released \/ Shipped(o)}, r)
            <= inventory[r].on_hand

\* Every request ends, whatever it waits for.
OMSRequestsEnd ==
    \A w \in Workers :
        pc[w] # "idle" \/ task[w].order # 0 ~> pc[w] = "idle" /\ task[w].order = 0
=============================================================================
